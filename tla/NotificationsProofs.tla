------------------------- MODULE NotificationsProofs -------------------------
(***************************************************************************)
(* For any threads, timers and bounds: the client of the scheduler runs its  *)
(* callbacks one at a time and in order, and forgets none.                   *)
(*                                                                          *)
(* Every step moves one thread and may wake scheduler threads that wait     *)
(* (Moves).  The invariant says which places each kind of thread can be at, *)
(* that the flag m_are_callbacks_running excludes a second thread from       *)
(* ProcessQueue, and what Shutdown has established at each of its steps.     *)
(* First each kind of step preserves it, given that it preserves the types; *)
(* then the types; then the steps make up Next.                             *)
(***************************************************************************)
EXTENDS Notifications, TLAPS

Processor == SchedulerThread \cup {Main}

Moves(t, place) ==
  /\ pc' \in [Thread -> Place]
  /\ pc'[t] = place
  /\ \A u \in Thread \ {t} :
       \/ pc'[u] = pc[u]
       \/ /\ u \in SchedulerThread
          /\ pc[u] \in {"wait", "until"}
          /\ pc'[u] \in {"wokeWait", "wokeUntil", "timedOut"}

\* Which kind of thread can be where.
Roles ==
  /\ \A t \in SchedulerThread :
       pc[t] \in {"top", "entropy", "wait", "wokeWait", "until", "wokeUntil", "timedOut", "timer", "exited",
                  "process", "callback", "called", "maybe", "schedule"}
  /\ \A t \in Validator :
       pc[t] \in {"maybe", "schedule", "sync", "await", "idle", "limit", "connect", "emitted", "stepped"}
  /\ pc[Main] \in {"idle", "joinPeers", "joinScheduler", "joinLoadBlock", "empty", "done",
                   "process", "callback", "called", "maybe", "schedule"}

InCallback(t) == pc[t] \in {"callback", "called"}

\* The thread that set the flag is alone, and has a callback until it calls it.
Exclusion ==
  /\ \A t, u \in Processor : InCallback(t) /\ InCallback(u) => t = u
  /\ \A t \in Processor : InCallback(t) => m_are_callbacks_running
  /\ \A t \in Processor : pc[t] = "callback" => callback[t] \in Callback

TimersTaken == \A w \in SchedulerThread : pc[w] = "timer" => task[w] \in Timer

\* What Shutdown has reached.
Stages ==
  /\ pc[Main] # "idle" => shutdownRequested
  /\ stopRequested <=> pc[Main] \notin {"idle", "joinPeers"}
  /\ stopRequested => \A t \in ServerThread : pc[t] = "idle"
  /\ pc[Main] \notin {"idle", "joinPeers", "joinScheduler"} => \A w \in SchedulerThread : pc[w] = "exited"
  /\ pc[Main] \notin {"idle", "joinPeers", "joinScheduler", "joinLoadBlock"} =>
       \A t \in LoadBlockThread : pc[t] = "idle"
  /\ pc[Main] = "done" => m_callbacks_pending = <<>>

IInv ==
  /\ TypeOK
  /\ Roles
  /\ Exclusion
  /\ TimersTaken
  /\ Stages
  /\ NoCallbackForgotten

-----------------------------------------------------------------------------
(* Places and tasks.                                                          *)

\* A thread moves and nobody is woken.
LEMMA MoveAlone ==
  ASSUME TypeOK, NEW t \in Thread, NEW place \in Place, pc' = [pc EXCEPT ![t] = place]
  PROVE  Moves(t, place)
BY DEF TypeOK, Moves

\* A thread moves and notifies one that waits.
LEMMA MoveNotifying ==
  ASSUME TypeOK, NEW t \in Thread, NEW place \in Place \ {"wait", "until"},
         pc' \in NotifyOne([pc EXCEPT ![t] = place])
  PROVE  Moves(t, place)
<1> DEFINE p == [pc EXCEPT ![t] = place]
<1>1. p \in [Thread -> Place] /\ p[t] = place /\ \A u \in Thread \ {t} : p[u] = pc[u]
  BY DEF TypeOK
<1>2. CASE pc' = p
  BY <1>1, <1>2 DEF Moves
<1>3. CASE \E w \in Waiting(p) : pc' = Wake(p, w)
  <2>1. PICK w \in Waiting(p) : pc' = Wake(p, w)
    BY <1>3
  <2>2. w \in Thread /\ w \in SchedulerThread /\ p[w] \in {"wait", "until"} /\ w # t
    BY <1>1 DEF Waiting, Thread
  <2>3. PICK x \in {"wokeWait", "timedOut", "wokeUntil"} : pc' = [p EXCEPT ![w] = x]
    BY <2>1, ZenonT(30) DEF Wake
  <2>4. x \in Place
    BY DEF Place
  <2> QED
    BY <1>1, <2>2, <2>3, <2>4 DEF Moves
<1> QED
  BY <1>2, <1>3, ZenonT(30) DEF NotifyOne

\* A scheduler thread wakes for no reason.
LEMMA MoveSpurious ==
  ASSUME TypeOK, NEW w \in SchedulerThread, SpuriousWakeup(w)
  PROVE  \E x \in {"wokeWait", "timedOut", "wokeUntil"} : Moves(w, x)
<1>1. PICK x \in {"wokeWait", "timedOut", "wokeUntil"} : pc' = [pc EXCEPT ![w] = x]
  BY ZenonT(30) DEF SpuriousWakeup, Wake
<1>2. x \in Place /\ w \in Thread
  BY DEF Place, Thread
<1> QED
  BY <1>1, <1>2, MoveAlone, ZenonT(30)

\* schedule adds its task to the queue and keeps the others.
LEMMA ScheduleAdds ==
  ASSUME TypeOK, NEW what \in Timer \cup {"ProcessQueue"}, NEW left \in 0..Interval, schedule(what, left)
  PROVE  /\ taskQueue' \in Seq([what : Timer \cup {"ProcessQueue"}, left : 0..Interval])
         /\ \E i \in DOMAIN taskQueue' : taskQueue'[i].what = what
         /\ \A k \in DOMAIN taskQueue : \E i \in DOMAIN taskQueue' : taskQueue'[i] = taskQueue[k]
<1> DEFINE Task == [what : Timer \cup {"ProcessQueue"}, left : 0..Interval]
           new == [what |-> what, left |-> left]
           n == Len(taskQueue)
<1>1. n \in Nat /\ DOMAIN taskQueue = 1..n /\ \A k \in 1..n : taskQueue[k] \in Task
  <2>1. taskQueue \in Seq(Task)
    BY DEF TypeOK
  <2> HIDE DEF Task
  <2> QED
    BY <2>1
<1>2. new \in Task
  OBVIOUS
<1>3. PICK i \in 0..n :
        taskQueue' = [k \in 1..n + 1 |-> IF k <= i THEN taskQueue[k]
                                         ELSE IF k = i + 1 THEN new ELSE taskQueue[k - 1]]
  BY DEF schedule
<1> HIDE DEF new, Task
<1>4. \A k \in 1..n + 1 : (IF k <= i THEN taskQueue[k] ELSE IF k = i + 1 THEN new ELSE taskQueue[k - 1]) \in Task
  BY <1>1, <1>2
<1>5. taskQueue' \in [1..n + 1 -> Task]
  BY <1>3, <1>4, ZenonT(30)
<1>6. taskQueue' \in Seq(Task)
  BY <1>1, <1>5
<1>7. DOMAIN taskQueue' = 1..n + 1 /\ i + 1 \in 1..n + 1 /\ taskQueue'[i + 1] = new
  BY <1>1, <1>3
<1>8. new.what = what
  BY DEF new
<1>9. ASSUME NEW k \in 1..n PROVE \E j \in 1..n + 1 : taskQueue'[j] = taskQueue[k]
  <2>1. CASE k <= i
    BY <1>1, <1>3, <2>1
  <2>2. CASE k > i
    <3>1. k + 1 \in 1..n + 1 /\ ~(k + 1 <= i) /\ k + 1 # i + 1 /\ (k + 1) - 1 = k
      BY <1>1, <2>2
    <3> QED
      BY <1>3, <3>1, ZenonT(30)
  <2> QED
    BY <1>1, <2>1, <2>2
<1> QED
  BY <1>1, <1>6, <1>7, <1>8, <1>9, ZenonT(30) DEF Task

-----------------------------------------------------------------------------
(* Steps that leave the queue of callbacks alone.                             *)

\* A scheduler thread looks at the queue of tasks, waits, wakes or exits.
LEMMA WorkerIdles ==
  ASSUME IInv, TypeOK', NEW w \in SchedulerThread,
         pc[w] \in {"top", "entropy", "wait", "wokeWait", "until", "wokeUntil", "timedOut"},
         NEW place \in {"entropy", "wait", "wokeWait", "until", "wokeUntil", "timedOut", "exited"},
         Moves(w, place),
         UNCHANGED <<taskQueue, stopRequested, task, clientVars, shutdownRequested>>
  PROVE  IInv'
<1> USE DEF IInv, Moves
<1>1. w \in Thread /\ w # Main /\ w \notin Validator
  BY NotificationsAssumption DEF Thread
<1>2. \A u \in Thread : pc[u] \notin {"wait", "until"} /\ u # w => pc'[u] = pc[u]
  OBVIOUS
<1>3. /\ \A u \in Validator : pc'[u] = pc[u]
      /\ pc'[Main] = pc[Main]
  BY NotificationsAssumption, <1>1 DEF Thread, Validator
<1>4. Roles'
  BY <1>1, <1>3 DEF Roles, Thread
<1>5. \A u \in Processor : InCallback(u)' => InCallback(u) /\ pc'[u] = pc[u]
  BY <1>1 DEF Processor, Thread, InCallback
<1>6. Exclusion'
  BY <1>5 DEF Exclusion, InCallback, clientVars
<1>7. TimersTaken'
  BY <1>1 DEF TimersTaken, Thread
<1>8. Stages'
  <2>1. pc[Main] \in {"idle", "joinPeers", "joinScheduler"}
    BY DEF Stages
  <2> QED
    BY <1>3, <2>1 DEF Stages, Validator
<1>9. NoCallbackForgotten'
  <2>1. \A u \in Thread : Responsible(u) => Responsible(u)'
    BY <1>1, <1>2, <1>3 DEF Responsible
  <2> QED
    BY <2>1 DEF NoCallbackForgotten, clientVars
<1> QED
  BY <1>4, <1>6, <1>7, <1>8, <1>9

\* A thread that connects blocks goes on, between two uses of the queue.
LEMMA ValidatorGoesOn ==
  ASSUME IInv, TypeOK', NEW t \in Validator,
         pc[t] \notin {"maybe", "schedule"}, pc[t] = "idle" => ~shutdownRequested,
         NEW place \in {"idle", "limit", "sync", "connect", "stepped"},
         Moves(t, place),
         UNCHANGED <<schedulerVars, clientVars, shutdownRequested>>
  PROVE  IInv'
<1> USE DEF IInv, Moves
<1>1. t \in Thread /\ t # Main /\ t \notin SchedulerThread
  BY NotificationsAssumption DEF Thread
<1>2. \A u \in Thread : pc[u] \notin {"wait", "until"} /\ u # t => pc'[u] = pc[u]
  OBVIOUS
<1>3. /\ \A u \in Validator \ {t} : pc'[u] = pc[u]
      /\ pc'[Main] = pc[Main]
      /\ \A u \in SchedulerThread : pc[u] = "exited" => pc'[u] = "exited"
  BY NotificationsAssumption, <1>1 DEF Thread, Validator
<1>4. Roles'
  BY <1>1, <1>3 DEF Roles, Thread
<1>5. \A u \in Processor : InCallback(u)' => InCallback(u) /\ pc'[u] = pc[u]
  BY <1>1 DEF Processor, Thread, InCallback
<1>6. Exclusion'
  BY <1>5 DEF Exclusion, InCallback, clientVars
<1>7. TimersTaken'
  BY <1>1 DEF TimersTaken, Thread, schedulerVars
<1>8. Stages'
  BY <1>1, <1>3 DEF Stages, Validator, schedulerVars, clientVars
<1>9. NoCallbackForgotten'
  <2>1. \A u \in Thread : Responsible(u) => Responsible(u)'
    BY <1>1, <1>2, <1>3 DEF Responsible, Roles
  <2> QED
    BY <2>1 DEF NoCallbackForgotten, clientVars, schedulerVars
<1> QED
  BY <1>4, <1>6, <1>7, <1>8, <1>9

-----------------------------------------------------------------------------
(* Steps of AddToProcessQueue and MaybeScheduleProcessQueue.                  *)

\* A thread that connects blocks, or Shutdown, adds a callback.
LEMMA PushPreserves ==
  ASSUME IInv, TypeOK', NEW t \in Validator \cup {Main}, NEW kind \in {"signal", "sync"}, Push(t, kind),
         t \in Validator => pc[t] \notin {"maybe", "schedule"} /\ (pc[t] = "idle" => ~shutdownRequested),
         t = Main => pc[t] = "joinLoadBlock" /\ \A u \in LoadBlockThread : pc[u] = "idle",
         UNCHANGED <<schedulerVars, shutdownRequested>>
  PROVE  IInv'
<1> USE DEF IInv
<1>1. t \in Thread /\ t \notin SchedulerThread
  BY NotificationsAssumption DEF Thread
<1>2. pc'[t] = "maybe" /\ \A u \in Thread \ {t} : pc'[u] = pc[u]
  BY <1>1 DEF Push, TypeOK
<1>3. Roles'
  BY <1>1, <1>2, NotificationsAssumption DEF Roles, Thread
<1>4. \A u \in Processor : InCallback(u)' => InCallback(u) /\ pc'[u] = pc[u]
  BY <1>1, <1>2 DEF Processor, Thread, InCallback
<1>5. Exclusion'
  BY <1>4 DEF Exclusion, InCallback, Push
<1>6. TimersTaken'
  BY <1>1, <1>2 DEF TimersTaken, Thread, schedulerVars
<1>7. Stages'
  <2>1. CASE t = Main
    BY <1>1, <1>2, <2>1, NotificationsAssumption DEF Stages, Thread, Validator, schedulerVars
  <2>2. CASE t \in Validator
    <3>1. pc'[Main] = pc[Main] /\ pc[Main] # "done"
      BY <1>1, <1>2, <2>2, NotificationsAssumption DEF Stages, Thread, Validator
    <3> QED
      BY <1>1, <1>2, <2>2, <3>1, NotificationsAssumption DEF Stages, Thread, Validator, schedulerVars
  <2> QED
    BY <2>1, <2>2
<1>8. NoCallbackForgotten'
  BY <1>1, <1>2 DEF NoCallbackForgotten, Responsible
<1> QED
  BY <1>3, <1>5, <1>6, <1>7, <1>8

\* Where a thread returns to is one of its places, and none that matters here.
LEMMA ReturnPlaces ==
  ASSUME NEW t \in Thread
  PROVE  /\ t \in SchedulerThread => ReturnTo(t) = "top"
         /\ t = Main => ReturnTo(t) = "empty"
         /\ t \in Validator => ReturnTo(t) \in {"emitted", "await"}
         /\ ReturnTo(t) \in Place \ {"wait", "until"}
BY NotificationsAssumption DEF ReturnTo, Thread, Place

\* A thread leaves MaybeScheduleProcessQueue or ProcessQueue, or goes on to
\* schedule: what it owed is not needed any more, scheduled, or still owed.
LEMMA LeavePreserves ==
  ASSUME IInv, TypeOK', NEW t \in Thread, pc[t] \in {"maybe", "schedule", "process"},
         NEW place, place = ReturnTo(t) \/ place = "schedule",
         Moves(t, place),
         UNCHANGED <<stopRequested, task, clientVars, shutdownRequested>>,
         NoCallbackForgotten'
  PROVE  IInv'
<1> USE DEF IInv, Moves
<1>1. \A u \in Thread : pc[u] \notin {"wait", "until"} /\ u # t => pc'[u] = pc[u]
  OBVIOUS
<1>2. /\ \A u \in Validator \ {t} : pc'[u] = pc[u]
      /\ Main # t => pc'[Main] = pc[Main]
      /\ \A u \in SchedulerThread \ {t} : pc[u] = "exited" => pc'[u] = "exited"
  BY NotificationsAssumption DEF Thread, Validator
<1>3. /\ t \in SchedulerThread => pc'[t] \in {"top", "schedule"}
      /\ t = Main => pc'[t] \in {"empty", "schedule"}
      /\ t \in Validator => pc'[t] \in {"emitted", "await", "schedule"}
  BY ReturnPlaces
<1>4. Roles'
  BY <1>2, <1>3 DEF Roles, Thread
<1>5. \A u \in Processor : InCallback(u)' => InCallback(u) /\ pc'[u] = pc[u]
  BY <1>3 DEF Processor, Thread, InCallback
<1>6. Exclusion'
  BY <1>5 DEF Exclusion, InCallback, clientVars
<1>7. TimersTaken'
  BY <1>3 DEF TimersTaken, Thread
<1>8. Stages'
  <2>1. CASE t = Main
    <3>1. pc[Main] \notin {"idle", "joinPeers", "joinScheduler", "joinLoadBlock", "done"} /\ pc'[Main] \in {"empty", "schedule"}
      BY <2>1, <1>3
    <3> QED
      BY <1>2, <2>1, <3>1, NotificationsAssumption DEF Stages, Validator, clientVars
  <2>2. CASE t # Main
    BY <1>2, <2>2 DEF Stages, Validator, clientVars
  <2> QED
    BY <2>1, <2>2
<1> QED
  BY <1>4, <1>6, <1>7, <1>8

LEMMA SchedulePreserves ==
  ASSUME IInv, TypeOK', NEW t \in Thread, ScheduleStep(t)
  PROVE  IInv'
<1>1. CASE MaybeScheduleProcessQueue(t)
  <2> DEFINE place == IF NothingToProcess THEN ReturnTo(t) ELSE "schedule"
  <2>1. pc[t] = "maybe" /\ Moves(t, place)
    <3>1. place \in Place
      BY ReturnPlaces DEF Place
    <3> QED
      BY <1>1, <3>1, MoveAlone, ZenonT(30) DEF MaybeScheduleProcessQueue, IInv
  <2>2. UNCHANGED <<taskQueue, stopRequested, task, clientVars, shutdownRequested>>
    BY <1>1 DEF MaybeScheduleProcessQueue, schedulerVars
  <2>3. NoCallbackForgotten'
    <3>1. CASE NothingToProcess
      BY <2>2, <3>1 DEF NoCallbackForgotten, NothingToProcess, clientVars
    <3>2. CASE ~NothingToProcess
      BY <2>1, <3>2 DEF NoCallbackForgotten, Responsible, Moves
    <3> QED
      BY <3>1, <3>2
  <2> QED
    BY <2>1, <2>2, <2>3, LeavePreserves
<1>2. CASE MaybeScheduleProcessQueue_Schedules(t)
  <2>1. pc[t] = "schedule" /\ Moves(t, ReturnTo(t))
    BY <1>2, MoveNotifying, ReturnPlaces DEF MaybeScheduleProcessQueue_Schedules, IInv
  <2>2. UNCHANGED <<stopRequested, task, clientVars, shutdownRequested>>
    BY <1>2 DEF MaybeScheduleProcessQueue_Schedules
  <2>3. NoCallbackForgotten'
    <3>1. \E i \in DOMAIN taskQueue' : taskQueue'[i].what = "ProcessQueue"
      <4>1. 0 \in 0..Interval
        BY NotificationsAssumption
      <4> QED
        BY <1>2, <4>1, ScheduleAdds, ZenonT(30) DEF MaybeScheduleProcessQueue_Schedules, IInv
    <3>2. CASE ~stopRequested
      BY <2>2, <3>1, <3>2 DEF NoCallbackForgotten
    <3>3. CASE stopRequested
      <4>1. t # Main => pc[Main] \in {"joinScheduler", "joinLoadBlock"}
        BY <2>1, <3>3, NotificationsAssumption DEF IInv, Stages, Thread, Validator
      <4>2. pc'[Main] \in {"joinScheduler", "joinLoadBlock", "empty"} /\ Main \in Thread
        BY <2>1, <4>1, ReturnPlaces, NotificationsAssumption DEF Moves, Thread
      <4> QED
        BY <4>2 DEF NoCallbackForgotten, Responsible
    <3> QED
      BY <3>2, <3>3
  <2> QED
    BY <2>1, <2>2, <2>3, LeavePreserves
<1> QED
  BY <1>1, <1>2 DEF ScheduleStep

-----------------------------------------------------------------------------
(* Steps of ProcessQueue.                                                     *)

\* The flag decides: a thread that takes a callback finds nobody in one.
LEMMA ProcessPreserves ==
  ASSUME IInv, TypeOK', NEW t \in Processor, ProcessStep(t) \/ ProcessQueue_Calls(t)
  PROVE  IInv'
<1>0. t \in Thread /\ t \notin Validator /\ (t = Main <=> t \notin SchedulerThread)
  BY NotificationsAssumption DEF Processor, Thread
<1>1. CASE ProcessQueue_Returns(t)
  <2>1. pc[t] = "process" /\ Moves(t, ReturnTo(t))
    BY <1>0, <1>1, MoveAlone, ReturnPlaces, ZenonT(30) DEF ProcessQueue_Returns, IInv
  <2>2. UNCHANGED <<taskQueue, stopRequested, task, clientVars, shutdownRequested>>
    BY <1>1 DEF ProcessQueue_Returns, schedulerVars
  <2>3. NoCallbackForgotten'
    BY <1>1, <2>2 DEF NoCallbackForgotten, NothingToProcess, clientVars, ProcessQueue_Returns
  <2> QED
    BY <1>0, <2>1, <2>2, <2>3, LeavePreserves
<1>2. CASE ProcessQueue_TakesCallback(t) \/ ProcessQueue_Calls(t) \/ ProcessQueue_Finishes(t)
  <2> DEFINE place == IF pc[t] = "process" THEN "callback" ELSE IF pc[t] = "callback" THEN "called" ELSE "maybe"
  <2>1. /\ pc[t] \in {"process", "callback", "called"} /\ pc'[t] = place
        /\ \A u \in Thread \ {t} : pc'[u] = pc[u]
    BY <1>0, <1>2 DEF ProcessQueue_TakesCallback, ProcessQueue_Calls, ProcessQueue_Finishes, IInv, TypeOK
  <2>2. UNCHANGED <<taskQueue, stopRequested, task, shutdownRequested>>
    BY <1>2 DEF ProcessQueue_TakesCallback, ProcessQueue_Calls, ProcessQueue_Finishes, schedulerVars
  <2>3. Roles'
    BY <1>0, <2>1 DEF Roles, IInv, Thread
  <2>4. Exclusion'
    <3>1. CASE ProcessQueue_TakesCallback(t)
      <4>1. \A u \in Processor : ~InCallback(u)
        BY <3>1 DEF IInv, Exclusion, ProcessQueue_TakesCallback, NothingToProcess
      <4>2. m_are_callbacks_running' /\ callback'[t] = Head(m_callbacks_pending) /\ m_callbacks_pending # <<>>
        BY <3>1 DEF ProcessQueue_TakesCallback, NothingToProcess, IInv, TypeOK, Processor
      <4>3. callback'[t] \in Callback
        <5>1. m_callbacks_pending \in Seq(Callback)
          BY DEF IInv, TypeOK
        <5> QED
          BY <4>2, <5>1
      <4>4. \A u \in Processor \ {t} : pc'[u] = pc[u]
        BY <2>1 DEF Processor, Thread
      <4> QED
        BY <2>1, <4>1, <4>2, <4>3, <4>4 DEF Exclusion, InCallback
    <3>2. CASE ProcessQueue_Calls(t) \/ ProcessQueue_Finishes(t)
      <4>1. InCallback(t) /\ \A u \in Processor \ {t} : ~InCallback(u)
        BY <3>2 DEF IInv, Exclusion, InCallback, ProcessQueue_Calls, ProcessQueue_Finishes
      <4>2. \A u \in Processor \ {t} : pc'[u] = pc[u]
        BY <2>1 DEF Processor, Thread
      <4>3. CASE ProcessQueue_Calls(t)
        <5>1. pc'[t] = "called" /\ m_are_callbacks_running'
          BY <2>1, <4>1, <4>3 DEF ProcessQueue_Calls, IInv, Exclusion
        <5> QED
          BY <4>1, <4>2, <5>1, ZenonT(30) DEF Exclusion, InCallback
      <4>4. CASE ProcessQueue_Finishes(t)
        <5>1. pc'[t] = "maybe"
          BY <2>1, <4>4 DEF ProcessQueue_Finishes
        <5> QED
          BY <4>1, <4>2, <5>1 DEF Exclusion, InCallback
      <4> QED
        BY <3>2, <4>3, <4>4
    <3> QED
      BY <1>2, <3>1, <3>2
  <2>5. TimersTaken'
    BY <1>0, <2>1, <2>2 DEF TimersTaken, IInv, Thread
  <2>6. Stages'
    <3>1. t = Main => pc[Main] \notin {"idle", "joinPeers", "joinScheduler", "joinLoadBlock", "done"}
      BY <2>1
    <3>2. t = Main => pc'[Main] \in {"callback", "called", "maybe"}
      BY <2>1
    <3>3. t # Main => pc'[Main] = pc[Main]
      BY <2>1 DEF Thread
    <3>4. t # Main => pc[t] # "exited" /\ t \in SchedulerThread
      BY <1>0, <2>1
    <3>5. \A u \in Validator : pc'[u] = pc[u]
      BY <1>0, <2>1 DEF Thread
    <3>6. \A u \in SchedulerThread : u # t => pc'[u] = pc[u]
      BY <2>1 DEF Thread
    <3>7. pc'[Main] # "done"
      BY <3>2, <3>3, <3>4 DEF IInv, Stages
    <3>8. CASE t = Main
      BY <1>0, <2>2, <3>1, <3>2, <3>5, <3>6, <3>8, ZenonT(30) DEF Stages, IInv, Validator
    <3>9. CASE t # Main
      <4>1. pc[Main] \in {"idle", "joinPeers", "joinScheduler"}
        BY <3>4, <3>9 DEF Stages, IInv
      <4> QED
        BY <2>2, <3>3, <3>5, <3>9, <4>1 DEF Stages, IInv, Validator
    <3> QED
      BY <3>8, <3>9
  <2>7. NoCallbackForgotten'
    <3>1. CASE ProcessQueue_Finishes(t)
      BY <1>0, <3>1, <2>1 DEF NoCallbackForgotten, Responsible, ProcessQueue_Finishes
    <3>2. CASE ProcessQueue_TakesCallback(t)
      BY <3>2 DEF NoCallbackForgotten, ProcessQueue_TakesCallback
    <3>3. CASE ProcessQueue_Calls(t)
      BY <3>3 DEF NoCallbackForgotten, ProcessQueue_Calls, IInv, Exclusion, InCallback
    <3> QED
      BY <1>2, <3>1, <3>2, <3>3
  <2> QED
    BY <2>3, <2>4, <2>5, <2>6, <2>7 DEF IInv
<1> QED
  BY <1>1, <1>2 DEF ProcessStep

-----------------------------------------------------------------------------
(* Tasks, and Shutdown.                                                       *)

\* A scheduler thread takes the first task, or runs that of a timer.
LEMMA TaskPreserves ==
  ASSUME IInv, TypeOK', NEW w \in SchedulerThread, serviceQueue_TakesTask(w) \/ scheduleEvery_Runs(w)
  PROVE  IInv'
<1> DEFINE place == IF pc[w] = "timer" THEN "top" ELSE IF Head(taskQueue).what = "ProcessQueue" THEN "process" ELSE "timer"
<1>1. w \in Thread /\ w # Main /\ w \notin Validator
  BY NotificationsAssumption DEF Thread
<1>2. pc[w] \in {"timedOut", "timer"} /\ Moves(w, place)
  <2>1. CASE serviceQueue_TakesTask(w)
    <3>1. place \in Place /\ pc[w] = "timedOut"
      BY <2>1 DEF serviceQueue_TakesTask, Place
    <3> QED
      BY <1>1, <2>1, <3>1, MoveAlone, ZenonT(30) DEF serviceQueue_TakesTask, IInv
  <2>2. CASE scheduleEvery_Runs(w)
    <3>1. "top" \in Place \ {"wait", "until"} /\ pc[w] = "timer"
      BY <2>2 DEF scheduleEvery_Runs, Place
    <3> QED
      BY <1>1, <2>2, <3>1, MoveNotifying DEF scheduleEvery_Runs, IInv
  <2> QED
    BY <2>1, <2>2
<1>3. UNCHANGED <<stopRequested, clientVars, shutdownRequested>>
  BY DEF serviceQueue_TakesTask, scheduleEvery_Runs
<1> USE DEF Moves
<1>4. /\ \A u \in Thread : pc[u] \notin {"wait", "until"} /\ u # w => pc'[u] = pc[u]
      /\ \A u \in Validator : pc'[u] = pc[u]
      /\ pc'[Main] = pc[Main]
      /\ pc'[w] \in {"top", "process", "timer"}
  BY <1>1, <1>2, NotificationsAssumption DEF Thread
<1>5. Roles'
  BY <1>1, <1>2, <1>4 DEF Roles, IInv, Thread
<1>6. Exclusion'
  <2>1. \A u \in Processor : InCallback(u)' => InCallback(u) /\ pc'[u] = pc[u]
    BY <1>1, <1>2, <1>4 DEF Processor, Thread, InCallback
  <2> QED
    BY <1>3, <2>1 DEF Exclusion, IInv, InCallback, clientVars
<1>7. TimersTaken'
  <2>1. \A u \in SchedulerThread \ {w} : task'[u] = task[u]
    BY DEF serviceQueue_TakesTask, scheduleEvery_Runs, IInv, TypeOK
  <2>2. \A u \in SchedulerThread \ {w} : pc'[u] = "timer" => pc[u] = "timer"
    BY <1>2 DEF Thread
  <2>3. pc'[w] = "timer" => task'[w] \in Timer
    <3>1. CASE serviceQueue_TakesTask(w)
      <4>1. taskQueue \in Seq([what : Timer \cup {"ProcessQueue"}, left : 0..Interval]) /\ taskQueue # <<>>
        BY <3>1 DEF serviceQueue_TakesTask, IInv, TypeOK
      <4>2. Head(taskQueue).what \in Timer \cup {"ProcessQueue"}
        <5> DEFINE Task == [what : Timer \cup {"ProcessQueue"}, left : 0..Interval]
        <5> HIDE DEF Task
        <5>1. taskQueue \in Seq(Task)
          BY <4>1 DEF Task
        <5>2. Head(taskQueue) \in Task
          BY <4>1, <5>1
        <5> QED
          BY <5>2 DEF Task
      <4>3. task'[w] = Head(taskQueue).what /\ pc'[w] = place /\ pc[w] # "timer"
        BY <1>2, <3>1 DEF serviceQueue_TakesTask, IInv, TypeOK
      <4> QED
        BY <4>2, <4>3
    <3>2. CASE scheduleEvery_Runs(w)
      BY <1>2, <3>2 DEF scheduleEvery_Runs
    <3> QED
      BY <3>1, <3>2
  <2> QED
    BY <2>1, <2>2, <2>3 DEF TimersTaken, IInv
<1>8. Stages'
  BY <1>2, <1>3, <1>4, ZenonT(30) DEF Stages, IInv, Validator, clientVars
<1>9. NoCallbackForgotten'
  <2>1. \A u \in Thread : Responsible(u) => Responsible(u)'
    BY <1>1, <1>2, <1>4 DEF Responsible
  <2>2. \A k \in DOMAIN taskQueue : taskQueue[k].what = "ProcessQueue" =>
          pc'[w] = "process" \/ \E i \in DOMAIN taskQueue' : taskQueue'[i].what = "ProcessQueue"
    <3>1. CASE serviceQueue_TakesTask(w)
      <4> SUFFICES ASSUME NEW k \in DOMAIN taskQueue, taskQueue[k].what = "ProcessQueue"
                   PROVE  pc'[w] = "process" \/ \E i \in DOMAIN taskQueue' : taskQueue'[i].what = "ProcessQueue"
        OBVIOUS
      <4> DEFINE Task == [what : Timer \cup {"ProcessQueue"}, left : 0..Interval]
      <4>1. taskQueue \in Seq(Task) /\ taskQueue # <<>> /\ taskQueue' = Tail(taskQueue) /\ pc[w] # "timer"
        BY <3>1 DEF serviceQueue_TakesTask, IInv, TypeOK
      <4> HIDE DEF Task
      <4>2. k \in 1..Len(taskQueue) /\ Len(taskQueue) \in Nat /\ Head(taskQueue) = taskQueue[1]
        BY <4>1
      <4>3. CASE k = 1
        BY <1>2, <4>1, <4>2, <4>3
      <4>4. CASE k > 1
        <5>1. k - 1 \in 1..Len(taskQueue') /\ taskQueue'[k - 1] = taskQueue[k] /\ DOMAIN taskQueue' = 1..Len(taskQueue')
          BY <4>1, <4>2, <4>4
        <5> QED
          BY <5>1
      <4> QED
        BY <4>2, <4>3, <4>4
    <3>2. CASE scheduleEvery_Runs(w)
      <4>1. task[w] \in Timer \cup {"ProcessQueue"} /\ schedule(task[w], Interval) /\ Interval \in 0..Interval
        BY <3>2, NotificationsAssumption DEF scheduleEvery_Runs, IInv, TimersTaken
      <4>2. \A k \in DOMAIN taskQueue : \E i \in DOMAIN taskQueue' : taskQueue'[i] = taskQueue[k]
        BY <4>1, ScheduleAdds DEF IInv
      <4> QED
        BY <4>2
    <3> QED
      BY <3>1, <3>2
  <2> QED
    BY <1>1, <1>3, <2>1, <2>2 DEF NoCallbackForgotten, IInv, clientVars, Responsible
<1> QED
  BY <1>5, <1>6, <1>7, <1>8, <1>9 DEF IInv

\* Time passes: nothing but the time left until each task changes.
LEMMA TickPreserves ==
  ASSUME IInv, TypeOK', Tick
  PROVE  IInv'
<1>1. UNCHANGED <<pc, task, clientVars, stopRequested, shutdownRequested>>
  BY DEF Tick
<1>2. DOMAIN taskQueue' = DOMAIN taskQueue /\ \A i \in DOMAIN taskQueue : taskQueue'[i].what = taskQueue[i].what
  <2> DEFINE Task == [what : Timer \cup {"ProcessQueue"}, left : 0..Interval]
  <2> HIDE DEF Task
  <2>1. taskQueue \in Seq(Task)
    BY DEF IInv, TypeOK, Task
  <2>2. taskQueue' = [i \in DOMAIN taskQueue |-> [taskQueue[i] EXCEPT !.left = Sooner(@)]]
    BY DEF Tick
  <2>3. \A i \in DOMAIN taskQueue : taskQueue[i] \in Task
    BY <2>1
  <2> QED
    BY <2>2, <2>3 DEF Task
<1>3. Roles' /\ Exclusion' /\ TimersTaken' /\ Stages'
  BY <1>1 DEF IInv, Roles, Exclusion, InCallback, TimersTaken, Stages, clientVars
<1>4. NoCallbackForgotten'
  BY <1>1, <1>2 DEF IInv, NoCallbackForgotten, Responsible, clientVars
<1> QED
  BY <1>3, <1>4 DEF IInv

\* Shutdown moves on; scheduler threads may be woken.
LEMMA MainMoves ==
  ASSUME IInv, TypeOK', NEW place \in {"joinPeers", "joinScheduler", "joinLoadBlock", "process", "done"},
         pc[Main] \notin {"maybe", "schedule", "process", "callback", "called"},
         Moves(Main, place), UNCHANGED <<taskQueue, task, clientVars>>, Stages', NoCallbackForgotten'
  PROVE  IInv'
<1> USE DEF Moves
<1>1. Main \in Thread /\ Main \notin SchedulerThread /\ Main \notin Validator
  BY NotificationsAssumption DEF Thread
<1>2. Roles'
  BY <1>1 DEF Roles, IInv, Thread
<1>3. \A u \in Processor : InCallback(u)' => InCallback(u) /\ pc'[u] = pc[u]
  BY <1>1 DEF Processor, Thread, InCallback
<1>4. Exclusion'
  BY <1>3 DEF Exclusion, IInv, InCallback, clientVars
<1>5. TimersTaken'
  BY <1>1 DEF TimersTaken, IInv, Thread
<1> QED
  BY <1>2, <1>4, <1>5 DEF IInv

LEMMA ShutdownPreserves ==
  ASSUME IInv, TypeOK', StartShutdown \/ ShutdownStep
  PROVE  IInv'
<1>0. Main \in Thread /\ Main \notin SchedulerThread /\ Main \notin Validator
  BY NotificationsAssumption DEF Thread
<1>1. CASE StartShutdown
  <2>1. Moves(Main, "joinPeers")
    BY <1>0, <1>1, MoveAlone, ZenonT(30) DEF StartShutdown, IInv, Place
  <2>2. pc[Main] = "idle" /\ pc'[Main] = "joinPeers" /\ shutdownRequested'
        /\ UNCHANGED <<taskQueue, task, clientVars, stopRequested>>
    BY <1>1, <2>1, ZenonT(30) DEF StartShutdown, schedulerVars, Moves
  <2>3. Stages'
    BY <2>2, ZenonT(30) DEF Stages, IInv
  <2>4. NoCallbackForgotten'
    <3>1. \A u \in Thread : Responsible(u) => Responsible(u)'
      BY <2>1, <2>2, ZenonT(30) DEF Responsible, Moves
    <3> QED
      BY <2>2, <3>1 DEF NoCallbackForgotten, IInv, clientVars
  <2> QED
    BY <2>1, <2>2, <2>3, <2>4, MainMoves, ZenonT(30)
<1>2. CASE Shutdown_StopsScheduler
  <2>1. Moves(Main, "joinScheduler")
    <3> DEFINE p == [pc EXCEPT ![Main] = "joinScheduler"]
    <3>1. p \in [Thread -> Place] /\ p[Main] = "joinScheduler" /\ \A u \in Thread \ {Main} : p[u] = pc[u]
      BY <1>0 DEF IInv, TypeOK, Place
    <3>2. pc' = [w \in Thread |-> IF w \in Waiting(p) THEN Wake(p, w)[w] ELSE p[w]]
      BY <1>2 DEF Shutdown_StopsScheduler, NotifyAll
    <3> HIDE DEF p
    <3>3. \A w \in Waiting(p) : /\ w \in Thread \ {Main} /\ w \in SchedulerThread /\ p[w] \in {"wait", "until"}
                                /\ Wake(p, w)[w] \in {"wokeWait", "wokeUntil", "timedOut"}
      BY <1>0, <3>1 DEF Waiting, Wake, Thread
    <3>4. {"wokeWait", "wokeUntil", "timedOut"} \subseteq Place
      BY DEF Place
    <3> QED
      BY <1>0, <3>1, <3>2, <3>3, <3>4 DEF Moves
  <2>2. /\ pc[Main] = "joinPeers" /\ pc'[Main] = "joinScheduler" /\ stopRequested'
        /\ \A u \in ServerThread : pc[u] = "idle"
        /\ UNCHANGED <<taskQueue, task, clientVars, shutdownRequested>>
    BY <1>2, <2>1 DEF Shutdown_StopsScheduler, Moves
  <2>3. \A u \in ServerThread : pc'[u] = "idle"
    BY <1>0, <2>1, <2>2, ZenonT(30) DEF Moves, Thread, Validator
  <2>4. Stages'
    BY <2>2, <2>3 DEF Stages, IInv
  <2>5. NoCallbackForgotten'
    BY <1>0, <2>2 DEF NoCallbackForgotten, Responsible
  <2> QED
    BY <2>1, <2>2, <2>4, <2>5, MainMoves, ZenonT(30)
<1>3. CASE Shutdown_JoinsScheduler
  <2>1. Moves(Main, "joinLoadBlock")
    BY <1>0, <1>3, MoveAlone, ZenonT(30) DEF Shutdown_JoinsScheduler, IInv, Place
  <2>2. /\ pc[Main] = "joinScheduler" /\ pc'[Main] = "joinLoadBlock"
        /\ \A w \in SchedulerThread : pc[w] = "exited"
        /\ UNCHANGED <<taskQueue, task, clientVars, stopRequested, shutdownRequested>>
    BY <1>3, <2>1 DEF Shutdown_JoinsScheduler, schedulerVars, Moves
  <2>3. \A u \in Thread \ {Main} : pc[u] \in {"exited", "idle"} => pc'[u] = pc[u]
    BY <2>1, ZenonT(30) DEF Moves
  <2>4. Stages'
    BY <1>0, <2>2, <2>3 DEF Stages, IInv, Thread, Validator
  <2>5. NoCallbackForgotten'
    BY <1>0, <2>2 DEF NoCallbackForgotten, Responsible
  <2> QED
    BY <2>1, <2>2, <2>4, <2>5, MainMoves, ZenonT(30)
<1>4. CASE Shutdown_FlushesState
  BY <1>0, <1>4, PushPreserves DEF Shutdown_FlushesState
<1>5. CASE EmptyQueue
  <2> DEFINE place == IF m_callbacks_pending = <<>> THEN "done" ELSE "process"
  <2>1. Moves(Main, place)
    BY <1>0, <1>5, MoveAlone, ZenonT(30) DEF EmptyQueue, IInv, Place
  <2>2. /\ pc[Main] = "empty" /\ pc'[Main] = place
        /\ UNCHANGED <<taskQueue, task, clientVars, stopRequested, shutdownRequested>>
    BY <1>5, <2>1 DEF EmptyQueue, schedulerVars, Moves
  <2>3. \A u \in Thread \ {Main} : pc[u] \in {"exited", "idle"} => pc'[u] = pc[u]
    BY <2>1 DEF Moves
  <2>4. Stages'
    BY <1>0, <2>2, <2>3, ZenonT(30) DEF Stages, IInv, Thread, Validator, clientVars
  <2>5. NoCallbackForgotten'
    BY <1>0, <2>2 DEF NoCallbackForgotten, Responsible, clientVars
  <2> QED
    BY <2>1, <2>2, <2>4, <2>5, MainMoves, ZenonT(30)
<1> QED
  BY <1>1, <1>2, <1>3, <1>4, <1>5 DEF ShutdownStep

-----------------------------------------------------------------------------
(* Types.                                                                     *)

\* Adding a callback keeps the types, whoever adds it.
LEMMA PushTypes ==
  ASSUME TypeOK, NEW t \in Thread, NEW kind \in {"signal", "sync"}, Push(t, kind)
  PROVE  /\ m_callbacks_pending' \in Seq(Callback)
         /\ m_are_callbacks_running' \in BOOLEAN
         /\ callback' \in [SchedulerThread \cup {Main} -> Callback \cup {None}]
         /\ pc' \in [Thread -> Place]
<1>1. [by |-> t, kind |-> kind] \in Callback
  BY DEF Callback
<1> QED
  BY <1>1 DEF Push, TypeOK, Place

\* Every place a step sends a thread to is a place.
LEMMA PlaceTypes ==
  ASSUME IInv, Next
  PROVE  pc' \in [Thread -> Place]
<1>a. TypeOK
  BY DEF IInv
<1>b. ASSUME NEW t \in Thread, NEW place \in Place, pc' = [pc EXCEPT ![t] = place]
      PROVE  pc' \in [Thread -> Place]
  BY <1>a, <1>b DEF TypeOK
<1>c. /\ "entropy" \in Place /\ "exited" \in Place /\ "wait" \in Place /\ "until" \in Place /\ "callback" \in Place
      /\ "called" \in Place /\ "maybe" \in Place /\ "schedule" \in Place /\ "connect" \in Place /\ "idle" \in Place
      /\ "limit" \in Place /\ "sync" \in Place /\ "stepped" \in Place /\ "joinPeers" \in Place
      /\ "joinLoadBlock" \in Place /\ "done" \in Place /\ "process" \in Place
  BY ZenonT(30) DEF Place
<1>1. ASSUME NEW w \in SchedulerThread, ServiceStep(w) \/ SpuriousWakeup(w)
      PROVE  pc' \in [Thread -> Place]
  <2>1. w \in Thread
    BY DEF Thread
  <2>2. CASE serviceQueue_Exits(w) \/ scheduleEvery_Runs(w)
    BY <1>a, <2>1, <2>2, MoveNotifying, ZenonT(30) DEF serviceQueue_Exits, scheduleEvery_Runs, Moves, Place
  <2>3. CASE SpuriousWakeup(w)
    BY <1>a, <2>3, MoveSpurious, ZenonT(30) DEF Moves
  <2>4. CASE serviceQueue_FindsNothing(w) \/ serviceQueue_WaitsUntil(w)
    <3>1. \E place \in {"wait", "entropy", "until"} : pc' = [pc EXCEPT ![w] = place]
      BY <2>4, ZenonT(30) DEF serviceQueue_FindsNothing, serviceQueue_WaitsUntil
    <3> QED
      BY <1>b, <1>c, <2>1, <3>1, ZenonT(30)
  <2>5. CASE serviceQueue_TimesOut(w)
    BY <1>a, <2>1, <2>5 DEF TypeOK, Place, serviceQueue_TimesOut
  <2>6. CASE serviceQueue_TakesTask(w)
    BY <1>a, <2>1, <2>6 DEF TypeOK, Place, serviceQueue_TakesTask
  <2> QED
    BY <1>1, <2>2, <2>3, <2>4, <2>5, <2>6, ZenonT(30) DEF ServiceStep
<1>2. ASSUME NEW t \in Processor, ProcessStep(t) \/ ProcessQueue_Calls(t)
      PROVE  pc' \in [Thread -> Place]
  <2>1. t \in Thread /\ t \in SchedulerThread \cup {Main}
    BY DEF Processor, Thread
  <2>2. ReturnTo(t) \in Place
    BY <2>1, ReturnPlaces, ZenonT(30) DEF Place
  <2>3. \E place \in {ReturnTo(t), "callback", "called", "maybe"} : pc' = [pc EXCEPT ![t] = place]
    BY <1>2, ZenonT(30) DEF ProcessStep, ProcessQueue_Returns, ProcessQueue_TakesCallback, ProcessQueue_Calls, ProcessQueue_Finishes
  <2> QED
    BY <1>b, <1>c, <2>1, <2>2, <2>3, ZenonT(30)
<1>3. ASSUME NEW t \in Thread, ScheduleStep(t)
      PROVE  pc' \in [Thread -> Place]
  <2>1. ReturnTo(t) \in Place \ {"wait", "until"}
    BY ReturnPlaces, ZenonT(30) DEF Place, Thread
  <2>2. CASE MaybeScheduleProcessQueue(t)
    <3>1. \E place \in {ReturnTo(t), "schedule"} : pc' = [pc EXCEPT ![t] = place]
      BY <2>2, ZenonT(30) DEF MaybeScheduleProcessQueue
    <3> QED
      BY <1>b, <1>c, <2>1, <3>1, ZenonT(30)
  <2>3. CASE MaybeScheduleProcessQueue_Schedules(t)
    BY <1>a, <2>1, <2>3, MoveNotifying, ZenonT(30) DEF MaybeScheduleProcessQueue_Schedules, Moves
  <2> QED
    BY <1>3, <2>2, <2>3, ZenonT(30) DEF ScheduleStep
<1>4. ASSUME NEW t \in Validator,
             SyncWithValidationInterfaceQueue(t) \/ SyncWithValidationInterfaceQueue_Returns(t) \/ ValidatorStep(t)
               \/ ActivateBestChain_Connects(t) \/ ValidatorChoice(t)
      PROVE  pc' \in [Thread -> Place]
  <2>1. t \in Thread
    BY DEF Thread
  <2>2. \E place \in {"maybe", "connect", "idle", "limit", "sync", "stepped"} : pc' = [pc EXCEPT ![t] = place]
    BY <1>4, ZenonT(30) DEF Push, SyncWithValidationInterfaceQueue, SyncWithValidationInterfaceQueue_Returns,
              ValidatorStep, ActivateBestChain_Limits, ReleaseMain, ActivateBestChain_Returns, ActivateBestChain_Connects,
              ValidatorChoice, ActivateBestChain, ActivateBestChain_EmitsMore, ActivateBestChain_GoesOn, AcceptToMemoryPool
  <2> QED
    BY <1>b, <1>c, <2>1, <2>2, ZenonT(30)
<1>5. CASE StartShutdown \/ Shutdown_JoinsScheduler \/ Shutdown_FlushesState \/ EmptyQueue
  <2>1. Main \in Thread
    BY DEF Thread
  <2>2. \E place \in {"joinPeers", "joinLoadBlock", "maybe", "done", "process"} : pc' = [pc EXCEPT ![Main] = place]
    BY <1>5, ZenonT(30) DEF Push, StartShutdown, Shutdown_JoinsScheduler, Shutdown_FlushesState, EmptyQueue
  <2> QED
    BY <1>b, <1>c, <2>1, <2>2, ZenonT(30)
<1>6. CASE Shutdown_StopsScheduler
  <2>1. \A w \in SchedulerThread, p \in [Thread -> Place] : Wake(p, w)[w] \in Place
    BY DEF Wake, Place, Thread
  <2>2. [pc EXCEPT ![Main] = "joinScheduler"] \in [Thread -> Place]
    BY <1>a, ZenonT(30) DEF TypeOK, Place
  <2> QED
    BY <1>6, <2>1, <2>2, ZenonT(30) DEF Shutdown_StopsScheduler, NotifyAll, Waiting
<1>7. CASE Tick
  BY <1>a, <1>7, ZenonT(30) DEF Tick, TypeOK
<1> QED
  BY <1>1, <1>2, <1>3, <1>4, <1>5, <1>6, <1>7, ZenonT(30) DEF Next, Processor, ShutdownStep

\* The queue of tasks and what belongs to it keep their types.
LEMMA TaskTypes ==
  ASSUME IInv, Next
  PROVE  /\ taskQueue' \in Seq([what : Timer \cup {"ProcessQueue"}, left : 0..Interval])
         /\ stopRequested' \in BOOLEAN
         /\ deadline' \in [SchedulerThread -> 0..Interval]
         /\ task' \in [SchedulerThread -> Timer \cup {"ProcessQueue", None}]
<1> DEFINE Task == [what : Timer \cup {"ProcessQueue"}, left : 0..Interval]
<1>0. /\ taskQueue \in Seq(Task) /\ stopRequested \in BOOLEAN
      /\ deadline \in [SchedulerThread -> 0..Interval]
      /\ task \in [SchedulerThread -> Timer \cup {"ProcessQueue", None}]
  BY DEF IInv, TypeOK
<1> HIDE DEF Task
<1>1. CASE UNCHANGED schedulerVars
  BY <1>0, <1>1 DEF schedulerVars, Task
<1>2. CASE \E w \in SchedulerThread : serviceQueue_WaitsUntil(w)
  <2>1. PICK w \in SchedulerThread : serviceQueue_WaitsUntil(w)
    BY <1>2
  <2>2. Head(taskQueue) \in Task
    BY <1>0, <2>1 DEF serviceQueue_WaitsUntil
  <2>3. Head(taskQueue).left \in 0..Interval
    BY <2>2 DEF Task
  <2> QED
    BY <1>0, <2>1, <2>3 DEF serviceQueue_WaitsUntil, Task
<1>3. CASE \E w \in SchedulerThread : serviceQueue_TakesTask(w)
  <2>1. PICK w \in SchedulerThread : serviceQueue_TakesTask(w)
    BY <1>3
  <2>2. Head(taskQueue) \in Task /\ taskQueue' \in Seq(Task)
    BY <1>0, <2>1 DEF serviceQueue_TakesTask
  <2>3. Head(taskQueue).what \in Timer \cup {"ProcessQueue"}
    BY <2>2 DEF Task
  <2> QED
    BY <1>0, <2>1, <2>2, <2>3 DEF serviceQueue_TakesTask, Task
<1>4. CASE \E w \in SchedulerThread : scheduleEvery_Runs(w)
  <2>1. PICK w \in SchedulerThread : scheduleEvery_Runs(w)
    BY <1>4
  <2>2. task[w] \in Timer \cup {"ProcessQueue"} /\ schedule(task[w], Interval) /\ Interval \in 0..Interval
    BY <2>1, NotificationsAssumption DEF scheduleEvery_Runs, IInv, TimersTaken
  <2>3. taskQueue' \in Seq(Task)
    BY <2>2, ScheduleAdds, ZenonT(30) DEF IInv, Task
  <2> QED
    BY <1>0, <2>1, <2>3, ZenonT(30) DEF scheduleEvery_Runs, Task
<1>5. CASE \E t \in Thread : MaybeScheduleProcessQueue_Schedules(t)
  <2>1. schedule("ProcessQueue", 0) /\ 0 \in 0..Interval /\ UNCHANGED <<stopRequested, deadline, task>>
    BY <1>5, NotificationsAssumption DEF MaybeScheduleProcessQueue_Schedules
  <2>2. taskQueue' \in Seq(Task)
    BY <2>1, ScheduleAdds, ZenonT(30) DEF IInv, Task
  <2> QED
    BY <1>0, <2>1, <2>2 DEF Task
<1>6. CASE Shutdown_StopsScheduler
  BY <1>0, <1>6 DEF Shutdown_StopsScheduler, Task
<1>7. CASE Tick
  <2>1. \A n \in 0..Interval : Sooner(n) \in 0..Interval
    BY NotificationsAssumption DEF Sooner
  <2>2. \A i \in DOMAIN taskQueue : taskQueue[i] \in Task
    BY <1>0
  <2>3. \A i \in DOMAIN taskQueue : [taskQueue[i] EXCEPT !.left = Sooner(@)] \in Task
    BY <2>1, <2>2 DEF Task
  <2>4. taskQueue' = [i \in 1..Len(taskQueue) |-> [taskQueue[i] EXCEPT !.left = Sooner(@)]] /\ Len(taskQueue) \in Nat
        /\ DOMAIN taskQueue = 1..Len(taskQueue)
    BY <1>0, <1>7 DEF Tick
  <2>5. taskQueue' \in [1..Len(taskQueue) -> Task]
    BY <2>3, <2>4
  <2>6. taskQueue' \in Seq(Task)
    BY <2>4, <2>5
  <2>7. deadline' \in [SchedulerThread -> 0..Interval] /\ stopRequested' = stopRequested /\ task' = task
    BY <1>0, <1>7, <2>1, ZenonT(30) DEF Tick
  <2> QED
    BY <1>0, <2>6, <2>7 DEF Task
<1>8. \/ UNCHANGED schedulerVars
      \/ \E w \in SchedulerThread : serviceQueue_WaitsUntil(w) \/ serviceQueue_TakesTask(w) \/ scheduleEvery_Runs(w)
      \/ \E t \in Thread : MaybeScheduleProcessQueue_Schedules(t)
      \/ Shutdown_StopsScheduler \/ Tick
  BY ZenonT(30) DEF Next, ServiceStep, SpuriousWakeup, serviceQueue_Exits, serviceQueue_FindsNothing, serviceQueue_TimesOut,
         ProcessStep, ProcessQueue_Returns, ProcessQueue_TakesCallback, ProcessQueue_Calls, ProcessQueue_Finishes,
         ScheduleStep, MaybeScheduleProcessQueue, SyncWithValidationInterfaceQueue,
         SyncWithValidationInterfaceQueue_Returns, ValidatorStep, ActivateBestChain_Limits, ReleaseMain,
         ActivateBestChain_Returns, ActivateBestChain_Connects, ValidatorChoice, ActivateBestChain,
         ActivateBestChain_EmitsMore, ActivateBestChain_GoesOn, AcceptToMemoryPool, StartShutdown, ShutdownStep,
         Shutdown_JoinsScheduler, Shutdown_FlushesState, EmptyQueue
<1> QED
  BY <1>1, <1>2, <1>3, <1>4, <1>5, <1>6, <1>7, <1>8

ClientTyped ==
  /\ m_callbacks_pending \in Seq(Callback)
  /\ m_are_callbacks_running \in BOOLEAN
  /\ callback \in [SchedulerThread \cup {Main} -> Callback \cup {None}]
  /\ promise \in [Validator -> {"none", "unset", "set"}]
  /\ cs_main \in Validator \cup {None}
  /\ m_cs_chainstate \in Validator \cup {None}
  /\ shutdownRequested \in BOOLEAN

\* The callbacks, the promises and the locks keep their types.
LEMMA ClientTypes ==
  ASSUME IInv, Next
  PROVE  ClientTyped'
<1>0. TypeOK
  BY DEF IInv
<1>1. CASE UNCHANGED <<clientVars, promise, lockVars, shutdownRequested>>
  BY <1>0, <1>1 DEF ClientTyped, TypeOK, clientVars, lockVars
<1>2. ASSUME NEW t \in Processor, ProcessStep(t) \/ ProcessQueue_Calls(t)
      PROVE  ClientTyped'
  <2>1. CASE ProcessQueue_TakesCallback(t)
    <3>1. m_callbacks_pending \in Seq(Callback) /\ m_callbacks_pending # <<>>
      BY <1>0, <2>1 DEF ClientTyped, TypeOK, ProcessQueue_TakesCallback, NothingToProcess
    <3>2. Head(m_callbacks_pending) \in Callback /\ Tail(m_callbacks_pending) \in Seq(Callback)
      BY <3>1
    <3> QED
      BY <1>0, <2>1, <3>2, ZenonT(30) DEF ClientTyped, TypeOK, ProcessQueue_TakesCallback, lockVars
  <2>2. CASE ProcessQueue_Calls(t)
    BY <1>0, <2>2, ZenonT(30) DEF ClientTyped, TypeOK, ProcessQueue_Calls
  <2>3. CASE ProcessQueue_Finishes(t) \/ ProcessQueue_Returns(t)
    BY <1>0, <2>3, ZenonT(30) DEF ClientTyped, TypeOK, ProcessQueue_Finishes, ProcessQueue_Returns, lockVars, clientVars
  <2> QED
    BY <1>2, <2>1, <2>2, <2>3 DEF ProcessStep
<1>3. ASSUME NEW t \in Validator, SyncWithValidationInterfaceQueue(t) \/ SyncWithValidationInterfaceQueue_Returns(t)
      PROVE  ClientTyped'
  <2>1. CASE SyncWithValidationInterfaceQueue(t)
    BY <1>0, <2>1, PushTypes DEF ClientTyped, TypeOK, SyncWithValidationInterfaceQueue, lockVars, Thread
  <2>2. CASE SyncWithValidationInterfaceQueue_Returns(t)
    BY <1>0, <2>2 DEF ClientTyped, TypeOK, SyncWithValidationInterfaceQueue_Returns, lockVars, clientVars
  <2> QED
    BY <1>3, <2>1, <2>2
<1>4. ASSUME NEW t \in Validator, ValidatorStep(t) \/ ActivateBestChain_Connects(t) \/ ValidatorChoice(t)
      PROVE  ClientTyped'
  <2>1. CASE ActivateBestChain_Connects(t) \/ AcceptToMemoryPool(t) \/ ActivateBestChain_EmitsMore(t)
    BY <1>0, <2>1, PushTypes DEF ClientTyped, TypeOK, ActivateBestChain_Connects, AcceptToMemoryPool, ActivateBestChain_EmitsMore,
                                 lockVars, Thread
  <2>2. CASE ActivateBestChain(t) \/ ActivateBestChain_GoesOn(t) \/ ValidatorStep(t)
    BY <1>0, <2>2 DEF ClientTyped, TypeOK, ActivateBestChain, ActivateBestChain_GoesOn, ValidatorStep, ActivateBestChain_Limits,
                      ReleaseMain, ActivateBestChain_Returns, lockVars, clientVars
  <2> QED
    BY <1>4, <2>1, <2>2, ZenonT(30) DEF ValidatorChoice
<1>5. CASE StartShutdown \/ Shutdown_FlushesState
  BY <1>0, <1>5, PushTypes, ZenonT(30) DEF ClientTyped, TypeOK, StartShutdown, Shutdown_FlushesState, lockVars, clientVars, Thread
<1>6. \/ UNCHANGED <<clientVars, promise, lockVars, shutdownRequested>>
      \/ \E t \in Processor : ProcessStep(t) \/ ProcessQueue_Calls(t)
      \/ \E t \in Validator : SyncWithValidationInterfaceQueue(t) \/ SyncWithValidationInterfaceQueue_Returns(t)
      \/ \E t \in Validator : ValidatorStep(t) \/ ActivateBestChain_Connects(t) \/ ValidatorChoice(t)
      \/ StartShutdown \/ Shutdown_FlushesState
  BY ZenonT(30) DEF Next, Processor, ServiceStep, SpuriousWakeup, serviceQueue_Exits, serviceQueue_FindsNothing,
         serviceQueue_WaitsUntil, serviceQueue_TimesOut, serviceQueue_TakesTask, scheduleEvery_Runs, ScheduleStep,
         MaybeScheduleProcessQueue, MaybeScheduleProcessQueue_Schedules, ShutdownStep, Shutdown_StopsScheduler,
         Shutdown_JoinsScheduler, EmptyQueue, Tick
<1> QED
  BY <1>1, <1>2, <1>3, <1>4, <1>5, <1>6

-----------------------------------------------------------------------------
(* The theorems.                                                              *)

\* A step of a validator thread preserves the invariant.
LEMMA ValidatorPreserves ==
  ASSUME IInv, TypeOK', NEW t \in Validator,
         SyncWithValidationInterfaceQueue(t) \/ SyncWithValidationInterfaceQueue_Returns(t) \/ ValidatorStep(t)
           \/ ActivateBestChain_Connects(t) \/ ValidatorChoice(t)
  PROVE  IInv'
<1>0. t \in Thread /\ t # Main
  BY NotificationsAssumption, ZenonT(30) DEF Thread
<1>1. CASE SyncWithValidationInterfaceQueue(t) \/ ActivateBestChain_Connects(t) \/ AcceptToMemoryPool(t)
             \/ ActivateBestChain_EmitsMore(t)
  BY <1>0, <1>1, PushPreserves DEF SyncWithValidationInterfaceQueue, ActivateBestChain_Connects, AcceptToMemoryPool,
                                   ActivateBestChain_EmitsMore, lockVars
<1>2. CASE SyncWithValidationInterfaceQueue_Returns(t) \/ ValidatorStep(t) \/ ActivateBestChain(t)
             \/ ActivateBestChain_GoesOn(t)
  <2>1. PICK place \in {"idle", "limit", "sync", "connect", "stepped"} : pc' = [pc EXCEPT ![t] = place]
    BY <1>2, ZenonT(30) DEF SyncWithValidationInterfaceQueue_Returns, ValidatorStep, ActivateBestChain_Limits, ReleaseMain,
                ActivateBestChain_Returns, ActivateBestChain, ActivateBestChain_GoesOn
  <2>2. Moves(t, place)
    BY <1>0, <2>1, MoveAlone, ZenonT(30) DEF IInv, Place
  <2>3. /\ pc[t] \notin {"maybe", "schedule"} /\ (pc[t] = "idle" => ~shutdownRequested)
        /\ UNCHANGED <<schedulerVars, clientVars, shutdownRequested>>
    BY <1>2 DEF SyncWithValidationInterfaceQueue_Returns, ValidatorStep, ActivateBestChain_Limits, ReleaseMain,
                ActivateBestChain_Returns, ActivateBestChain, ActivateBestChain_GoesOn
  <2> QED
    BY <2>2, <2>3, ValidatorGoesOn
<1> QED
  BY <1>1, <1>2 DEF ValidatorChoice

\* A step of a scheduler thread preserves the invariant.
LEMMA ServicePreserves ==
  ASSUME IInv, TypeOK', NEW w \in SchedulerThread, ServiceStep(w) \/ SpuriousWakeup(w)
  PROVE  IInv'
<1>0. w \in Thread
  BY DEF Thread
<1> DEFINE From == {"top", "entropy", "wait", "wokeWait", "until", "wokeUntil", "timedOut"}
           To == {"entropy", "wait", "wokeWait", "until", "wokeUntil", "timedOut", "exited"}
<1>1. CASE serviceQueue_TakesTask(w) \/ scheduleEvery_Runs(w)
  BY <1>1, TaskPreserves
<1>2. CASE serviceQueue_Exits(w)
  <2>1. Moves(w, "exited")
    BY <1>0, <1>2, MoveNotifying DEF serviceQueue_Exits, IInv, Place
  <2> QED
    BY <1>2, <2>1, WorkerIdles DEF serviceQueue_Exits, AtQueue, schedulerVars
<1>3. CASE serviceQueue_FindsNothing(w) \/ serviceQueue_WaitsUntil(w) \/ serviceQueue_TimesOut(w)
  <2>1. PICK place \in To : pc' = [pc EXCEPT ![w] = place]
    BY <1>3, ZenonT(30) DEF serviceQueue_FindsNothing, serviceQueue_WaitsUntil, serviceQueue_TimesOut
  <2>2. Moves(w, place)
    BY <1>0, <2>1, MoveAlone, ZenonT(30) DEF IInv, Place
  <2>3. pc[w] \in From /\ UNCHANGED <<taskQueue, stopRequested, task, clientVars, shutdownRequested>>
    BY <1>3 DEF serviceQueue_FindsNothing, serviceQueue_WaitsUntil, serviceQueue_TimesOut, AtQueue, schedulerVars
  <2> QED
    BY <2>2, <2>3, WorkerIdles
<1>4. CASE SpuriousWakeup(w)
  <2>1. PICK place \in {"wokeWait", "timedOut", "wokeUntil"} : Moves(w, place)
    BY <1>4, MoveSpurious DEF IInv
  <2>2. pc[w] \in From /\ UNCHANGED <<taskQueue, stopRequested, task, clientVars, shutdownRequested>>
    BY <1>4 DEF SpuriousWakeup, Waiting, schedulerVars
  <2> QED
    BY <2>1, <2>2, WorkerIdles
<1> QED
  BY <1>1, <1>2, <1>3, <1>4 DEF ServiceStep

LOCAL FS == INSTANCE FiniteSetTheorems

\* Nothing is queued or running at the start.
LEMMA InitEstablishes ==
  ASSUME Init PROVE IInv
<1> DEFINE Task == [what : Timer \cup {"ProcessQueue"}, left : 0..Interval]
<1>1. taskQueue \in Seq(Task)
  <2>1. PICK s \in [1..Cardinality(Timer) -> Timer] : taskQueue = [i \in DOMAIN s |-> [what |-> s[i], left |-> Interval]]
    BY ZenonT(30) DEF Init
  <2>2. Cardinality(Timer) \in Nat /\ Interval \in 0..Interval
    <3>1. FS!IsFiniteSet(Timer) /\ Cardinality(Timer) = FS!Cardinality(Timer)
      BY NotificationsAssumption DEF IsFiniteSet, FS!IsFiniteSet, Cardinality, FS!Cardinality
    <3> QED
      BY <3>1, NotificationsAssumption, FS!FS_CardinalityType
  <2>3. \A i \in 1..Cardinality(Timer) : [what |-> s[i], left |-> Interval] \in Task
    BY <2>2
  <2> HIDE DEF Task
  <2>4. taskQueue \in [1..Cardinality(Timer) -> Task]
    BY <2>1, <2>3
  <2> QED
    BY <2>2, <2>4
<1>2. TypeOK
  <2>1. pc \in [Thread -> Place]
    BY DEF Init, Place
  <2>2. deadline \in [SchedulerThread -> 0..Interval]
    BY NotificationsAssumption DEF Init
  <2>3. callback \in [SchedulerThread \cup {Main} -> Callback \cup {None}] /\ m_callbacks_pending \in Seq(Callback)
    BY DEF Init
  <2>4. task \in [SchedulerThread -> Timer \cup {"ProcessQueue", None}] /\ promise \in [Validator -> {"none", "unset", "set"}]
    BY DEF Init
  <2>5. /\ cs_main \in Validator \cup {None} /\ m_cs_chainstate \in Validator \cup {None}
        /\ stopRequested \in BOOLEAN /\ m_are_callbacks_running \in BOOLEAN /\ shutdownRequested \in BOOLEAN
    BY ZenonT(30) DEF Init
  <2> QED
    BY <1>1, <2>1, <2>2, <2>3, <2>4, <2>5, ZenonT(30) DEF TypeOK
<1>3. \A t \in Thread : pc[t] = IF t \in SchedulerThread THEN "top" ELSE "idle"
  BY DEF Init
<1>4. Roles /\ Exclusion /\ TimersTaken
  BY <1>3, NotificationsAssumption, ZenonT(30) DEF Roles, Exclusion, InCallback, TimersTaken, Processor, Thread, Validator
<1>5. Stages /\ NoCallbackForgotten
  BY <1>3, NotificationsAssumption DEF Init, Stages, NoCallbackForgotten, Thread, Validator
<1> QED
  BY <1>2, <1>4, <1>5 DEF IInv

\* Every step of every thread preserves the invariant.
LEMMA NextPreserves ==
  ASSUME IInv, [Next]_vars PROVE IInv'
<1>1. CASE UNCHANGED vars
  <2>1. UNCHANGED <<taskQueue, stopRequested, deadline, task, m_callbacks_pending, m_are_callbacks_running, callback,
                    promise, cs_main, m_cs_chainstate, shutdownRequested, pc>>
    BY <1>1 DEF vars, schedulerVars, clientVars, lockVars
  <2>2. TypeOK'
    BY <2>1, ZenonT(30) DEF IInv, TypeOK
  <2>3. Roles' /\ Exclusion'
    BY <2>1, ZenonT(30) DEF IInv, Roles, Exclusion, InCallback
  <2>4. TimersTaken' /\ Stages'
    BY <2>1, ZenonT(30) DEF IInv, TimersTaken, Stages
  <2>5. NoCallbackForgotten'
    BY <2>1, ZenonT(30) DEF IInv, NoCallbackForgotten, Responsible
  <2> QED
    BY <2>2, <2>3, <2>4, <2>5, ZenonT(30) DEF IInv
<1>2. CASE Next
  <2>1. TypeOK'
    BY <1>2, PlaceTypes, TaskTypes, ClientTypes DEF TypeOK, ClientTyped
  <2>2. ASSUME NEW w \in SchedulerThread, ServiceStep(w) \/ SpuriousWakeup(w) PROVE IInv'
    BY <2>1, <2>2, ServicePreserves
  <2>3. ASSUME NEW t \in Processor, ProcessStep(t) \/ ProcessQueue_Calls(t) PROVE IInv'
    BY <2>1, <2>3, ProcessPreserves
  <2>4. ASSUME NEW t \in Thread, ScheduleStep(t) PROVE IInv'
    BY <2>1, <2>4, SchedulePreserves
  <2>5. ASSUME NEW t \in Validator,
               SyncWithValidationInterfaceQueue(t) \/ SyncWithValidationInterfaceQueue_Returns(t) \/ ValidatorStep(t)
                 \/ ActivateBestChain_Connects(t) \/ ValidatorChoice(t)
        PROVE  IInv'
    BY <2>1, <2>5, ValidatorPreserves
  <2>6. StartShutdown \/ ShutdownStep => IInv'
    BY <2>1, ShutdownPreserves
  <2>7. Tick => IInv'
    BY <2>1, TickPreserves
  <2> QED
    BY <1>2, <2>2, <2>3, <2>4, <2>5, <2>6, <2>7, ZenonT(30) DEF Next, Processor
<1> QED
  BY <1>1, <1>2, ZenonT(30)

\* The invariant holds always.
THEOREM Inductive == Spec => []IInv
<1>1. Init => IInv
  BY InitEstablishes
<1>2. IInv /\ [Next]_vars => IInv'
  BY NextPreserves
<1> QED
  BY <1>1, <1>2, PTL DEF Spec

\* A queued callback always has somebody to run it, for any number of
\* scheduler threads and through all of Shutdown.
THEOREM CallbacksNeverForgotten == Spec => []NoCallbackForgotten
<1>1. IInv => NoCallbackForgotten
  BY DEF IInv
<1> QED
  BY <1>1, Inductive, PTL

\* Each step is one of a queue that a single thread serves in order, or leaves
\* that queue as it is: what scheduler.h promises of the client.
THEOREM ServedAsBySingleThread == Spec => Serial!Spec
<1> DEFINE running == {callback[t] : t \in Executing}
<1>1. Init => Serial!Init
  <2> SUFFICES ASSUME Init PROVE m_callbacks_pending = <<>> /\ running = {}
    BY ZenonT(30) DEF Serial!Init
  <2>1. \A t \in Processor : pc[t] \in {"top", "idle"}
    BY DEF Init, Processor, Thread
  <2> QED
    BY <2>1 DEF Init, Executing, Processor
<1>2. IInv /\ IInv' /\ [Next]_vars => [Serial!Next]_<<m_callbacks_pending, running>>
  <2> SUFFICES ASSUME IInv, IInv', [Next]_vars PROVE [Serial!Next]_<<m_callbacks_pending, running>>
    OBVIOUS
  <2>1. ASSUME NEW t \in Processor, ProcessQueue_TakesCallback(t) PROVE Serial!Begin
    <3>1. Executing = {} /\ m_callbacks_pending # <<>>
      BY <2>1 DEF IInv, Exclusion, Executing, InCallback, Processor, ProcessQueue_TakesCallback, NothingToProcess
    <3>2. pc' = [pc EXCEPT ![t] = "callback"] /\ callback' = [callback EXCEPT ![t] = Head(m_callbacks_pending)]
          /\ m_callbacks_pending' = Tail(m_callbacks_pending)
      BY <2>1, ZenonT(30) DEF ProcessQueue_TakesCallback
    <3>3. Executing' = {t} /\ callback'[t] = Head(m_callbacks_pending)
      BY <3>1, <3>2 DEF Executing, IInv, TypeOK, Processor, Thread
    <3>4. running = {} /\ running' = {Head(m_callbacks_pending)}
      BY <3>1, <3>3
    <3> QED
      BY <3>1, <3>2, <3>4, ZenonT(30) DEF Serial!Begin
  <2>2. ASSUME NEW t \in Processor, ProcessQueue_Calls(t) PROVE Serial!End
    <3>1. t \in Executing /\ UNCHANGED m_callbacks_pending
      BY <2>2 DEF Executing, Processor, ProcessQueue_Calls
    <3>2. Executing' = {}
      <4>1. \A u \in Processor : u # t => pc[u] # "callback" /\ pc'[u] = pc[u]
        BY <2>2 DEF ProcessQueue_Calls, IInv, TypeOK, Exclusion, InCallback, Processor, Thread
      <4>2. pc'[t] = "called"
        BY <2>2 DEF ProcessQueue_Calls, IInv, TypeOK, Processor, Thread
      <4> QED
        BY <4>1, <4>2, ZenonT(30) DEF Executing, Processor
    <3>3. running # {} /\ running' = {}
      BY <3>1, <3>2
    <3> QED
      BY <3>1, <3>3 DEF Serial!End
  <2>3. ASSUME Executing' = Executing, \A u \in Executing : callback'[u] = callback[u]
        PROVE  running' = running
    BY <2>3
  <2>4. ASSUME NEW t \in Validator \cup {Main}, NEW kind \in {"signal", "sync"}, Push(t, kind), pc[t] # "callback"
        PROVE  Serial!Add
    <3>1. t \in Thread
      BY DEF Thread
    <3>2. Executing' = Executing /\ callback' = callback
      BY <2>4, <3>1 DEF Push, Executing, IInv, TypeOK, Thread
    <3>3. running' = running
      BY <2>3, <3>2
    <3>4. [by |-> t, kind |-> kind] \in Callback
      BY <3>1 DEF Callback
    <3> QED
      BY <2>4, <3>3, <3>4, ZenonT(30) DEF Push, Serial!Add
  <2>5. ASSUME NEW t \in Thread, NEW place, Moves(t, place), pc[t] # "callback", place # "callback",
               UNCHANGED <<m_callbacks_pending, callback>>
        PROVE  UNCHANGED <<m_callbacks_pending, running>>
    <3>1. Executing' = Executing
      BY <2>5, ZenonT(30) DEF Moves, Executing, Thread
    <3> QED
      BY <2>3, <2>5, <3>1
  <2>6. ASSUME NEW w \in SchedulerThread, ServiceStep(w) \/ SpuriousWakeup(w)
        PROVE  UNCHANGED <<m_callbacks_pending, running>>
    <3>1. w \in Thread /\ UNCHANGED <<m_callbacks_pending, callback>>
      BY <2>6, ZenonT(30) DEF Thread, clientVars, ServiceStep, SpuriousWakeup, serviceQueue_Exits, serviceQueue_FindsNothing,
                  serviceQueue_WaitsUntil, serviceQueue_TimesOut, serviceQueue_TakesTask, scheduleEvery_Runs
    <3>2. CASE serviceQueue_Exits(w) \/ scheduleEvery_Runs(w)
      <4>1. PICK place \in {"exited", "top"} : pc' \in NotifyOne([pc EXCEPT ![w] = place])
        BY <3>2 DEF serviceQueue_Exits, scheduleEvery_Runs
      <4>2. Moves(w, place)
        BY <3>1, <4>1, MoveNotifying DEF IInv, Place
      <4>3. pc[w] # "callback"
        BY <3>2 DEF serviceQueue_Exits, scheduleEvery_Runs, AtQueue
      <4> QED
        BY <2>5, <3>1, <4>2, <4>3
    <3>3. CASE SpuriousWakeup(w)
      <4>1. PICK x \in {"wokeWait", "timedOut", "wokeUntil"} : Moves(w, x)
        BY <3>3, MoveSpurious DEF IInv
      <4>2. pc[w] # "callback"
        BY <3>3 DEF SpuriousWakeup, Waiting
      <4> QED
        BY <2>5, <3>1, <4>1, <4>2, ZenonT(30)
    <3>4. CASE serviceQueue_FindsNothing(w) \/ serviceQueue_WaitsUntil(w) \/ serviceQueue_TimesOut(w) \/ serviceQueue_TakesTask(w)
      <4>1. PICK place \in {"wait", "entropy", "until", "timedOut", "process", "timer"} : pc' = [pc EXCEPT ![w] = place]
        BY <3>4 DEF serviceQueue_FindsNothing, serviceQueue_WaitsUntil, serviceQueue_TimesOut, serviceQueue_TakesTask
      <4>2. Moves(w, place)
        BY <3>1, <4>1, MoveAlone, ZenonT(30) DEF IInv, Place
      <4>3. pc[w] # "callback"
        BY <3>4 DEF serviceQueue_FindsNothing, serviceQueue_WaitsUntil, serviceQueue_TimesOut, serviceQueue_TakesTask, AtQueue
      <4> QED
        BY <2>5, <3>1, <4>2, <4>3
    <3> QED
      BY <2>6, <3>2, <3>3, <3>4, ZenonT(30) DEF ServiceStep
  <2>7. ASSUME NEW t \in Thread,
               ScheduleStep(t) \/ (t \in Processor /\ (ProcessQueue_Returns(t) \/ ProcessQueue_Finishes(t)))
        PROVE  UNCHANGED <<m_callbacks_pending, running>>
    <3>1. UNCHANGED <<m_callbacks_pending, callback>> /\ pc[t] # "callback"
      BY <2>7 DEF clientVars, ScheduleStep, MaybeScheduleProcessQueue, MaybeScheduleProcessQueue_Schedules,
                  ProcessQueue_Returns, ProcessQueue_Finishes
    <3>2. CASE MaybeScheduleProcessQueue_Schedules(t)
      <4>1. Moves(t, ReturnTo(t)) /\ ReturnTo(t) # "callback"
        BY <3>2, ReturnPlaces, MoveNotifying, ZenonT(30) DEF IInv, MaybeScheduleProcessQueue_Schedules, Thread
      <4> QED
        BY <2>5, <3>1, <4>1, ZenonT(30)
    <3>3. CASE ~MaybeScheduleProcessQueue_Schedules(t)
      <4>1. \E place \in {ReturnTo(t), "schedule", "maybe"} : pc' = [pc EXCEPT ![t] = place]
        BY <2>7, <3>3 DEF ScheduleStep, MaybeScheduleProcessQueue, ProcessQueue_Returns, ProcessQueue_Finishes
      <4>2. PICK place \in {ReturnTo(t), "schedule", "maybe"} : pc' = [pc EXCEPT ![t] = place]
        BY <4>1, ZenonT(30)
      <4>3. place \in Place /\ place # "callback"
        BY ReturnPlaces DEF Place, Thread
      <4>4. Moves(t, place)
        BY <4>2, <4>3, MoveAlone, ZenonT(30) DEF IInv
      <4> QED
        BY <2>5, <3>1, <4>3, <4>4
    <3> QED
      BY <3>2, <3>3, ZenonT(30)
  <2>8. ASSUME NEW t \in Validator, SyncWithValidationInterfaceQueue(t) \/ ActivateBestChain_Connects(t)
                                      \/ AcceptToMemoryPool(t) \/ ActivateBestChain_EmitsMore(t)
        PROVE  Serial!Add
    <3>1. pc[t] # "callback" /\ \E kind \in {"signal", "sync"} : Push(t, kind)
      BY <2>8 DEF SyncWithValidationInterfaceQueue, ActivateBestChain_Connects, AcceptToMemoryPool, ActivateBestChain_EmitsMore
    <3> QED
      BY <2>4, <3>1
  <2>9. ASSUME NEW t \in Validator, SyncWithValidationInterfaceQueue_Returns(t) \/ ValidatorStep(t)
                                      \/ ActivateBestChain(t) \/ ActivateBestChain_GoesOn(t)
        PROVE  UNCHANGED <<m_callbacks_pending, running>>
    <3>1. /\ UNCHANGED <<m_callbacks_pending, callback>> /\ pc[t] # "callback" /\ t \in Thread
          /\ \E place \in {"idle", "limit", "sync", "connect", "stepped"} : pc' = [pc EXCEPT ![t] = place]
      BY <2>9 DEF clientVars, SyncWithValidationInterfaceQueue_Returns, ValidatorStep, ActivateBestChain_Limits,
                  ReleaseMain, ActivateBestChain_Returns, ActivateBestChain, ActivateBestChain_GoesOn, Thread
    <3>2. PICK place \in {"idle", "limit", "sync", "connect", "stepped"} : pc' = [pc EXCEPT ![t] = place]
      BY <3>1, ZenonT(30)
    <3>3. Moves(t, place)
      BY <3>1, <3>2, MoveAlone, ZenonT(30) DEF IInv, Place
    <3> QED
      BY <2>5, <3>1, <3>3
  <2>10. CASE Shutdown_FlushesState
    <3>1. pc[Main] # "callback" /\ Push(Main, "signal")
      BY <2>10 DEF Shutdown_FlushesState
    <3>2. Serial!Add
      BY <2>4, <3>1
    <3> QED
      BY <3>2 DEF Serial!Next
  <2>11. CASE StartShutdown \/ Shutdown_StopsScheduler \/ Shutdown_JoinsScheduler \/ EmptyQueue
    <3>1. UNCHANGED <<m_callbacks_pending, callback>>
      BY <2>11 DEF clientVars, StartShutdown, Shutdown_StopsScheduler, Shutdown_JoinsScheduler, EmptyQueue
    <3>2. Executing' = Executing
      <4>1. CASE Shutdown_StopsScheduler
        <5>1. \A w \in Processor : pc'[w] = "callback" <=> pc[w] = "callback"
          BY <4>1, NotificationsAssumption, ZenonT(30) DEF Shutdown_StopsScheduler, NotifyAll, Waiting, Wake, IInv, TypeOK, Processor, Thread
        <5> QED
          BY <5>1, ZenonT(30) DEF Executing, Processor
      <4>2. CASE StartShutdown \/ Shutdown_JoinsScheduler \/ EmptyQueue
        <5>1. /\ pc[Main] # "callback"
              /\ \E place \in {"joinPeers", "joinLoadBlock", "done", "process"} : pc' = [pc EXCEPT ![Main] = place]
          BY <4>2 DEF StartShutdown, Shutdown_JoinsScheduler, EmptyQueue
        <5>2. pc \in [Thread -> Place] /\ Main \in Thread /\ SchedulerThread \subseteq Thread /\ Main \notin SchedulerThread
          BY NotificationsAssumption, ZenonT(30) DEF IInv, TypeOK, Thread
        <5>3. /\ \A w \in SchedulerThread : pc'[w] = pc[w]
              /\ pc'[Main] # "callback"
          BY <5>1, <5>2, ZenonT(30)
        <5> QED
          BY <5>1, <5>3, ZenonT(30) DEF Executing
      <4> QED
        BY <2>11, <4>1, <4>2
    <3> QED
      BY <2>3, <3>1, <3>2
  <2>12. CASE Tick \/ UNCHANGED vars
    <3>1. UNCHANGED <<m_callbacks_pending, callback, pc>>
      BY <2>12, ZenonT(30) DEF Tick, vars, clientVars
    <3> QED
      BY <2>3, <3>1, ZenonT(30) DEF Executing
  <2>13. CASE Next
    <3>1. ASSUME NEW t \in Processor, ProcessStep(t) \/ ProcessQueue_Calls(t)
          PROVE  Serial!Next \/ UNCHANGED <<m_callbacks_pending, running>>
      BY <2>1, <2>2, <2>7, <3>1, ZenonT(30) DEF ProcessStep, Serial!Next, Processor, Thread
    <3>2. ASSUME NEW t \in Validator, ValidatorChoice(t) \/ ValidatorStep(t) \/ ActivateBestChain_Connects(t)
                   \/ SyncWithValidationInterfaceQueue(t) \/ SyncWithValidationInterfaceQueue_Returns(t)
          PROVE  Serial!Next \/ UNCHANGED <<m_callbacks_pending, running>>
      BY <2>8, <2>9, <3>2, ZenonT(30) DEF ValidatorChoice, Serial!Next
    <3> HIDE DEF running
    <3>3. CASE \E t \in Processor : ProcessStep(t) \/ ProcessQueue_Calls(t)
      BY <3>1, <3>3
    <3>4. CASE \E t \in Validator : ValidatorChoice(t) \/ ValidatorStep(t) \/ ActivateBestChain_Connects(t)
                   \/ SyncWithValidationInterfaceQueue(t) \/ SyncWithValidationInterfaceQueue_Returns(t)
      BY <3>2, <3>4
    <3>5. CASE StartShutdown \/ ShutdownStep \/ Tick
      BY <2>10, <2>11, <2>12, <3>5 DEF ShutdownStep
    <3>6. CASE \E w \in SchedulerThread : ServiceStep(w) \/ SpuriousWakeup(w)
      BY <2>6, <3>6
    <3>7. CASE \E t \in Thread : ScheduleStep(t)
      BY <2>7, <3>7
    <3> QED
      BY <2>13, <3>3, <3>4, <3>5, <3>6, <3>7, ZenonT(30) DEF Next, Processor
  <2> QED
    BY <2>12, <2>13, ZenonT(30)
<1> QED
  BY <1>1, <1>2, Inductive, PTL DEF Spec, Serial!Spec
=============================================================================
