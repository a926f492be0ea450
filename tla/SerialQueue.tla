----------------------------- MODULE SerialQueue -----------------------------
(***************************************************************************)
(* What SingleThreadedSchedulerClient promises (scheduler.h): callbacks      *)
(* behave as if they were executed in order by a single thread.  A callback *)
(* is added at the end, taken from the front when none is running, and      *)
(* every callback is run to its end.                                        *)
(***************************************************************************)
EXTENDS Sequences

CONSTANT Callback

VARIABLES queue,   \* callbacks waiting, in the order they were added
          running  \* the callbacks being executed

Init == queue = <<>> /\ running = {}

Add == \E c \in Callback : queue' = Append(queue, c) /\ UNCHANGED running

Begin ==
  /\ running = {} /\ queue # <<>>
  /\ running' = {Head(queue)}
  /\ queue' = Tail(queue)

End == running # {} /\ running' = {} /\ UNCHANGED queue

Next == Add \/ Begin \/ End

Spec == Init /\ [][Next]_<<queue, running>>

FairSpec == Spec /\ WF_<<queue, running>>(Begin) /\ WF_<<queue, running>>(End)
=============================================================================
