------------------------------ MODULE WorkQueue ------------------------------
(***************************************************************************)
(* The Linux workqueue interface, as the two sounder drivers use it: a     *)
(* queue made by create_singlethread_workqueue has one worker, which takes *)
(* the queued items in order and runs one at a time.  An item that is      *)
(* already pending is not queued twice; an item that is running may be     *)
(* queued again.                                                           *)
(*                                                                         *)
(* The kernel is not part of the repository: this module states what the   *)
(* drivers rely on.                                                        *)
(***************************************************************************)
EXTENDS Sequences, Naturals

CONSTANTS
  Works,     \* the work_struct items of the driver
  NoWork     \* not an item: the worker runs nothing

VARIABLES
  pending,   \* the items queued and not yet started, oldest first
  running    \* the item the worker executes, or NoWork

IsPending(w) == \E i \in 1..Len(pending) : pending[i] = w

\* queue_work(wq, w): no effect on an item that is already pending.
QueueWork(w) ==
  pending' = IF IsPending(w) THEN pending ELSE Append(pending, w)

\* cancel_work_sync(w), first half: a pending w is taken off the queue.
GrabPending(w) ==
  \/ /\ ~IsPending(w)
     /\ UNCHANGED pending
  \/ \E i \in 1..Len(pending) :
       /\ pending[i] = w
       /\ pending' = SubSeq(pending, 1, i - 1)
                       \o SubSeq(pending, i + 1, Len(pending))

\* cancel_work_sync(w), second half: returns once w is not executing.
NotExecuting(w) == running # w

\* flush_workqueue(wq): returns once everything queued before it has run.
Flushed == pending = <<>> /\ running = NoWork

\* The worker takes the oldest item.
StartWork(w) ==
  /\ running = NoWork
  /\ pending # <<>>
  /\ w = Head(pending)
  /\ running' = w
  /\ pending' = Tail(pending)

\* The work function returns.
FinishWork ==
  /\ running' = NoWork
  /\ UNCHANGED pending

(***************************************************************************)
(* What a queue may look like: no item is pending twice.                   *)
(***************************************************************************)
QueueTypeOK ==
  /\ pending \in Seq(Works)
  /\ running \in Works \cup {NoWork}
  /\ \A i, j \in 1..Len(pending) : pending[i] = pending[j] => i = j

==============================================================================
