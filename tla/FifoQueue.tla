----------------------------- MODULE FifoQueue -----------------------------
(***************************************************************************)
(* What a worker's run queue promises to the scheduler: a bounded FIFO     *)
(* queue with one pusher and many takers whose operations are atomic.  The *)
(* lock-free ring of module FiberRing is shown to implement it.            *)
(***************************************************************************)
EXTENDS Naturals, Sequences

CONSTANTS
  Fibers,     \* what is queued
  Workers,    \* the threads of the group
  Owner,      \* the one worker that pushes
  Capacity,   \* MAKA_FRQ_CAP
  NULL        \* what a take returns when it finds nothing

VARIABLES
  queue,      \* the fibers that are queued, oldest first
  ret         \* what each worker's last operation returned

vars == <<queue, ret>>

Init ==
  /\ queue = <<>>
  /\ ret = [w \in Workers |-> NULL]

Return(w, r) == ret' = [ret EXCEPT ![w] = r]

Push(f) ==
  /\ Len(queue) < Capacity
  /\ queue' = Append(queue, f)
  /\ Return(Owner, "pushed")

\* A push is refused only when the queue really is full: the caller then
\* spills the fiber to the group's global list.
PushFull ==
  /\ Len(queue) = Capacity
  /\ Return(Owner, "full")
  /\ UNCHANGED queue

Take(w) ==
  /\ queue # <<>>
  /\ queue' = Tail(queue)
  /\ Return(w, Head(queue))

\* A take comes back empty-handed only when the queue really is empty.
TakeNone(w) ==
  /\ queue = <<>>
  /\ Return(w, NULL)
  /\ UNCHANGED queue

Next ==
  \/ \E f \in Fibers : Push(f)
  \/ PushFull
  \/ \E w \in Workers : Take(w) \/ TakeNone(w)

Spec == Init /\ [][Next]_vars
=============================================================================
