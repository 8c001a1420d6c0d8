----------------------------- MODULE FiberRing -----------------------------
(***************************************************************************)
(* The per-worker run queue of the fiber scheduler (maka_frunq_t in the C  *)
(* runtime that codegen emits): a ring indexed by two ever-growing         *)
(* counters.  Its owner pushes at the tail without a lock; the owner and   *)
(* every thief take at the head with a compare-and-swap.  One action is    *)
(* one access to shared memory, so that the steps of an owner and of       *)
(* several thieves interleave as the threads' do.                          *)
(*                                                                         *)
(* log and taken are history: what was published, and what the successful  *)
(* compare-and-swaps handed out, in that order.                            *)
(***************************************************************************)
EXTENDS Integers, Sequences

CONSTANTS
  Fibers,     \* the fibers that may be queued
  Workers,    \* the owner and the thieves
  Owner,      \* the worker whose ring this is
  Capacity,   \* MAKA_FRQ_CAP, 256 in the code
  MaxPush,    \* bound of the model: pushes that may be published
  NULL

ASSUME OwnerAssumption == Owner \in Workers
ASSUME CapacityAssumption == Capacity \in Nat \ {0}
ASSUME MaxPushAssumption == MaxPush \in Nat
ASSUME NullAssumption == NULL \notin Fibers \cup {"pushed", "full"}

VARIABLES
  head,       \* next index to take
  tail,       \* next index to fill
  buf,        \* the ring's slots
  pc,         \* where each worker is inside push or take
  hd,         \* each worker's local copy of head
  tl,         \* the owner's local copy of tail
  fib,        \* each worker's fiber: the argument of push, the slot read by take
  ret,        \* what each worker's last call returned
  log,        \* history: every published fiber
  taken       \* history: every fiber handed out

shared == <<head, tail, buf>>
history == <<log, taken>>
vars == <<head, tail, buf, pc, hd, tl, fib, ret, log, taken>>

Slot(i) == i % Capacity

PC == {"idle", "write", "publish", "tail", "slot", "cas", "retry"}

\* There is room for one more, as the owner sees it.
HasRoomTooStrict == tail - head < Capacity - 1
HasRoom == tail - head < Capacity

\* Nothing to take: the worker's copy of head has reached the tail.
NothingQueuedLeavesLast(w) == hd[w] + 1 >= tail
NothingQueued(w) == hd[w] >= tail

\* The compare-and-swap of head succeeds.
CasBlind(w) == TRUE
CasWins(w) == head = hd[w]

Goto(w, label) == pc' = [pc EXCEPT ![w] = label]

\* The locals of a call are dead once it has returned.
Return(w, r) ==
  /\ ret' = [ret EXCEPT ![w] = r]
  /\ pc' = [pc EXCEPT ![w] = "idle"]
  /\ hd' = [hd EXCEPT ![w] = 0]
  /\ tl' = IF w = Owner THEN 0 ELSE tl
  /\ fib' = [fib EXCEPT ![w] = NULL]

Init ==
  /\ head = 0
  /\ tail = 0
  /\ buf = [i \in 0 .. Capacity - 1 |-> NULL]
  /\ pc = [w \in Workers |-> "idle"]
  /\ hd = [w \in Workers |-> 0]
  /\ tl = 0
  /\ fib = [w \in Workers |-> NULL]
  /\ ret = [w \in Workers |-> NULL]
  /\ log = <<>>
  /\ taken = <<>>

(***************************************************************************)
(* __maka_frq_push, called by the owner only.  The owner alone writes tail, *)
(* so its two loads count as one access: that of head.                     *)
(***************************************************************************)
PushLoad(f) ==
  /\ pc[Owner] = "idle"
  /\ Len(log) < MaxPush
  /\ \/ /\ ~HasRoom
        /\ Return(Owner, "full")
     \/ /\ HasRoom
        /\ tl' = tail
        /\ fib' = [fib EXCEPT ![Owner] = f]
        /\ Goto(Owner, "write")
        /\ UNCHANGED <<hd, ret>>
  /\ UNCHANGED <<shared, history>>

PushWrite ==
  /\ pc[Owner] = "write"
  /\ buf' = [buf EXCEPT ![Slot(tl)] = fib[Owner]]
  /\ Goto(Owner, "publish")
  /\ UNCHANGED <<head, tail, hd, tl, fib, ret, history>>

\* The release fence orders the slot's write before this store.
PushPublish ==
  /\ pc[Owner] = "publish"
  /\ tail' = tl + 1
  /\ log' = Append(log, fib[Owner])
  /\ Return(Owner, "pushed")
  /\ UNCHANGED <<head, buf, taken>>

(***************************************************************************)
(* __maka_frq_take, by the owner or a thief.                               *)
(***************************************************************************)
TakeLoadHead(w) ==
  /\ pc[w] \in {"idle", "retry"}
  /\ hd' = [hd EXCEPT ![w] = head]
  /\ Goto(w, "tail")
  /\ UNCHANGED <<shared, tl, fib, ret, history>>

TakeLoadTail(w) ==
  /\ pc[w] = "tail"
  /\ \/ /\ NothingQueued(w)
        /\ Return(w, NULL)
     \/ /\ ~NothingQueued(w)
        /\ Goto(w, "slot")
        /\ UNCHANGED <<hd, tl, fib, ret>>
  /\ UNCHANGED <<shared, history>>

TakeLoadSlot(w) ==
  /\ pc[w] = "slot"
  /\ fib' = [fib EXCEPT ![w] = buf[Slot(hd[w])]]
  /\ Goto(w, "cas")
  /\ UNCHANGED <<shared, hd, tl, ret, history>>

TakeCas(w) ==
  /\ pc[w] = "cas"
  /\ \/ /\ CasWins(w)
        /\ head' = hd[w] + 1
        /\ taken' = Append(taken, fib[w])
        /\ Return(w, fib[w])
     \/ /\ ~CasWins(w)
        /\ Goto(w, "retry")
        /\ UNCHANGED <<head, taken, hd, tl, fib, ret>>
  /\ UNCHANGED <<tail, buf, log>>

TakeStep(w) == TakeLoadHead(w) \/ TakeLoadTail(w) \/ TakeLoadSlot(w) \/ TakeCas(w)
PushStep == (\E f \in Fibers : PushLoad(f)) \/ PushWrite \/ PushPublish

Next == PushStep \/ \E w \in Workers : TakeStep(w)

Spec == Init /\ [][Next]_vars

(***************************************************************************)
(* A push that was begun is finished, and the scheduler loop of every      *)
(* worker calls take again and again (its own ring first, then the rings   *)
(* of its peers).                                                          *)
(***************************************************************************)
Fairness ==
  /\ WF_vars(PushWrite) /\ WF_vars(PushPublish)
  /\ \A w \in Workers : WF_vars(TakeStep(w))

FairSpec == Spec /\ Fairness

-----------------------------------------------------------------------------
TypeOK ==
  /\ head \in Nat
  /\ tail \in Nat
  /\ buf \in [0 .. Capacity - 1 -> Fibers \cup {NULL}]
  /\ pc \in [Workers -> PC]
  /\ hd \in [Workers -> Nat]
  /\ tl \in Nat
  /\ fib \in [Workers -> Fibers \cup {NULL}]
  /\ ret \in [Workers -> Fibers \cup {NULL, "pushed", "full"}]
  /\ log \in Seq(Fibers)
  /\ taken \in Seq(Fibers)

\* Every fiber that a compare-and-swap hands out is the next one that the
\* owner published: none is handed out twice, skipped or invented, whatever
\* the thieves' stale copies of head, tail and the slot.
TakenInOrder ==
  /\ Len(taken) = head
  /\ \A i \in 1 .. head : i <= Len(log) /\ taken[i] = log[i]

\* The ring never holds more than Capacity fibers and every index between
\* head and tail still has the fiber published there: a push never overwrites
\* a slot that has not been taken.
QueuedIntact ==
  /\ head <= tail
  /\ tail <= head + Capacity
  /\ Len(log) = tail
  /\ \A i \in head .. tail - 1 : buf[Slot(i)] = log[i + 1]

\* What the workers' program counters know: the strengthening that makes the
\* two invariants above inductive.
PushLocal ==
  /\ pc[Owner] \in {"write", "publish"} =>
       /\ tl = tail
       /\ tail < head + Capacity
       /\ fib[Owner] \in Fibers
  /\ pc[Owner] = "publish" => buf[Slot(tail)] = fib[Owner]
  /\ \A w \in Workers \ {Owner} : pc[w] \notin {"write", "publish"}

TakeLocal ==
  \A w \in Workers :
    /\ pc[w] \in {"tail", "slot", "cas"} => hd[w] <= head
    /\ pc[w] \in {"slot", "cas"} => hd[w] < tail
    /\ pc[w] = "cas" /\ hd[w] = head => fib[w] = log[head + 1]

IInv == TypeOK /\ QueuedIntact /\ TakenInOrder /\ PushLocal /\ TakeLocal

\* Every published fiber is eventually taken: a failed compare-and-swap means
\* that another worker's succeeded, so nobody retries for ever on a fiber that
\* stays queued.
EveryPushedIsTaken ==
  \A i \in 1 .. MaxPush : (tail >= i) ~> (head >= i)

-----------------------------------------------------------------------------
\* The ring implements the abstract queue: a push takes effect at the store to
\* tail, a take at its compare-and-swap, a refusal at the load that shows it.
QueueOf(h, t, l) == [i \in 1 .. t - h |-> l[h + i]]
Queue == QueueOf(head, tail, log)

Abstract == INSTANCE FifoQueue WITH queue <- Queue

ImplementsFifo == Abstract!Spec
=============================================================================
