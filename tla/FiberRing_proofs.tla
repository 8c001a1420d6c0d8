-------------------------- MODULE FiberRing_proofs --------------------------
(***************************************************************************)
(* Proofs about FiberRing, for every capacity, every number of workers and *)
(* every bound on the pushes: IInv is an inductive invariant, so every     *)
(* fiber is handed out once and in order; and the ring implements the      *)
(* abstract queue FifoQueue.                                               *)
(***************************************************************************)
EXTENDS FiberRing, SequenceTheorems, TLAPS

\* A slot's number is one of the ring's: i % MAKA_FRQ_CAP indexes buf.
LEMMA SlotInRange ==
  ASSUME NEW i \in Nat
  PROVE  Slot(i) \in 0 .. Capacity - 1
BY CapacityAssumption DEF Slot

\* Two indexes less than a lap apart never share a slot.
LEMMA SlotsDiffer ==
  ASSUME NEW i \in Nat, NEW j \in Nat, i < j, j - i < Capacity
  PROVE  Slot(i) # Slot(j)
<1> SUFFICES ASSUME Slot(i) = Slot(j) PROVE FALSE
  OBVIOUS
<1> DEFINE a == i \div Capacity
           b == j \div Capacity
<1>1. /\ i = Capacity * a + Slot(i)
      /\ j = Capacity * b + Slot(j)
      /\ a \in Int /\ b \in Int
  BY CapacityAssumption DEF Slot
<1>2. Slot(i) \in Int /\ Slot(j) \in Int
  BY CapacityAssumption DEF Slot
<1> HIDE DEF a, b
<1>3. j - i = Capacity * (b - a)
  BY <1>1, <1>2, CapacityAssumption
<1>4. CASE b - a <= 0
  <2>1. Capacity * (b - a) <= 0
    BY <1>4, <1>1, CapacityAssumption
  <2> QED
    BY <2>1, <1>3
<1>5. CASE b - a >= 1
  <2>1. Capacity * (b - a) >= Capacity
    BY <1>5, <1>1, CapacityAssumption
  <2> QED
    BY <2>1, <1>3, CapacityAssumption
<1> QED
  BY <1>1, <1>4, <1>5
-----------------------------------------------------------------------------
LEMMA InitIInv == Init => IInv
<1> SUFFICES ASSUME Init PROVE IInv
  OBVIOUS
<1>1. TypeOK
  BY OwnerAssumption, CapacityAssumption, EmptySeq DEF Init, TypeOK, PC
<1>2. QueuedIntact /\ TakenInOrder
  BY CapacityAssumption, EmptySeq DEF Init, QueuedIntact, TakenInOrder
<1>3. PushLocal /\ TakeLocal
  BY OwnerAssumption DEF Init, PushLocal, TakeLocal
<1> QED
  BY <1>1, <1>2, <1>3 DEF IInv

LEMMA PushLoadIInv ==
  ASSUME IInv, NEW f \in Fibers, PushLoad(f)
  PROVE  IInv'
<1> USE OwnerAssumption DEF IInv, shared, history
<1>1. CASE ~HasRoom
  <2>1. Return(Owner, "full") /\ UNCHANGED <<shared, history>>
    BY <1>1 DEF PushLoad
  <2>2. TypeOK'
    BY <2>1 DEF Return, TypeOK, PC
  <2>3. QueuedIntact' /\ TakenInOrder'
    BY <2>1 DEF QueuedIntact, TakenInOrder
  <2>4. PushLocal' /\ TakeLocal'
    BY <2>1 DEF Return, PushLocal, TakeLocal, TypeOK
  <2> QED
    BY <2>2, <2>3, <2>4
<1>2. CASE HasRoom
  <2> USE <1>2 DEF PushLoad, Goto
  <2>1. TypeOK'
    BY DEF TypeOK, PC
  <2>2. QueuedIntact' /\ TakenInOrder'
    BY DEF QueuedIntact, TakenInOrder
  <2>3. PushLocal' /\ TakeLocal'
    BY CapacityAssumption DEF PushLocal, TakeLocal, TypeOK, HasRoom
  <2> QED
    BY <2>1, <2>2, <2>3
<1> QED
  BY <1>1, <1>2

LEMMA PushWriteIInv ==
  ASSUME IInv, PushWrite
  PROVE  IInv'
<1> USE OwnerAssumption, CapacityAssumption DEF IInv, history
<1>1. tl = tail /\ tail \in Nat /\ head \in Nat /\ tail < head + Capacity /\ fib[Owner] \in Fibers
  BY DEF PushWrite, PushLocal, TypeOK
<1>2. buf' = [buf EXCEPT ![Slot(tail)] = fib[Owner]] /\ Slot(tail) \in 0 .. Capacity - 1
  BY <1>1, SlotInRange DEF PushWrite
<1>3. TypeOK'
  BY <1>1, <1>2 DEF PushWrite, Goto, TypeOK, PC
<1>4. ASSUME NEW i \in head .. tail - 1
      PROVE  buf'[Slot(i)] = buf[Slot(i)]
  <2>1. i \in Nat /\ i < tail /\ tail - i < Capacity
    BY <1>1
  <2>2. Slot(i) # Slot(tail) /\ Slot(i) \in 0 .. Capacity - 1
    BY <1>1, <2>1, SlotsDiffer, SlotInRange
  <2> QED
    BY <1>2, <2>2 DEF TypeOK
<1>5. QueuedIntact'
  BY <1>4 DEF PushWrite, QueuedIntact
<1>6. TakenInOrder'
  BY DEF PushWrite, TakenInOrder
<1>7. PushLocal'
  BY <1>1, <1>2 DEF PushWrite, Goto, PushLocal, TypeOK
<1>8. TakeLocal'
  BY DEF PushWrite, Goto, TakeLocal, TypeOK
<1> QED
  BY <1>3, <1>5, <1>6, <1>7, <1>8

LEMMA PushPublishIInv ==
  ASSUME IInv, PushPublish
  PROVE  IInv'
<1> USE OwnerAssumption, CapacityAssumption DEF IInv
<1>1. tl = tail /\ tail \in Nat /\ head \in Nat /\ tail < head + Capacity
      /\ fib[Owner] \in Fibers /\ buf[Slot(tail)] = fib[Owner] /\ Len(log) = tail
      /\ log \in Seq(Fibers)
  BY DEF PushPublish, PushLocal, QueuedIntact, TypeOK
<1>2. /\ tail' = tail + 1
      /\ log' \in Seq(Fibers)
      /\ Len(log') = tail + 1
      /\ \A i \in 1 .. tail : log'[i] = log[i]
      /\ log'[tail + 1] = fib[Owner]
  BY <1>1, AppendProperties DEF PushPublish
<1>3. TypeOK'
  BY <1>1, <1>2 DEF PushPublish, Return, TypeOK, PC
<1>4. QueuedIntact'
  BY <1>1, <1>2 DEF PushPublish, QueuedIntact
<1>5. TakenInOrder'
  BY <1>1, <1>2 DEF PushPublish, TakenInOrder, QueuedIntact
<1>6. PushLocal'
  BY DEF PushPublish, Return, PushLocal, TypeOK
<1>7. TakeLocal'
  BY <1>1, <1>2 DEF PushPublish, Return, TakeLocal, TypeOK
<1> QED
  BY <1>3, <1>4, <1>5, <1>6, <1>7

LEMMA TakeLoadHeadIInv ==
  ASSUME IInv, NEW w \in Workers, TakeLoadHead(w)
  PROVE  IInv'
<1> USE OwnerAssumption DEF IInv, TakeLoadHead, Goto, shared, history
<1>1. TypeOK'
  BY DEF TypeOK, PC
<1>2. QueuedIntact' /\ TakenInOrder'
  BY DEF QueuedIntact, TakenInOrder
<1>3. PushLocal' /\ TakeLocal'
  BY DEF PushLocal, TakeLocal, TypeOK
<1> QED
  BY <1>1, <1>2, <1>3

LEMMA TakeLoadTailIInv ==
  ASSUME IInv, NEW w \in Workers, TakeLoadTail(w)
  PROVE  IInv'
<1> USE OwnerAssumption DEF IInv, shared, history
<1>1. UNCHANGED <<shared, history>>
  BY DEF TakeLoadTail
<1>2. QueuedIntact' /\ TakenInOrder'
  BY <1>1 DEF QueuedIntact, TakenInOrder
<1>3. CASE NothingQueued(w)
  <2>1. Return(w, NULL)
    BY <1>3 DEF TakeLoadTail
  <2>2. TypeOK'
    BY <1>1, <2>1 DEF Return, TypeOK, PC
  <2>3. PushLocal' /\ TakeLocal'
    <3>1. pc[w] = "tail"
      BY DEF TakeLoadTail
    <3> QED
      BY <1>1, <2>1, <3>1 DEF Return, PushLocal, TakeLocal, TypeOK
  <2> QED
    BY <1>2, <2>2, <2>3
<1>4. CASE ~NothingQueued(w)
  <2>1. /\ pc[w] = "tail"
        /\ hd[w] < tail
        /\ pc' = [pc EXCEPT ![w] = "slot"]
        /\ UNCHANGED <<hd, tl, fib, ret>>
    BY <1>4 DEF TakeLoadTail, NothingQueued, Goto, TypeOK
  <2>2. TypeOK'
    BY <1>1, <2>1 DEF TypeOK, PC
  <2>3. PushLocal' /\ TakeLocal'
    BY <1>1, <2>1 DEF PushLocal, TakeLocal, TypeOK
  <2> QED
    BY <1>2, <2>2, <2>3
<1> QED
  BY <1>3, <1>4

LEMMA TakeLoadSlotIInv ==
  ASSUME IInv, NEW w \in Workers, TakeLoadSlot(w)
  PROVE  IInv'
<1> USE OwnerAssumption DEF IInv, TakeLoadSlot, Goto, shared, history
<1>1. hd[w] \in Nat /\ hd[w] <= head /\ hd[w] < tail
  BY DEF TakeLocal, TypeOK
<1>2. buf[Slot(hd[w])] \in Fibers \cup {NULL}
  BY <1>1, SlotInRange DEF TypeOK
<1>3. hd[w] = head => buf[Slot(hd[w])] = log[head + 1]
  BY <1>1 DEF QueuedIntact, TypeOK
<1>4. TypeOK'
  BY <1>2 DEF TypeOK, PC
<1>5. QueuedIntact' /\ TakenInOrder'
  BY DEF QueuedIntact, TakenInOrder
<1>6. PushLocal'
  BY DEF PushLocal, TypeOK
<1>7. TakeLocal'
  BY <1>1, <1>3 DEF TakeLocal, TypeOK
<1> QED
  BY <1>4, <1>5, <1>6, <1>7

LEMMA TakeCasIInv ==
  ASSUME IInv, NEW w \in Workers, TakeCas(w)
  PROVE  IInv'
<1> USE OwnerAssumption DEF IInv
<1>1. CASE CasWins(w)
  <2>1. /\ pc[w] = "cas"
        /\ hd[w] = head
        /\ head' = head + 1
        /\ taken' = Append(taken, fib[w])
        /\ Return(w, fib[w])
        /\ UNCHANGED <<tail, buf, log>>
    BY <1>1 DEF TakeCas, CasWins
  <2>2. /\ head \in Nat /\ tail \in Nat /\ head < tail /\ Len(log) = tail
        /\ fib[w] = log[head + 1]
        /\ log \in Seq(Fibers) /\ taken \in Seq(Fibers) /\ Len(taken) = head
    BY <2>1 DEF TypeOK, TakeLocal, QueuedIntact, TakenInOrder
  <2>3. fib[w] \in Fibers
    BY <2>2, ElementOfSeq
  <2>4. /\ taken' \in Seq(Fibers)
        /\ Len(taken') = head + 1
        /\ \A i \in 1 .. head : taken'[i] = taken[i]
        /\ taken'[head + 1] = fib[w]
    BY <2>1, <2>2, <2>3, AppendProperties
  <2>5. TypeOK'
    BY <2>1, <2>2, <2>3, <2>4 DEF TypeOK, Return, PC
  <2>6. QueuedIntact'
    <3>1. tail <= head + Capacity /\ \A i \in head .. tail - 1 : buf[Slot(i)] = log[i + 1]
      BY DEF QueuedIntact
    <3>2. \A i \in head' .. tail' - 1 : buf'[Slot(i)] = log'[i + 1]
      BY <2>1, <2>2, <3>1
    <3>3. head' <= tail' /\ tail' <= head' + Capacity /\ Len(log') = tail'
      BY <2>1, <2>2, <3>1, CapacityAssumption
    <3> QED
      BY <3>2, <3>3 DEF QueuedIntact
  <2>7. TakenInOrder'
    <3>1. \A i \in 1 .. head : i <= Len(log) /\ taken[i] = log[i]
      BY DEF TakenInOrder
    <3>2. ASSUME NEW i \in 1 .. head' PROVE i <= Len(log') /\ taken'[i] = log'[i]
      BY <2>1, <2>2, <2>4, <3>1
    <3> QED
      BY <2>1, <2>4, <3>2 DEF TakenInOrder
  <2>8. PushLocal'
    BY <2>1, <2>2, CapacityAssumption DEF PushLocal, TypeOK, Return
  <2>9. TakeLocal'
    BY <2>1, <2>2 DEF TakeLocal, TypeOK, Return
  <2> QED
    BY <2>5, <2>6, <2>7, <2>8, <2>9
<1>2. CASE ~CasWins(w)
  <2> USE <1>2 DEF TakeCas, Goto, CasWins
  <2>1. TypeOK'
    BY DEF TypeOK, PC
  <2>2. QueuedIntact' /\ TakenInOrder'
    BY DEF QueuedIntact, TakenInOrder
  <2>3. PushLocal' /\ TakeLocal'
    BY DEF PushLocal, TakeLocal, TypeOK
  <2> QED
    BY <2>1, <2>2, <2>3
<1> QED
  BY <1>1, <1>2

LEMMA NextIInv == IInv /\ [Next]_vars => IInv'
<1> SUFFICES ASSUME IInv, [Next]_vars PROVE IInv'
  OBVIOUS
<1>1. ASSUME NEW f \in Fibers, PushLoad(f) PROVE IInv'
  BY <1>1, PushLoadIInv
<1>2. CASE PushWrite
  BY <1>2, PushWriteIInv
<1>3. CASE PushPublish
  BY <1>3, PushPublishIInv
<1>4. ASSUME NEW w \in Workers, TakeStep(w) PROVE IInv'
  BY <1>4, TakeLoadHeadIInv, TakeLoadTailIInv, TakeLoadSlotIInv, TakeCasIInv DEF TakeStep
<1>5. CASE UNCHANGED vars
  BY <1>5 DEF vars, IInv, TypeOK, QueuedIntact, TakenInOrder, PushLocal, TakeLocal
<1> QED
  BY <1>1, <1>2, <1>3, <1>4, <1>5 DEF Next, PushStep

\* The ring's inductive invariant holds in every reachable state.
THEOREM RingInvariant == Spec => []IInv
BY InitIInv, NextIInv, PTL DEF Spec

\* A fiber published by the owner is handed out exactly once, in the order of
\* publication, to the owner or to a thief: __maka_frq_take never duplicates,
\* drops or reorders.
THEOREM RingTakenInOrder == Spec => []TakenInOrder
<1>1. IInv => TakenInOrder
  BY DEF IInv
<1> QED
  BY <1>1, RingInvariant, PTL
-----------------------------------------------------------------------------
(***************************************************************************)
(* Refinement: what the ring holds, oldest first, is the abstract queue.   *)
(***************************************************************************)

\* A function on 1 .. n into S is a sequence of length n.
LEMMA FunctionIsSeq ==
  ASSUME NEW S, NEW n \in Nat, NEW g \in [1 .. n -> S]
  PROVE  g \in Seq(S) /\ Len(g) = n
<1>1. g \in Seq(S)
  BY SeqDef
<1>2. DOMAIN g = 1 .. n /\ DOMAIN g = 1 .. Len(g) /\ Len(g) \in Nat
  BY <1>1, LenProperties
<1>3. Len(g) = n
  <2>1. n \in 1 .. n \/ n = 0
    OBVIOUS
  <2>2. Len(g) \in 1 .. Len(g) \/ Len(g) = 0
    BY <1>2
  <2> QED
    BY <1>2, <2>1, <2>2
<1> QED
  BY <1>1, <1>3

\* The fibers between head and tail, as a sequence.
LEMMA QueueOfType ==
  ASSUME NEW l \in Seq(Fibers), NEW h \in Nat, NEW t \in Nat, h <= t, t <= Len(l)
  PROVE  /\ QueueOf(h, t, l) \in Seq(Fibers)
         /\ Len(QueueOf(h, t, l)) = t - h
<1>1. \A i \in 1 .. t - h : l[h + i] \in Fibers
  BY LenProperties, ElementOfSeq
<1>2. QueueOf(h, t, l) \in [1 .. t - h -> Fibers]
  BY <1>1 DEF QueueOf
<1>3. t - h \in Nat
  OBVIOUS
<1> QED
  BY <1>2, <1>3, FunctionIsSeq DEF QueueOf

\* Publishing one more fiber appends it.
LEMMA QueueOfPush ==
  ASSUME NEW l \in Seq(Fibers), NEW h \in Nat, NEW f \in Fibers, h <= Len(l)
  PROVE  QueueOf(h, Len(l) + 1, Append(l, f)) = Append(QueueOf(h, Len(l), l), f)
<1> DEFINE q == QueueOf(h, Len(l), l)
           r == QueueOf(h, Len(l) + 1, Append(l, f))
<1>1. /\ Len(l) \in Nat
      /\ Append(l, f) \in Seq(Fibers) /\ Len(Append(l, f)) = Len(l) + 1
      /\ \A i \in 1 .. Len(l) : Append(l, f)[i] = l[i]
      /\ Append(l, f)[Len(l) + 1] = f
  BY LenProperties, AppendProperties
<1>2. /\ q \in Seq(Fibers) /\ Len(q) = Len(l) - h
      /\ \A i \in 1 .. Len(l) - h : q[i] = l[h + i]
  BY <1>1, QueueOfType DEF QueueOf
<1>3. /\ r \in Seq(Fibers) /\ Len(r) = Len(l) + 1 - h
      /\ \A i \in 1 .. Len(l) + 1 - h : r[i] = Append(l, f)[h + i]
  BY <1>1, QueueOfType DEF QueueOf
<1> HIDE DEF q, r
<1>4. /\ Append(q, f) \in Seq(Fibers)
      /\ Len(Append(q, f)) = Len(l) - h + 1
      /\ \A i \in 1 .. Len(l) - h : Append(q, f)[i] = q[i]
      /\ Append(q, f)[Len(l) - h + 1] = f
  BY <1>2, AppendProperties
<1>5. ASSUME NEW i \in 1 .. Len(r)
      PROVE  r[i] = Append(q, f)[i]
  <2>1. CASE i \in 1 .. Len(l) - h
    BY <1>1, <1>2, <1>3, <1>4, <2>1
  <2>2. CASE i = Len(l) - h + 1
    BY <1>1, <1>3, <1>4, <2>2
  <2>3. i \in 1 .. Len(l) - h \/ i = Len(l) - h + 1
    <3>1. i \in 1 .. Len(l) + 1 - h
      BY <1>3
    <3> QED
      BY <1>1, <3>1
  <2> QED
    BY <2>1, <2>2, <2>3
<1>6. r = Append(q, f)
  BY <1>1, <1>3, <1>4, <1>5, SeqEqual
<1> QED
  BY <1>6 DEF q, r

\* Advancing head removes the first fiber.
LEMMA QueueOfTake ==
  ASSUME NEW l \in Seq(Fibers), NEW h \in Nat, NEW t \in Nat, h < t, t <= Len(l)
  PROVE  /\ QueueOf(h, t, l) # <<>>
         /\ Head(QueueOf(h, t, l)) = l[h + 1]
         /\ QueueOf(h + 1, t, l) = Tail(QueueOf(h, t, l))
<1> DEFINE q == QueueOf(h, t, l)
           r == QueueOf(h + 1, t, l)
<1>1. /\ q \in Seq(Fibers) /\ Len(q) = t - h
      /\ \A i \in 1 .. t - h : q[i] = l[h + i]
  BY QueueOfType DEF QueueOf
<1>2. /\ r \in Seq(Fibers) /\ Len(r) = t - (h + 1)
      /\ \A i \in 1 .. t - (h + 1) : r[i] = l[h + 1 + i]
  BY QueueOfType DEF QueueOf
<1> HIDE DEF q, r
<1>3. q # <<>>
  BY <1>1, EmptySeq
<1>4. /\ Tail(q) \in Seq(Fibers) /\ Len(Tail(q)) = t - h - 1
      /\ \A i \in 1 .. t - h - 1 : Tail(q)[i] = q[i + 1]
      /\ Head(q) = q[1]
  BY <1>1, <1>3, HeadTailProperties
<1>5. \A i \in 1 .. Len(r) : r[i] = Tail(q)[i]
  BY <1>1, <1>2, <1>4
<1>6. r = Tail(q)
  BY <1>2, <1>4, <1>5, SeqEqual
<1>7. Head(q) = l[h + 1]
  BY <1>1, <1>4
<1> QED
  BY <1>3, <1>6, <1>7 DEF q, r

LEMMA PushRefines ==
  ASSUME IInv, PushPublish
  PROVE  Abstract!Push(fib[Owner]) /\ fib[Owner] \in Fibers
<1>1. /\ tl = tail /\ tail < head + Capacity /\ fib[Owner] \in Fibers
      /\ head \in Nat /\ tail \in Nat /\ head <= tail
      /\ log \in Seq(Fibers) /\ Len(log) = tail
  BY DEF IInv, TypeOK, PushLocal, QueuedIntact, PushPublish
<1>2. /\ log' = Append(log, fib[Owner]) /\ tail' = tail + 1 /\ head' = head
      /\ ret' = [ret EXCEPT ![Owner] = "pushed"]
  BY <1>1 DEF PushPublish, Return
<1>3. Queue' = Append(Queue, fib[Owner])
  BY <1>1, <1>2, QueueOfPush DEF Queue
<1>4. Len(Queue) < Capacity
  BY <1>1, QueueOfType, CapacityAssumption DEF Queue, QueueOf
<1> QED
  BY <1>1, <1>2, <1>3, <1>4 DEF Abstract!Push, Abstract!Return

LEMMA CasRefines ==
  ASSUME IInv, NEW w \in Workers, TakeCas(w)
  PROVE  Abstract!Take(w) \/ UNCHANGED <<Queue, ret>>
<1>1. CASE ~CasWins(w)
  <2>1. UNCHANGED <<head, tail, log, ret>>
    BY <1>1 DEF TakeCas
  <2> QED
    BY <2>1 DEF Queue
<1>2. CASE CasWins(w)
  <2>1. /\ pc[w] = "cas" /\ hd[w] = head /\ head' = head + 1
        /\ ret' = [ret EXCEPT ![w] = fib[w]]
        /\ UNCHANGED <<tail, log>>
    BY <1>2 DEF TakeCas, CasWins, Return
  <2>2. /\ head \in Nat /\ tail \in Nat /\ head < tail
        /\ log \in Seq(Fibers) /\ Len(log) = tail /\ fib[w] = log[head + 1]
    BY <2>1 DEF IInv, TypeOK, TakeLocal, QueuedIntact
  <2>3. Queue # <<>> /\ Head(Queue) = fib[w] /\ Queue' = Tail(Queue)
    <3> tail <= Len(log)
      BY <2>2
    <3>1. /\ Queue # <<>> /\ Head(Queue) = log[head + 1]
          /\ QueueOf(head + 1, tail, log) = Tail(Queue)
      BY <2>2, QueueOfTake, Zenon DEF Queue
    <3>2. Queue' = QueueOf(head + 1, tail, log)
      BY <2>1 DEF Queue
    <3> QED
      BY <2>2, <3>1, <3>2
  <2> QED
    BY <2>1, <2>3 DEF Abstract!Take, Abstract!Return
<1> QED
  BY <1>1, <1>2

LEMMA LoadTailRefines ==
  ASSUME IInv, NEW w \in Workers, TakeLoadTail(w)
  PROVE  Abstract!TakeNone(w) \/ UNCHANGED <<Queue, ret>>
<1>1. UNCHANGED <<head, tail, log>>
  BY DEF TakeLoadTail, shared, history
<1>2. Queue' = Queue
  BY <1>1 DEF Queue
<1>3. CASE ~NothingQueued(w)
  BY <1>2, <1>3 DEF TakeLoadTail
<1>4. CASE NothingQueued(w)
  <2>1. /\ pc[w] = "tail" /\ hd[w] >= tail
        /\ ret' = [ret EXCEPT ![w] = NULL]
    BY <1>4 DEF TakeLoadTail, NothingQueued, Return
  <2>2. /\ head \in Nat /\ tail \in Nat /\ head = tail
        /\ log \in Seq(Fibers) /\ Len(log) = tail
    BY <2>1 DEF IInv, TypeOK, TakeLocal, QueuedIntact
  <2>3. Queue \in Seq(Fibers) /\ Len(Queue) = 0
    BY <2>2, QueueOfType DEF Queue
  <2>4. Queue = <<>>
    BY <2>3, EmptySeq
  <2> QED
    BY <1>2, <2>1, <2>4 DEF Abstract!TakeNone, Abstract!Return
<1> QED
  BY <1>3, <1>4

LEMMA PushLoadRefines ==
  ASSUME IInv, NEW f \in Fibers, PushLoad(f)
  PROVE  Abstract!PushFull \/ UNCHANGED <<Queue, ret>>
<1>1. UNCHANGED <<head, tail, log>>
  BY DEF PushLoad, shared, history
<1>2. Queue' = Queue
  BY <1>1 DEF Queue
<1>3. CASE HasRoom
  BY <1>2, <1>3 DEF PushLoad
<1>4. CASE ~HasRoom
  <2>1. ret' = [ret EXCEPT ![Owner] = "full"]
    BY <1>4 DEF PushLoad, Return
  <2>2. /\ head \in Nat /\ tail \in Nat /\ tail - head = Capacity /\ head <= tail
        /\ log \in Seq(Fibers) /\ Len(log) = tail
    BY <1>4, CapacityAssumption DEF HasRoom, IInv, TypeOK, QueuedIntact
  <2>3. Len(Queue) = Capacity
    BY <2>2, QueueOfType DEF Queue, QueueOf
  <2> QED
    BY <1>2, <2>1, <2>3 DEF Abstract!PushFull, Abstract!Return
<1> QED
  BY <1>3, <1>4

LEMMA InitRefines == Init => Abstract!Init
<1> SUFFICES ASSUME Init PROVE Abstract!Init
  OBVIOUS
<1>1. Queue \in Seq(Fibers) /\ Len(Queue) = 0
  BY EmptySeq, QueueOfType DEF Init, Queue, QueueOf
<1>2. Queue = <<>>
  BY <1>1, EmptySeq
<1> QED
  BY <1>2 DEF Init, Abstract!Init

LEMMA NextRefines == IInv /\ [Next]_vars => [Abstract!Next]_(Abstract!vars)
<1> SUFFICES ASSUME IInv, [Next]_vars
             PROVE  Abstract!Next \/ UNCHANGED <<Queue, ret>>
  BY DEF Abstract!vars
<1>1. ASSUME NEW f \in Fibers, PushLoad(f)
      PROVE  Abstract!Next \/ UNCHANGED <<Queue, ret>>
  BY <1>1, PushLoadRefines DEF Abstract!Next
<1>2. CASE PushWrite
  <2>1. UNCHANGED <<head, tail, log, ret>>
    BY <1>2 DEF PushWrite, history
  <2> QED
    BY <2>1 DEF Queue
<1>3. CASE PushPublish
  BY <1>3, PushRefines DEF Abstract!Next
<1>4. ASSUME NEW w \in Workers, TakeStep(w)
      PROVE  Abstract!Next \/ UNCHANGED <<Queue, ret>>
  <2>1. CASE TakeLoadHead(w) \/ TakeLoadSlot(w)
    <3>1. UNCHANGED <<head, tail, log, ret>>
      BY <2>1 DEF TakeLoadHead, TakeLoadSlot, shared, history
    <3> QED
      BY <3>1 DEF Queue
  <2>2. CASE TakeLoadTail(w)
    BY <2>2, LoadTailRefines DEF Abstract!Next
  <2>3. CASE TakeCas(w)
    BY <2>3, CasRefines DEF Abstract!Next
  <2> QED
    BY <1>4, <2>1, <2>2, <2>3 DEF TakeStep
<1>5. CASE UNCHANGED vars
  BY <1>5 DEF vars, Queue
<1> QED
  BY <1>1, <1>2, <1>3, <1>4, <1>5 DEF Next, PushStep

\* The lock-free ring behaves as an atomic bounded FIFO queue: a refusal, a
\* push and a take each happen at one instant, also under stale local copies.
THEOREM RingRefinesFifo == Spec => ImplementsFifo
BY InitRefines, NextRefines, RingInvariant, PTL DEF Spec, Abstract!Spec, ImplementsFifo
=============================================================================
