--------------------------- MODULE JobPool_proofs ---------------------------
(***************************************************************************)
(* Proofs about the job pool, for any number of workers and callers and    *)
(* any capacity of each deque.                                             *)
(*                                                                         *)
(* That no wakeup is lost holds whether or not a push onto the deque of    *)
(* another thread overlaps the owner's operations (SInv).  That no job is  *)
(* lost or run twice and that the counter of pending jobs does not drift   *)
(* holds until one does:                                                   *)
(* DequeInv says what the owner of a deque, its thieves and the thread     *)
(* that pushes know of it between their loads and their stores, JobInv     *)
(* where each job is, and CountInv what the counter counts.                *)
(***************************************************************************)
EXTENDS JobPool, FiniteSetTheorems, TLAPS

USE DEF ledger

SInv ==
  /\ pc \in [Actors -> PC]
  /\ pending \in Int
  /\ SleepersAreWoken

\* A thread that is not about to broadcast goes on, and does not fall asleep.
LEMMA AwakeStep ==
  ASSUME SInv, NEW a \in Actors, NEW label \in PC \ {"asleep"},
         pc[a] # "notify", Goto(a, label), UNCHANGED pending
  PROVE  SInv'
<1>1. pc' \in [Actors -> PC] /\ pending' \in Int
  BY DEF SInv, Goto
<1>2. ASSUME NEW w \in Workers, pc'[w] = "asleep" PROVE pc[w] = "asleep"
  BY <1>2 DEF SInv, Goto, Actors
<1>3. ASSUME NEW x \in Actors, pc[x] = "notify" PROVE pc'[x] = "notify"
  BY <1>3 DEF SInv, Goto
<1>4. SleepersAreWoken'
  BY <1>2, <1>3 DEF SInv, SleepersAreWoken
<1> QED
  BY <1>1, <1>4 DEF SInv

\* Neither the counter nor any thread's place changes.
LEMMA StillStep == ASSUME SInv, UNCHANGED <<pc, pending>> PROVE SInv'
BY DEF SInv, SleepersAreWoken

\* The owner's side of its deque and the thieves' never touch the counter.
LEMMA DequeStepSInv ==
  ASSUME SInv, NEW w \in Workers,
         \/ PopLoad(w) \/ PopStore(w) \/ PopTop(w) \/ PopRead(w) \/ PopCas(w)
         \/ PopRestore(w) \/ StealTop(w) \/ StealBottom(w) \/ StealRead(w) \/ StealCas(w)
  PROVE  SInv'
<1>1. /\ UNCHANGED pending
      /\ pc[w] # "notify"
      /\ \E label \in PC \ {"asleep"} : Goto(w, label)
  <2>1. CASE PopLoad(w) \/ PopStore(w) \/ PopRead(w)
    BY <2>1 DEF PopLoad, PopStore, PopRead, deques, locals, PC, Popping
  <2>2. CASE PopTop(w)
    BY <2>2 DEF PopTop, deques, PC, Popping
  <2>3. CASE PopCas(w)
    BY <2>3 DEF PopCas, locals, PC, Popping
  <2>4. CASE PopRestore(w)
    BY <2>4 DEF PopRestore, PC, Popping
  <2>5. CASE StealTop(w) \/ StealBottom(w) \/ StealRead(w) \/ StealCas(w)
    BY <2>5 DEF StealTop, StealBottom, StealRead, StealCas, deques, PC
  <2> QED
    BY <2>1, <2>2, <2>3, <2>4, <2>5
<1>2. w \in Actors
  BY DEF Actors
<1> QED
  BY <1>1, <1>2, AwakeStep

\* A worker accounts for its job: there is only less to wake for.
LEMMA StartJobSInv == ASSUME SInv, NEW w \in Workers, StartJob(w) PROVE SInv'
<1>1. pending' = pending - 1 /\ pc' = [pc EXCEPT ![w] = "run"] /\ pc[w] = "got"
  BY DEF StartJob, Goto
<1>2. pc' \in [Actors -> PC] /\ pending' \in Int
  BY <1>1 DEF SInv, PC, Actors
<1>3. ASSUME NEW v \in Workers, pc'[v] = "asleep" PROVE pc[v] = "asleep"
  BY <1>1, <1>3 DEF SInv, Actors
<1>4. ASSUME NEW x \in Actors, pc[x] = "notify" PROVE pc'[x] = "notify"
  BY <1>1, <1>4 DEF SInv
<1>5. pending <= 0 => pending' <= 0
  BY <1>1 DEF SInv
<1>6. SleepersAreWoken'
  BY <1>3, <1>4, <1>5 DEF SInv, SleepersAreWoken
<1> QED
  BY <1>2, <1>6 DEF SInv

\* The idle mutex makes the look at the counter and the wait one step.
LEMMA IdleWaitSInv == ASSUME SInv, NEW w \in Workers, IdleWait(w) PROVE SInv'
<1>1. UNCHANGED pending /\ pc[w] # "notify" /\ w \in Actors
  BY DEF IdleWait, Actors
<1>2. CASE pending = 0
  <2>1. pc' \in [Actors -> PC]
    BY <1>1, <1>2 DEF IdleWait, NothingPending, Goto, SInv, PC
  <2> QED
    BY <1>1, <1>2, <2>1 DEF SInv, SleepersAreWoken
<1>3. CASE pending # 0
  <2>1. Goto(w, "loop")
    BY <1>3 DEF IdleWait, NothingPending
  <2>2. "loop" \in PC \ {"asleep"}
    BY DEF PC
  <2> QED
    BY <1>1, <2>1, <2>2, AwakeStep
<1> QED
  BY <1>2, <1>3

LEMMA WorkerStepSInv == ASSUME SInv, NEW w \in Workers, WorkerStep(w) PROVE SInv'
<1>1. CASE FinishJob(w) \/ Spin(w)
  <2>1. UNCHANGED pending /\ pc[w] # "notify" /\ Goto(w, "loop") /\ w \in Actors
    BY <1>1 DEF FinishJob, Spin, Actors
  <2>2. "loop" \in PC \ {"asleep"}
    BY DEF PC
  <2> QED
    BY <2>1, <2>2, AwakeStep
<1> QED
  BY <1>1, DequeStepSInv, StartJobSInv, IdleWaitSInv DEF WorkerStep

\* The pusher that raises the counter is the one that is about to broadcast.
LEMMA AddPendingSInv == ASSUME SInv, NEW a \in Actors, AddPending(a) PROVE SInv'
<1>1. pending' = pending + 1 /\ pc' = [pc EXCEPT ![a] = "notify"]
  BY DEF AddPending, Goto
<1>2. pc' \in [Actors -> PC] /\ pending' \in Int /\ pc'[a] = "notify"
  BY <1>1 DEF SInv, PC
<1> QED
  BY <1>2 DEF SInv, SleepersAreWoken

\* After the broadcast nobody sleeps.
LEMMA NotifySInv == ASSUME SInv, NEW a \in Actors, Notify(a) PROVE SInv'
<1>1. UNCHANGED pending
  BY DEF Notify
<1>2. pc' = [x \in Actors |-> IF x = a THEN Back(a)
                             ELSE IF pc[x] = "asleep" THEN "woken" ELSE pc[x]]
  BY DEF Notify
<1>3. pc' \in [Actors -> PC]
  BY <1>2 DEF SInv, Back, PC
<1>4. ASSUME NEW w \in Workers PROVE pc'[w] # "asleep"
  BY <1>2 DEF Actors, Back
<1> QED
  BY <1>1, <1>3, <1>4 DEF SInv, SleepersAreWoken

LEMMA PushStepSInv == ASSUME SInv, NEW a \in Actors, PushStep(a) PROVE SInv'
<1>1. CASE PushLoad(a)
  <2>1. UNCHANGED pending /\ pc[a] # "notify"
    BY <1>1 DEF PushLoad, deques
  <2>2. Goto(a, "push_write") \/ Goto(a, "dedicate") \/ UNCHANGED pc
    BY <1>1 DEF PushLoad
  <2>3. "push_write" \in PC \ {"asleep"} /\ "dedicate" \in PC \ {"asleep"}
    BY DEF PC, Pushing
  <2> QED
    BY <2>1, <2>2, <2>3, AwakeStep, StillStep
<1>2. CASE PushWrite(a) \/ PushPublish(a)
  <2>1. /\ UNCHANGED pending
        /\ pc[a] # "notify"
        /\ Goto(a, "push_publish") \/ Goto(a, "pend")
    BY <1>2 DEF PushWrite, PushPublish, locals
  <2>2. "push_publish" \in PC \ {"asleep"} /\ "pend" \in PC \ {"asleep"}
    BY DEF PC, Pushing
  <2> QED
    BY <2>1, <2>2, AwakeStep
<1>3. CASE Dedicate(a)
  <2>1. UNCHANGED pending /\ pc[a] # "notify" /\ Goto(a, Back(a))
    BY <1>3 DEF Dedicate, deques
  <2>2. Back(a) \in PC \ {"asleep"}
    BY DEF Back, PC
  <2> QED
    BY <2>1, <2>2, AwakeStep
<1> QED
  BY <1>1, <1>2, <1>3, AddPendingSInv, NotifySInv DEF PushStep

LEMMA SpawnSInv == ASSUME SInv, NEW a \in Actors, Spawn(a) PROVE SInv'
<1>1. UNCHANGED pending /\ pc[a] # "notify" /\ Goto(a, "push_load")
  BY DEF Spawn, deques
<1>2. "push_load" \in PC \ {"asleep"}
  BY DEF PC, Pushing
<1> QED
  BY <1>1, <1>2, AwakeStep

LEMMA NextSInv == SInv /\ [Next]_vars => SInv'
<1> SUFFICES ASSUME SInv, [Next]_vars PROVE SInv'
  OBVIOUS
<1>1. ASSUME NEW j \in Jobs, RunDedicated(j) PROVE SInv'
  BY <1>1, StillStep DEF RunDedicated
<1>2. CASE UNCHANGED vars
  BY <1>2, StillStep DEF vars
<1> QED
  BY <1>1, <1>2, WorkerStepSInv, PushStepSInv, SpawnSInv DEF Next

LEMMA InitSInv == Init => SInv
<1> SUFFICES ASSUME Init PROVE SInv
  OBVIOUS
<1>1. pc = [a \in Actors |-> IF a \in Workers THEN "loop" ELSE "out"] /\ pending = 0
  BY DEF Init
<1>2. pc \in [Actors -> PC]
  BY <1>1 DEF PC
<1> QED
  BY <1>1, <1>2 DEF SInv, SleepersAreWoken

\* No wakeup is lost: while a worker waits on the idle condition variable of
\* __maka_ws_worker, nothing is pending that no caller of __maka_spawn_job is
\* about to broadcast (__maka_ws_notify).
THEOREM JobPoolSleepersAreWoken == Spec => []SleepersAreWoken
<1>1. SInv => SleepersAreWoken
  BY DEF SInv
<1> QED
  BY InitSInv, NextSInv, <1>1, PTL DEF Spec

-----------------------------------------------------------------------------
(***************************************************************************)
(* The deques, when pushes of others keep away from the owner.             *)
(***************************************************************************)
Typed ==
  /\ top \in [Workers -> Nat] /\ bottom \in [Workers -> Nat \cup {-1}]
  /\ DOMAIN buf = Workers
  /\ \A w \in Workers : buf[w] \in [0 .. Capacity[w] - 1 -> Jobs \cup {NULL}]
  /\ pending \in Int /\ pc \in [Actors -> PC]
  /\ b \in [Actors -> Nat \cup {-1}] /\ t \in [Actors -> Nat]
  /\ item \in [Actors -> Jobs \cup {NULL}] /\ on \in [Actors -> Workers]
  /\ tries \in [Actors -> Nat \cup {-1}] /\ rr \in [Actors -> Workers]

\* Who has read a job of the deque d that it may take.
Thieves(d) == {v \in Workers : pc[v] \in {"steal_read", "steal_cas"} /\ on[v] = d}
Writing == {"push_write", "push_publish"}

\* The indices of each deque are as many as fit.
Bounded == \A w \in Workers : top[w] <= LogicalBottom(w) /\ LogicalBottom(w) <= top[w] + Capacity[w]

\* What the owner has in its copies while it pops.
OwnerKnows(w) ==
  /\ pc[w] = "pop_store" => b[w] = bottom[w] - 1
  /\ pc[w] \in Popping \ {"pop_store"} => bottom[w] = b[w]
  /\ pc[w] \in {"pop_read", "pop_cas"} => t[w] <= b[w] /\ t[w] <= top[w]
  /\ pc[w] = "pop_cas" => t[w] = b[w] /\ item[w] = buf[w][b[w] % Capacity[w]]
  /\ pc[w] \in {"pop_empty", "pop_won", "pop_lost"} => top[w] = b[w] + 1
  /\ pc[w] = "pop_read" /\ t[w] # b[w] => top[w] <= b[w] /\ \A v \in Thieves(w) : t[v] < b[w]

\* What a thief has, unless it comes too late.
ThiefKnows(v) ==
  /\ pc[v] \in {"steal_bottom", "steal_read", "steal_cas"} => t[v] <= top[on[v]]
  /\ pc[v] \in {"steal_read", "steal_cas"} /\ t[v] = top[on[v]] => top[on[v]] < LogicalBottom(on[v])
  /\ pc[v] = "steal_cas" /\ t[v] = top[on[v]] => item[v] = buf[on[v]][t[v] % Capacity[on[v]]]

\* One thread at a time pushes onto a deque, and not while the owner pops.
PusherKnows(a) ==
  pc[a] \in Writing =>
    /\ pc[on[a]] \notin Popping
    /\ \A c \in Actors : pc[c] \in Writing /\ on[c] = on[a] => c = a
    /\ b[a] = bottom[on[a]] /\ b[a] < top[on[a]] + Capacity[on[a]]
    /\ pc[a] = "push_publish" => buf[on[a]][b[a] % Capacity[on[a]]] = item[a]

OwnersKnow == \A w \in Workers : OwnerKnows(w)
ThievesKnow == \A v \in Workers : ThiefKnows(v)
PushersKnow == \A a \in Actors : PusherKnows(a)

DequeInv == Typed /\ Bounded /\ OwnersKnow /\ ThievesKnow /\ PushersKnow /\ clobbered = FALSE

-----------------------------------------------------------------------------
(***************************************************************************)
(* Where every job is.                                                     *)
(***************************************************************************)
At(w, i, j) == i \in Indices(w) /\ buf[w][i % Capacity[w]] = j
Holds(a, j) == pc[a] \in Holding /\ item[a] = j
Waits(j) == j \in 1 .. issued /\ j \notin dedicated \cup failed /\ ran[j] = 0

HistoryTyped ==
  /\ issued \in 0 .. MaxJobs /\ ran \in [Jobs -> Nat]
  /\ dedicated \subseteq 1 .. issued /\ failed \subseteq 1 .. issued /\ dedicated \cap failed = {}

\* A job is at one index of one deque, in one hand, given away, or run once: in
\* one of these ways only, and if it was issued, in one of them.
Accounted(j) ==
  /\ \A w, v \in Workers, i, k \in Int : At(w, i, j) /\ At(v, k, j) => w = v /\ i = k
  /\ \A w \in Workers, i \in Int, a \in Actors : ~(At(w, i, j) /\ Holds(a, j))
  /\ \A a, c \in Actors : Holds(a, j) /\ Holds(c, j) => a = c
  /\ \A w \in Workers, i \in Int : At(w, i, j) => Waits(j)
  /\ \A a \in Actors : Holds(a, j) => Waits(j)
  /\ j \in Jobs => ran[j] <= 1 /\ (j \notin 1 .. issued \/ j \in dedicated \cup failed => ran[j] = 0)
  /\ j \in 1 .. issued => \/ ran[j] > 0 \/ j \in dedicated \cup failed
                          \/ \E w \in Workers, i \in Int : At(w, i, j)
                          \/ \E a \in Actors : Holds(a, j)

JobInv == HistoryTyped /\ \A j \in Jobs \cup {NULL} : Accounted(j)

\* The counter of pending jobs.
CountInv ==
  /\ IsFiniteSet(Entries) /\ IsFiniteSet(Started) /\ IsFiniteSet(Uncounted)
  /\ pending + Cardinality(Uncounted) = Cardinality(Entries) + Cardinality(Started)

-----------------------------------------------------------------------------
(***************************************************************************)
(* Indices and slots.                                                      *)
(***************************************************************************)
LEMMA ModRange == \A i \in Int, c \in Nat \ {0} : i % c \in 0 .. c - 1
OBVIOUS

\* Two indices that are less than the capacity apart have slots of their own.
LEMMA ModApart ==
  ASSUME NEW i \in Int, NEW j \in Int, NEW c \in Nat \ {0}, i < j, j < i + c
  PROVE  i % c # j % c
<1>1. i = c * (i \div c) + (i % c) /\ i \div c \in Int /\ i % c \in 0 .. c - 1
  OBVIOUS
<1>2. j = c * (j \div c) + (j % c) /\ j \div c \in Int /\ j % c \in 0 .. c - 1
  OBVIOUS
<1>3. SUFFICES ASSUME i % c = j % c PROVE FALSE
  OBVIOUS
<1> DEFINE k == (j \div c) - (i \div c)
<1>4. j - i = c * k
  BY <1>1, <1>2, <1>3
<1>5. k \in Int /\ c * k > 0 /\ c * k < c
  BY <1>1, <1>2, <1>4
<1> HIDE DEF k
<1>6. CASE k <= 0
  BY <1>5, <1>6
<1>7. CASE k >= 1
  BY <1>5, <1>7
<1> QED
  BY <1>5, <1>6, <1>7

\* The owner's view of where its deque ends.
LEMMA LogicalBottomIs ==
  ASSUME OwnersKnow, Typed, NEW w \in Workers
  PROVE  /\ LogicalBottom(w) = IF pc[w] \in Popping \ {"pop_store"} THEN b[w] + 1 ELSE bottom[w]
         /\ LogicalBottom(w) \in Int /\ top[w] \in Nat /\ Capacity[w] \in Nat \ {0}
<1>1. w \in Actors /\ Capacity[w] \in Nat \ {0} /\ top[w] \in Nat /\ bottom[w] \in Int /\ b[w] \in Int
  <2>1. Capacity[w] \in Nat \ {0}
    BY CapacityAssumption DEF Workers
  <2>2. w \in Actors
    BY DEF Actors
  <2>3. bottom[w] \in Nat \cup {-1} /\ b[w] \in Nat \cup {-1} /\ top[w] \in Nat
    BY <2>2 DEF Typed
  <2> QED
    BY <2>1, <2>2, <2>3
<1>2. CASE pc[w] \in Popping \ {"pop_store"}
  <2>1. bottom[w] = b[w]
    BY <1>2 DEF OwnersKnow, OwnerKnows
  <2>2. LogicalBottom(w) = b[w] + 1
    BY <1>1, <1>2, <2>1 DEF LogicalBottom
  <2> QED
    BY <1>1, <1>2, <2>2
<1>3. CASE pc[w] \notin Popping \ {"pop_store"}
  <2>1. LogicalBottom(w) = bottom[w]
    BY <1>3 DEF LogicalBottom
  <2> QED
    BY <1>1, <1>3, <2>1
<1> QED
  BY <1>2, <1>3


-----------------------------------------------------------------------------
(***************************************************************************)
(* Steps that have nothing to do with the deques.                          *)
(***************************************************************************)
Busy == Popping \cup Writing \cup {"steal_bottom", "steal_read", "steal_cas"}

LEMMA Elsewhere ==
  ASSUME DequeInv, Typed', UNCHANGED <<deques, clobbered>>,
         \A x \in Actors : \/ pc[x] \notin Busy /\ pc'[x] \notin Busy
                           \/ pc'[x] = pc[x] /\ b'[x] = b[x] /\ t'[x] = t[x]
                              /\ item'[x] = item[x] /\ on'[x] = on[x]
  PROVE  DequeInv' /\ \A w \in Workers : LogicalBottom(w)' = LogicalBottom(w)
<1> USE DEF DequeInv, deques, Busy
<1>1. \A w \in Workers : w \in Actors
  BY DEF Actors
<1>2. \A w \in Workers : LogicalBottom(w)' = LogicalBottom(w)
  BY <1>1 DEF LogicalBottom, Popping
<1>3. Bounded'
  BY <1>2 DEF Bounded
<1>4. \A d \in Workers : Thieves(d)' = Thieves(d)
  BY <1>1 DEF Thieves, Writing, Popping
<1>5. OwnersKnow'
  BY <1>1, <1>4 DEF OwnersKnow, OwnerKnows, Popping, Writing, Thieves
<1>6. ThievesKnow'
  <2> SUFFICES ASSUME NEW v \in Workers, pc'[v] \in {"steal_bottom", "steal_read", "steal_cas"}
               PROVE  ThiefKnows(v)'
    BY DEF ThievesKnow, ThiefKnows
  <2>1. pc'[v] = pc[v] /\ t'[v] = t[v] /\ item'[v] = item[v] /\ on'[v] = on[v] /\ on[v] \in Workers
    BY <1>1 DEF Typed
  <2>2. ThiefKnows(v)
    BY DEF ThievesKnow
  <2> QED
    BY <1>2, <2>1, <2>2 DEF ThiefKnows
<1>7. PushersKnow'
  <2> SUFFICES ASSUME NEW a \in Actors, pc'[a] \in Writing
               PROVE  PusherKnows(a)'
    BY DEF PushersKnow, PusherKnows
  <2>1. pc'[a] = pc[a] /\ b'[a] = b[a] /\ item'[a] = item[a] /\ on'[a] = on[a] /\ on[a] \in Actors
    BY <1>1 DEF Typed
  <2>2. PusherKnows(a)
    BY DEF PushersKnow
  <2>3. pc'[on[a]] \notin Popping
    BY <2>1, <2>2 DEF PusherKnows
  <2>4. \A c \in Actors : pc'[c] \in Writing /\ on'[c] = on'[a] => c = a
    BY <2>1, <2>2 DEF PusherKnows
  <2> QED
    BY <2>1, <2>2, <2>3, <2>4 DEF PusherKnows
<1> QED
  BY <1>2, <1>3, <1>5, <1>6, <1>7

-----------------------------------------------------------------------------
(***************************************************************************)
(* Steps of a deque's owner.                                               *)
(***************************************************************************)
Elsewhere1(w) == \A x \in Actors \ {w} : /\ pc'[x] = pc[x] /\ b'[x] = b[x] /\ t'[x] = t[x]
                                         /\ item'[x] = item[x] /\ on'[x] = on[x]

LEMMA OwnerStep ==
  ASSUME DequeInv, Typed', NEW w \in Workers, UNCHANGED <<buf, clobbered, on>>, Elsewhere1(w),
         \A v \in Workers \ {w} : top'[v] = top[v] /\ bottom'[v] = bottom[v],
         pc[w] \in Popping \cup {"loop"}, pc'[w] \in (PC \ Busy) \cup Popping,
         \A a \in Actors : pc[a] \in Writing => on[a] # w,
         top[w] <= top'[w], top'[w] <= LogicalBottom(w)', LogicalBottom(w)' <= top'[w] + Capacity[w],
         \A v \in Thieves(w) : t[v] = top'[w] => top'[w] < LogicalBottom(w)',
         OwnerKnows(w)'
  PROVE  DequeInv' /\ \A v \in Workers \ {w} : LogicalBottom(v)' = LogicalBottom(v)
<1> USE DEF DequeInv
<1>1. \A v \in Workers : v \in Actors
  BY DEF Actors
<1>2. \A v \in Workers \ {w} : LogicalBottom(v)' = LogicalBottom(v)
  BY <1>1 DEF LogicalBottom, Elsewhere1
<1>3. Bounded'
  BY <1>2 DEF Bounded
<1>4. \A d \in Workers : Thieves(d)' = Thieves(d)
  BY <1>1 DEF Thieves, Writing, Popping, Elsewhere1, Busy
<1>5. OwnersKnow'
  <2> SUFFICES ASSUME NEW v \in Workers \ {w} PROVE OwnerKnows(v)'
    BY DEF OwnersKnow
  <2>1. OwnerKnows(v) /\ pc'[v] = pc[v] /\ b'[v] = b[v] /\ t'[v] = t[v] /\ item'[v] = item[v]
    BY <1>1 DEF OwnersKnow, Elsewhere1
  <2>2. \A x \in Thieves(v) : t'[x] = t[x]
    BY <1>1 DEF Thieves, Elsewhere1, Popping
  <2> QED
    BY <1>4, <2>1, <2>2 DEF OwnerKnows
<1>6. ThievesKnow'
  <2> SUFFICES ASSUME NEW v \in Workers, pc'[v] \in {"steal_bottom", "steal_read", "steal_cas"}
               PROVE  ThiefKnows(v)'
    BY DEF ThievesKnow, ThiefKnows
  <2>1. v # w /\ on[v] \in Workers /\ t[v] \in Nat
    BY <1>1 DEF Typed, Busy, Popping
  <2>2. ThiefKnows(v) /\ pc'[v] = pc[v] /\ t'[v] = t[v] /\ item'[v] = item[v] /\ on'[v] = on[v]
    BY <1>1, <2>1 DEF ThievesKnow, Elsewhere1
  <2>3. CASE on[v] # w
    BY <1>2, <2>1, <2>2, <2>3 DEF ThiefKnows
  <2>4. CASE on[v] = w
    <3>1. top[w] \in Nat /\ top'[w] \in Nat
      BY DEF Typed
    <3>2. t'[v] = top'[w] => top'[w] = top[w]
      BY <2>2, <2>4, <3>1, <2>1 DEF ThiefKnows
    <3>3. pc'[v] \in {"steal_read", "steal_cas"} => v \in Thieves(w)
      BY <2>2, <2>4 DEF Thieves
    <3> QED
      BY <2>1, <2>2, <2>4, <3>1, <3>2, <3>3 DEF ThiefKnows
  <2> QED
    BY <2>3, <2>4
<1>7. PushersKnow'
  <2> SUFFICES ASSUME NEW a \in Actors, pc'[a] \in Writing PROVE PusherKnows(a)'
    BY DEF PushersKnow, PusherKnows
  <2>1. a # w /\ on[a] \in Workers
    BY DEF Typed, Busy, Popping, Writing
  <2>2. PusherKnows(a) /\ pc'[a] = pc[a] /\ b'[a] = b[a] /\ item'[a] = item[a] /\ on'[a] = on[a] /\ on[a] # w
    BY <2>1 DEF PushersKnow, Elsewhere1
  <2>3. pc'[on[a]] \notin Popping
    BY <1>1, <2>1, <2>2 DEF PusherKnows, Elsewhere1
  <2>4. \A c \in Actors : pc'[c] \in Writing /\ on'[c] = on'[a] => c = a
    <3>1. pc'[w] \notin Writing
      BY DEF Busy, Popping, Writing
    <3> QED
      BY <2>1, <2>2, <3>1 DEF PusherKnows, Elsewhere1
  <2> QED
    BY <2>1, <2>2, <2>3, <2>4 DEF PusherKnows
<1> QED
  BY <1>2, <1>3, <1>5, <1>6, <1>7

\* While the owner pops, nobody pushes onto its deque.
LEMMA PoppingAlone ==
  ASSUME DequeInv, NEW w \in Workers, pc[w] \in Popping
  PROVE  \A a \in Actors : pc[a] \in Writing => on[a] # w
BY DEF DequeInv, PushersKnow, PusherKnows

LEMMA PopLoadDequeInv ==
  ASSUME ~overlapped', DequeInv, Typed', NEW w \in Workers, PopLoad(w)
  PROVE  DequeInv' /\ \A v \in Workers : LogicalBottom(v)' = LogicalBottom(v)
<1>1. pc[w] = "loop" /\ pc' = [pc EXCEPT ![w] = "pop_store"] /\ b' = [b EXCEPT ![w] = bottom[w] - 1]
      /\ UNCHANGED <<top, bottom, buf, clobbered, on, t, item>>
  BY DEF PopLoad, Goto, deques
<1>2. w \in Actors /\ pc'[w] = "pop_store" /\ b'[w] = bottom[w] - 1
  BY <1>1 DEF DequeInv, Typed, Actors
<1>3. \A a \in Actors : pc[a] \in Writing => on[a] # w
  BY <1>1 DEF PopLoad, Begins, Alone, GuestBusy, Writing
<1>4. LogicalBottom(w)' = bottom[w] /\ LogicalBottom(w) = bottom[w]
  BY <1>1, <1>2 DEF LogicalBottom, Popping
<1>5. Elsewhere1(w)
  BY <1>1 DEF Elsewhere1, DequeInv, Typed
<1>6. OwnerKnows(w)'
  BY <1>1, <1>2 DEF OwnerKnows, Popping
<1>7. \A v \in Thieves(w) : t[v] = top'[w] => top'[w] < LogicalBottom(w)'
  BY <1>1, <1>4 DEF Thieves, DequeInv, ThievesKnow, ThiefKnows
<1>8. top[w] <= top'[w] /\ top'[w] <= LogicalBottom(w)' /\ LogicalBottom(w)' <= top'[w] + Capacity[w]
  BY <1>1, <1>4 DEF DequeInv, Bounded, Typed
<1> QED
  BY <1>1, <1>2, <1>3, <1>4, <1>5, <1>6, <1>7, <1>8, OwnerStep DEF Popping

\* What the owner of a deque and its thieves have to do with it, in one place.
LEMMA OwnerFacts ==
  ASSUME DequeInv, NEW w \in Workers, pc[w] \in Popping
  PROVE  /\ w \in Actors /\ OwnerKnows(w) /\ \A a \in Actors : pc[a] \in Writing => on[a] # w
         /\ top[w] \in Nat /\ bottom[w] \in Int /\ b[w] \in Int /\ t[w] \in Nat /\ Capacity[w] \in Nat \ {0}
         /\ LogicalBottom(w) = IF pc[w] = "pop_store" THEN bottom[w] ELSE b[w] + 1
         /\ top[w] <= LogicalBottom(w) /\ LogicalBottom(w) <= top[w] + Capacity[w]
         /\ \A v \in Thieves(w) : /\ t[v] <= top[w] /\ t[v] \in Nat
                                  /\ t[v] = top[w] => top[w] < LogicalBottom(w)
<1> USE DEF DequeInv
<1>1. w \in Actors /\ top[w] \in Nat /\ Capacity[w] \in Nat \ {0}
  BY LogicalBottomIs DEF Actors
<1>2. bottom[w] \in Nat \cup {-1} /\ b[w] \in Nat \cup {-1} /\ t[w] \in Nat
  BY <1>1 DEF Typed
<1>3. OwnerKnows(w) /\ \A a \in Actors : pc[a] \in Writing => on[a] # w
  BY PoppingAlone DEF OwnersKnow
<1>4. LogicalBottom(w) = IF pc[w] = "pop_store" THEN bottom[w] ELSE b[w] + 1
  BY LogicalBottomIs
<1>5. top[w] <= LogicalBottom(w) /\ LogicalBottom(w) <= top[w] + Capacity[w]
  BY DEF Bounded
<1>6. \A v \in Thieves(w) : /\ t[v] <= top[w] /\ t[v] \in Nat
                            /\ t[v] = top[w] => top[w] < LogicalBottom(w)
  BY DEF Thieves, ThievesKnow, ThiefKnows, Typed, Actors
<1> QED
  BY <1>1, <1>2, <1>3, <1>4, <1>5, <1>6

LEMMA PopStoreDequeInv ==
  ASSUME DequeInv, Typed', NEW w \in Workers, PopStore(w)
  PROVE  DequeInv' /\ \A v \in Workers : LogicalBottom(v)' = LogicalBottom(v)
<1>1. pc[w] = "pop_store" /\ pc' = [pc EXCEPT ![w] = "pop_top"] /\ bottom' = [bottom EXCEPT ![w] = b[w]]
      /\ UNCHANGED <<top, buf, clobbered, on, t, item, b>>
  BY DEF PopStore, Goto, locals
<1>2. pc[w] \in Popping
  BY <1>1 DEF Popping
<1>3. w \in Actors /\ pc'[w] = "pop_top" /\ bottom'[w] = b[w] /\ b[w] = bottom[w] - 1
  BY <1>1, <1>2, OwnerFacts DEF DequeInv, Typed, OwnerKnows
<1>4. LogicalBottom(w)' = LogicalBottom(w)
  <2>1. LogicalBottom(w)' = b[w] + 1
    BY <1>1, <1>2, <1>3, OwnerFacts DEF LogicalBottom, Popping
  <2> QED
    BY <1>1, <1>2, <1>3, <2>1, OwnerFacts
<1>5. Elsewhere1(w)
  BY <1>1 DEF Elsewhere1, DequeInv, Typed
<1>6. OwnerKnows(w)'
  BY <1>1, <1>3 DEF OwnerKnows, Popping
<1>7. \A v \in Workers \ {w} : top'[v] = top[v] /\ bottom'[v] = bottom[v]
  BY <1>1 DEF DequeInv, Typed
<1> QED
  BY <1>1, <1>2, <1>3, <1>4, <1>5, <1>6, <1>7, OwnerFacts, OwnerStep DEF Popping

LEMMA PopTopDequeInv ==
  ASSUME DequeInv, Typed', NEW w \in Workers, PopTop(w)
  PROVE  DequeInv' /\ \A v \in Workers : LogicalBottom(v)' = LogicalBottom(v)
<1>1. pc[w] = "pop_top" /\ pc' = [pc EXCEPT ![w] = IF top[w] > b[w] THEN "pop_empty" ELSE "pop_read"]
      /\ t' = [t EXCEPT ![w] = top[w]] /\ UNCHANGED <<top, bottom, buf, clobbered, on, item, b>>
  BY DEF PopTop, PopEmpty, Goto, deques
<1>2. pc[w] \in Popping
  BY <1>1 DEF Popping
<1>3. w \in Actors /\ t'[w] = top[w] /\ pc'[w] = IF top[w] > b[w] THEN "pop_empty" ELSE "pop_read"
  BY <1>1, <1>2, OwnerFacts DEF DequeInv, Typed
<1>4. b[w] = bottom[w] /\ LogicalBottom(w) = b[w] + 1 /\ top[w] <= b[w] + 1
  BY <1>1, <1>2, OwnerFacts DEF OwnerKnows
<1>5. LogicalBottom(w)' = LogicalBottom(w)
  BY <1>1, <1>2, <1>3, <1>4, OwnerFacts DEF LogicalBottom, Popping
<1>6. Elsewhere1(w)
  BY <1>1 DEF Elsewhere1, DequeInv, Typed
<1>7. \A v \in Thieves(w)' : v \in Thieves(w) /\ t'[v] = t[v]
  BY <1>1, <1>3 DEF Thieves, DequeInv, Typed, Actors
<1>8. OwnerKnows(w)'
  <2>1. CASE top[w] > b[w]
    BY <1>1, <1>2, <1>3, <1>4, <2>1, OwnerFacts DEF OwnerKnows, Popping
  <2>2. CASE top[w] <= b[w]
    <3>1. t'[w] # b[w] => \A v \in Thieves(w)' : t'[v] < b[w]
      BY <1>2, <1>3, <1>7, <2>2, OwnerFacts
    <3> QED
      BY <1>1, <1>2, <1>3, <1>4, <2>2, <3>1, OwnerFacts DEF OwnerKnows, Popping
  <2> QED
    BY <1>2, <2>1, <2>2, OwnerFacts
<1> QED
  BY <1>1, <1>2, <1>3, <1>5, <1>6, <1>8, OwnerFacts, OwnerStep DEF Popping

\* The owner takes the job at the other end from the thieves.
LEMMA PopReadDequeInv ==
  ASSUME DequeInv, Typed', NEW w \in Workers, PopRead(w)
  PROVE  /\ DequeInv' /\ \A v \in Workers \ {w} : LogicalBottom(v)' = LogicalBottom(v)
         /\ LogicalBottom(w) = b[w] + 1 /\ b[w] >= 0 /\ item'[w] = buf[w][b[w] % Capacity[w]]
         /\ t[w] = b[w] => LogicalBottom(w)' = b[w] + 1
         /\ t[w] # b[w] => LogicalBottom(w)' = b[w] /\ top[w] <= b[w]
<1>1. pc[w] = "pop_read" /\ item' = [item EXCEPT ![w] = buf[w][b[w] % Capacity[w]]]
      /\ UNCHANGED <<top, bottom, buf, clobbered, on>>
  BY DEF PopRead, deques
<1>2. pc[w] \in Popping
  BY <1>1 DEF Popping
<1>3. /\ b[w] = bottom[w] /\ t[w] <= b[w] /\ t[w] <= top[w] /\ LogicalBottom(w) = b[w] + 1
      /\ t[w] # b[w] => top[w] <= b[w] /\ \A v \in Thieves(w) : t[v] < b[w]
  BY <1>1, <1>2, OwnerFacts DEF OwnerKnows, Popping
<1>4. w \in Actors /\ item'[w] = buf[w][b[w] % Capacity[w]] /\ b[w] >= 0
  BY <1>1, <1>2, <1>3, OwnerFacts DEF DequeInv, Typed
<1>5. CASE t[w] = b[w]
  <2>1. pc' = [pc EXCEPT ![w] = "pop_cas"] /\ UNCHANGED <<b, t>>
    BY <1>5 DEF PopRead, Goto
  <2>2. pc'[w] = "pop_cas"
    BY <1>4, <2>1 DEF DequeInv, Typed
  <2>3. LogicalBottom(w)' = LogicalBottom(w)
    BY <1>1, <1>2, <1>3, <2>1, <2>2, OwnerFacts DEF LogicalBottom, Popping
  <2>4. Elsewhere1(w)
    BY <1>1, <2>1 DEF Elsewhere1, DequeInv, Typed
  <2>5. OwnerKnows(w)'
    BY <1>1, <1>3, <1>4, <1>5, <2>1, <2>2 DEF OwnerKnows, Popping
  <2>6. DequeInv' /\ \A v \in Workers \ {w} : LogicalBottom(v)' = LogicalBottom(v)
    BY <1>1, <1>2, <1>4, <2>1, <2>2, <2>3, <2>4, <2>5, OwnerFacts, OwnerStep DEF Popping
  <2> QED
    BY <1>3, <1>4, <1>5, <2>3, <2>6
<1>6. CASE t[w] # b[w]
  <2>1. pc' = [pc EXCEPT ![w] = "got"] /\ b' = [b EXCEPT ![w] = 0] /\ t' = [t EXCEPT ![w] = 0]
    BY <1>6 DEF PopRead, Goto, Forget
  <2>2. pc'[w] = "got"
    BY <1>4, <2>1 DEF DequeInv, Typed
  <2>3. LogicalBottom(w)' = b[w]
    BY <1>1, <1>3, <2>2 DEF LogicalBottom, Popping
  <2>4. Elsewhere1(w)
    BY <1>1, <2>1 DEF Elsewhere1, DequeInv, Typed
  <2>5. OwnerKnows(w)'
    BY <2>2 DEF OwnerKnows, Popping
  <2>6. top[w] <= b[w] /\ \A v \in Thieves(w) : t[v] < b[w]
    BY <1>3, <1>6
  <2>7. pc'[w] \in (PC \ Busy) \cup Popping
    BY <2>2 DEF PC, Busy, Popping, Writing
  <2>8. \A v \in Thieves(w) : t[v] = top'[w] => top'[w] < LogicalBottom(w)'
    BY <1>1, <2>3, <2>6
  <2>9. top[w] <= top'[w] /\ top'[w] <= LogicalBottom(w)' /\ LogicalBottom(w)' <= top'[w] + Capacity[w]
    BY <1>1, <1>2, <1>3, <2>3, <2>6, OwnerFacts
  <2>10. DequeInv' /\ \A v \in Workers \ {w} : LogicalBottom(v)' = LogicalBottom(v)
    BY <1>1, <1>2, <2>4, <2>5, <2>7, <2>8, <2>9, OwnerFacts, OwnerStep
  <2> QED
    BY <1>3, <1>4, <1>6, <2>3, <2>6, <2>10
<1> QED
  BY <1>5, <1>6

\* Whoever advances top has the last job.
LEMMA PopCasDequeInv ==
  ASSUME DequeInv, Typed', NEW w \in Workers, PopCas(w)
  PROVE  /\ DequeInv' /\ \A v \in Workers : LogicalBottom(v)' = LogicalBottom(v)
         /\ LogicalBottom(w) = b[w] + 1 /\ b[w] \in Nat /\ item[w] = buf[w][b[w] % Capacity[w]]
         /\ \/ top[w] = b[w] /\ top' = [top EXCEPT ![w] = b[w] + 1] /\ pc'[w] = "pop_won"
            \/ UNCHANGED top /\ pc'[w] = "pop_lost"
<1>1. pc[w] = "pop_cas" /\ UNCHANGED <<bottom, buf, clobbered, on, item, b, t>>
  BY DEF PopCas, locals
<1>2. pc[w] \in Popping
  BY <1>1 DEF Popping
<1>3. /\ t[w] = b[w] /\ bottom[w] = b[w] /\ b[w] <= top[w] /\ top[w] <= b[w] + 1 /\ LogicalBottom(w) = b[w] + 1
      /\ item[w] = buf[w][b[w] % Capacity[w]] /\ b[w] \in Nat
  BY <1>1, <1>2, OwnerFacts DEF OwnerKnows, Popping
<1>4. \/ top[w] = b[w] /\ top' = [top EXCEPT ![w] = b[w] + 1] /\ pc' = [pc EXCEPT ![w] = "pop_won"]
      \/ top[w] # b[w] /\ UNCHANGED top /\ pc' = [pc EXCEPT ![w] = "pop_lost"]
  BY <1>3 DEF PopCas, Goto
<1>5. w \in Actors /\ pc'[w] \in {"pop_won", "pop_lost"}
  BY <1>2, <1>4, OwnerFacts DEF DequeInv, Typed
<1>6. top'[w] = b[w] + 1 /\ \A v \in Workers \ {w} : top'[v] = top[v] /\ bottom'[v] = bottom[v]
  <2>1. top \in [Workers -> Nat] /\ top[w] \in Nat /\ b[w] \in Nat
    BY <1>2, <1>3, OwnerFacts DEF DequeInv, Typed
  <2>2. top'[w] = b[w] + 1
    BY <1>3, <1>4, <2>1
  <2>3. \A v \in Workers \ {w} : top'[v] = top[v] /\ bottom'[v] = bottom[v]
    BY <1>1, <1>4, <2>1
  <2> QED
    BY <2>2, <2>3
<1>7. LogicalBottom(w)' = LogicalBottom(w)
  BY <1>1, <1>2, <1>3, <1>5, OwnerFacts DEF LogicalBottom, Popping
<1>8. Elsewhere1(w)
  BY <1>1, <1>4 DEF Elsewhere1, DequeInv, Typed
<1>9. OwnerKnows(w)'
  BY <1>1, <1>3, <1>5, <1>6 DEF OwnerKnows, Popping
<1>10. \A v \in Thieves(w) : t[v] # top'[w]
  BY <1>2, <1>3, <1>6, OwnerFacts
<1>11. DequeInv' /\ \A v \in Workers \ {w} : LogicalBottom(v)' = LogicalBottom(v)
  BY <1>1, <1>2, <1>3, <1>5, <1>6, <1>7, <1>8, <1>9, <1>10, OwnerFacts, OwnerStep DEF Popping
<1> QED
  BY <1>3, <1>4, <1>7, <1>11, OwnerFacts DEF DequeInv, Typed, Actors

LEMMA PopRestoreDequeInv ==
  ASSUME DequeInv, Typed', NEW w \in Workers, PopRestore(w)
  PROVE  DequeInv' /\ \A v \in Workers : LogicalBottom(v)' = LogicalBottom(v)
<1>1. pc[w] \in {"pop_empty", "pop_won", "pop_lost"} /\ bottom' = [bottom EXCEPT ![w] = b[w] + 1]
      /\ UNCHANGED <<top, buf, clobbered, on>>
  BY DEF PopRestore
<1>2. pc[w] \in Popping
  BY <1>1 DEF Popping
<1>3. LogicalBottom(w) = b[w] + 1 /\ top[w] = b[w] + 1
  BY <1>1, <1>2, OwnerFacts DEF OwnerKnows
<1>4. PICK label \in {"got", "steal", "idle"} : pc' = [pc EXCEPT ![w] = label]
  BY DEF PopRestore, Goto
<1>5. w \in Actors /\ pc'[w] \in {"got", "steal", "idle"} /\ bottom'[w] = b[w] + 1
  BY <1>1, <1>2, <1>4, OwnerFacts DEF DequeInv, Typed
<1>6. LogicalBottom(w)' = LogicalBottom(w)
  BY <1>3, <1>5 DEF LogicalBottom, Popping
<1>7. Elsewhere1(w)
  BY <1>1, <1>4 DEF PopRestore, Forget, Elsewhere1, DequeInv, Typed
<1>8. OwnerKnows(w)'
  BY <1>5 DEF OwnerKnows, Popping
<1>9. pc'[w] \in (PC \ Busy) \cup Popping
  BY <1>5 DEF PC, Busy, Popping, Writing
<1>10. \A v \in Workers \ {w} : top'[v] = top[v] /\ bottom'[v] = bottom[v]
  BY <1>1 DEF DequeInv, Typed
<1> QED
  BY <1>1, <1>2, <1>6, <1>7, <1>8, <1>9, <1>10, OwnerFacts, OwnerStep

-----------------------------------------------------------------------------
(***************************************************************************)
(* Steps of a thief.                                                       *)
(***************************************************************************)
\* The thief w comes to read an index below bottom, or goes on with its old one.
ReadsBelow(w) ==
  \A d \in Workers : w \in Thieves(d)' => \/ t'[w] < bottom[d]
                                          \/ w \in Thieves(d) /\ t'[w] = t[w]

LEMMA ThiefStep ==
  ASSUME DequeInv, Typed', NEW w \in Workers, UNCHANGED <<deques, clobbered>>, Elsewhere1(w),
         pc[w] \notin Popping \cup Writing, pc'[w] \notin Popping \cup Writing,
         ThiefKnows(w)', ReadsBelow(w)
  PROVE  DequeInv' /\ \A v \in Workers : LogicalBottom(v)' = LogicalBottom(v)
<1> USE DEF DequeInv, deques
<1>1. \A v \in Workers : v \in Actors
  BY DEF Actors
<1>2. \A v \in Workers : LogicalBottom(v)' = LogicalBottom(v)
  BY <1>1 DEF LogicalBottom, Elsewhere1
<1>3. Bounded'
  BY <1>2 DEF Bounded
<1>4. OwnersKnow'
  <2> SUFFICES ASSUME NEW d \in Workers, pc'[d] \in Popping PROVE OwnerKnows(d)'
    BY DEF OwnersKnow, OwnerKnows, Popping
  <2>1. d # w
    OBVIOUS
  <2>2. OwnerKnows(d) /\ pc'[d] = pc[d] /\ b'[d] = b[d] /\ t'[d] = t[d] /\ item'[d] = item[d]
    BY <1>1, <2>1 DEF OwnersKnow, Elsewhere1
  <2>3. pc[d] = "pop_read" /\ t[d] # b[d] => \A v \in Thieves(d)' : t'[v] < b[d]
    <3>1. ASSUME NEW v \in Thieves(d)', v # w PROVE v \in Thieves(d) /\ t'[v] = t[v]
      BY <1>1, <3>1 DEF Thieves, Elsewhere1
    <3>3. w \in Thieves(d)' => t'[w] < bottom[d] \/ (w \in Thieves(d) /\ t'[w] = t[w])
      BY DEF ReadsBelow
    <3>2. pc[d] = "pop_read" => bottom[d] = b[d]
      BY <2>2 DEF OwnerKnows, Popping
    <3> QED
      BY <2>2, <3>1, <3>2, <3>3 DEF OwnerKnows
  <2> QED
    BY <2>2, <2>3 DEF OwnerKnows
<1>5. ThievesKnow'
  <2> SUFFICES ASSUME NEW v \in Workers \ {w} PROVE ThiefKnows(v)'
    BY DEF ThievesKnow
  <2>1. ThiefKnows(v) /\ pc'[v] = pc[v] /\ t'[v] = t[v] /\ item'[v] = item[v] /\ on'[v] = on[v]
        /\ on[v] \in Workers
    BY <1>1 DEF ThievesKnow, Elsewhere1, Typed
  <2> QED
    BY <1>2, <2>1 DEF ThiefKnows
<1>6. PushersKnow'
  <2> SUFFICES ASSUME NEW a \in Actors, pc'[a] \in Writing PROVE PusherKnows(a)'
    BY DEF PushersKnow, PusherKnows
  <2>1. a # w /\ on[a] \in Workers
    BY DEF Typed
  <2>2. PusherKnows(a) /\ pc'[a] = pc[a] /\ b'[a] = b[a] /\ item'[a] = item[a] /\ on'[a] = on[a]
    BY <2>1 DEF PushersKnow, Elsewhere1
  <2>3. pc'[on[a]] \notin Popping
    BY <1>1, <2>1, <2>2 DEF PusherKnows, Elsewhere1
  <2>4. \A c \in Actors : pc'[c] \in Writing /\ on'[c] = on'[a] => c = a
    BY <2>1, <2>2 DEF PusherKnows, Elsewhere1
  <2> QED
    BY <2>1, <2>2, <2>3, <2>4 DEF PusherKnows
<1> QED
  BY <1>2, <1>3, <1>4, <1>5, <1>6

LEMMA ThiefFacts ==
  ASSUME DequeInv, NEW w \in Workers
  PROVE  /\ w \in Actors /\ on[w] \in Workers /\ t[w] \in Nat /\ ThiefKnows(w)
         /\ top[on[w]] \in Nat /\ bottom[on[w]] \in Int /\ LogicalBottom(on[w]) \in Int
         /\ bottom[on[w]] <= LogicalBottom(on[w])
<1> USE DEF DequeInv
<1>1. w \in Actors /\ on[w] \in Workers /\ t[w] \in Nat /\ ThiefKnows(w) /\ top[on[w]] \in Nat
  BY DEF ThievesKnow, Typed, Actors
<1>2. bottom[on[w]] \in Nat \cup {-1} /\ OwnerKnows(on[w])
  BY <1>1 DEF Typed, OwnersKnow
<1>3. LogicalBottom(on[w]) \in Int
  BY <1>1, LogicalBottomIs
<1>4. bottom[on[w]] <= LogicalBottom(on[w])
  <2>1. LogicalBottom(on[w]) = IF pc[on[w]] \in Popping \ {"pop_store"} THEN b[on[w]] + 1 ELSE bottom[on[w]]
    BY <1>1, LogicalBottomIs
  <2> QED
    BY <1>2, <2>1 DEF OwnerKnows
<1> QED
  BY <1>1, <1>2, <1>3, <1>4

LEMMA StealTopDequeInv ==
  ASSUME DequeInv, Typed', NEW w \in Workers, StealTop(w)
  PROVE  DequeInv' /\ \A v \in Workers : LogicalBottom(v)' = LogicalBottom(v)
<1>1. PICK d \in Workers : on' = [on EXCEPT ![w] = d] /\ t' = [t EXCEPT ![w] = top[d]]
                           /\ pc' = [pc EXCEPT ![w] = "steal_bottom"]
  BY DEF StealTop, Goto
<1>2. pc[w] = "steal" /\ UNCHANGED <<deques, clobbered, b, item>>
  BY DEF StealTop
<1>3. w \in Actors /\ on'[w] = d /\ t'[w] = top[d] /\ pc'[w] = "steal_bottom" /\ top[d] \in Nat
  BY <1>1, ThiefFacts DEF DequeInv, Typed
<1>4. ThiefKnows(w)'
  BY <1>2, <1>3 DEF ThiefKnows, deques
<1>5. ReadsBelow(w)
  BY <1>3 DEF Thieves, ReadsBelow
<1>6. Elsewhere1(w)
  BY <1>1, <1>2 DEF Elsewhere1, DequeInv, Typed
<1>7. pc[w] \notin Popping \cup Writing /\ pc'[w] \notin Popping \cup Writing
  BY <1>2, <1>3 DEF Popping, Writing
<1> QED
  BY <1>2, <1>4, <1>5, <1>6, <1>7, ThiefStep

LEMMA StealBottomDequeInv ==
  ASSUME DequeInv, Typed', NEW w \in Workers, StealBottom(w)
  PROVE  DequeInv' /\ \A v \in Workers : LogicalBottom(v)' = LogicalBottom(v)
<1> DEFINE d == on[w]
<1>1. pc[w] = "steal_bottom" /\ UNCHANGED <<deques, clobbered, on, item>>
  BY DEF StealBottom
<1>2. \/ pc' = [pc EXCEPT ![w] = "idle"] /\ b' = [b EXCEPT ![w] = 0] /\ t' = [t EXCEPT ![w] = 0]
      \/ t[w] < bottom[d] /\ pc' = [pc EXCEPT ![w] = "steal_read"] /\ UNCHANGED <<b, t>>
  BY DEF StealBottom, Goto, Forget
<1>3. w \in Actors /\ on'[w] = d /\ d \in Workers
  BY <1>1, ThiefFacts DEF DequeInv, Typed
<1>4. \/ pc'[w] = "idle"
      \/ pc'[w] = "steal_read" /\ t'[w] = t[w] /\ t[w] < bottom[d] /\ LogicalBottom(d)' = LogicalBottom(d)
  <2>1. CASE pc' = [pc EXCEPT ![w] = "idle"]
    BY <1>3, <2>1 DEF DequeInv, Typed
  <2>2. CASE t[w] < bottom[d] /\ pc' = [pc EXCEPT ![w] = "steal_read"] /\ UNCHANGED <<b, t>>
    <3>1. pc'[w] = "steal_read"
      BY <1>3, <2>2 DEF DequeInv, Typed
    <3>2. LogicalBottom(d)' = LogicalBottom(d)
      BY <1>1, <1>3, <2>2, <3>1 DEF DequeInv, Typed, LogicalBottom, Popping, deques
    <3> QED
      BY <2>2, <3>1, <3>2
  <2> QED
    BY <1>2, <2>1, <2>2
<1>5. ThiefKnows(w)'
  <2>1. CASE pc'[w] = "idle"
    BY <2>1 DEF ThiefKnows
  <2>2. CASE pc'[w] = "steal_read" /\ t'[w] = t[w] /\ t[w] < bottom[d] /\ LogicalBottom(d)' = LogicalBottom(d)
    BY <1>1, <1>3, <2>2, ThiefFacts DEF ThiefKnows, deques
  <2> QED
    BY <1>4, <2>1, <2>2
<1>6. ReadsBelow(w)
  BY <1>3, <1>4 DEF Thieves, ReadsBelow
<1>7. Elsewhere1(w)
  BY <1>1, <1>2 DEF Elsewhere1, DequeInv, Typed
<1>8. pc[w] \notin Popping \cup Writing /\ pc'[w] \notin Popping \cup Writing
  BY <1>1, <1>4 DEF Popping, Writing
<1>9. UNCHANGED <<deques, clobbered>>
  BY <1>1
<1> HIDE DEF d
<1> QED
  BY <1>5, <1>6, <1>7, <1>8, <1>9, ThiefStep

LEMMA StealReadDequeInv ==
  ASSUME DequeInv, Typed', NEW w \in Workers, StealRead(w)
  PROVE  DequeInv' /\ \A v \in Workers : LogicalBottom(v)' = LogicalBottom(v)
<1> DEFINE d == on[w]
<1>1. pc[w] = "steal_read" /\ pc' = [pc EXCEPT ![w] = "steal_cas"]
      /\ item' = [item EXCEPT ![w] = buf[d][t[w] % Capacity[d]]] /\ UNCHANGED <<deques, clobbered, on, b, t>>
  BY DEF StealRead, Goto
<1>2. w \in Actors /\ d \in Workers /\ pc'[w] = "steal_cas" /\ item'[w] = buf[d][t[w] % Capacity[d]]
  BY <1>1, ThiefFacts DEF DequeInv, Typed
<1>3. LogicalBottom(d)' = LogicalBottom(d)
  BY <1>1, <1>2 DEF DequeInv, Typed, LogicalBottom, Popping, deques
<1>4. ThiefKnows(w)'
  BY <1>1, <1>2, <1>3, ThiefFacts DEF ThiefKnows, deques
<1>5. ReadsBelow(w)
  BY <1>1 DEF Thieves, ReadsBelow
<1>7. Elsewhere1(w)
  BY <1>1 DEF Elsewhere1, DequeInv, Typed
<1>8. pc[w] \notin Popping \cup Writing /\ pc'[w] \notin Popping \cup Writing
  BY <1>1, <1>2 DEF Popping, Writing
<1> QED
  BY <1>1, <1>4, <1>5, <1>7, <1>8, ThiefStep

\* The thief that advances top has the job it read.
LEMMA StealCasDequeInv ==
  ASSUME DequeInv, Typed', NEW w \in Workers, StealCas(w)
  PROVE  /\ DequeInv' /\ \A v \in Workers : LogicalBottom(v)' = LogicalBottom(v)
         /\ \/ /\ pc'[w] = "got" /\ item'[w] = item[w] /\ top[on[w]] < LogicalBottom(on[w])
               /\ item[w] = buf[on[w]][top[on[w]] % Capacity[on[w]]]
               /\ top' = [top EXCEPT ![on[w]] = top[on[w]] + 1]
            \/ pc'[w] = "idle" /\ UNCHANGED top
<1> USE DEF DequeInv
<1> DEFINE d == on[w]
<1>1. pc[w] = "steal_cas" /\ UNCHANGED <<bottom, buf, clobbered, on>>
      /\ b' = [b EXCEPT ![w] = 0] /\ t' = [t EXCEPT ![w] = 0]
  BY DEF StealCas, Forget
<1>2. /\ w \in Actors /\ d \in Workers /\ t[w] \in Nat /\ top[d] \in Nat /\ LogicalBottom(d) \in Int
      /\ t[w] = top[d] => top[d] < LogicalBottom(d) /\ item[w] = buf[d][t[w] % Capacity[d]]
  BY <1>1, ThiefFacts DEF ThiefKnows
<1>3. \/ t[w] = top[d] /\ top' = [top EXCEPT ![d] = top[d] + 1] /\ pc' = [pc EXCEPT ![w] = "got"]
         /\ item' = item
      \/ UNCHANGED top /\ pc' = [pc EXCEPT ![w] = "idle"] /\ item' = [item EXCEPT ![w] = NULL]
  BY DEF StealCas, StealWins, Goto
<1>4. pc'[w] \in {"got", "idle"} /\ Elsewhere1(w)
  BY <1>1, <1>2, <1>3 DEF Typed, Elsewhere1
<1>5. \A v \in Workers : v \in Actors
  BY DEF Actors
<1>6. \A v \in Workers : LogicalBottom(v)' = LogicalBottom(v)
  BY <1>1, <1>4, <1>5 DEF LogicalBottom, Elsewhere1, Popping
<1>7. \A v \in Workers : top'[v] = top[v] \/ (v = d /\ t[w] = top[d] /\ top'[v] = top[v] + 1)
  BY SMTT(30), <1>2, <1>3 DEF Typed
<1>8. Bounded'
  <2> SUFFICES ASSUME NEW v \in Workers
               PROVE  top'[v] <= LogicalBottom(v)' /\ LogicalBottom(v)' <= top'[v] + Capacity[v]
    BY DEF Bounded
  <2>1. top[v] <= LogicalBottom(v) /\ LogicalBottom(v) <= top[v] + Capacity[v]
        /\ LogicalBottom(v) \in Int /\ top[v] \in Nat /\ Capacity[v] \in Nat \ {0}
    BY LogicalBottomIs DEF Bounded
  <2> QED
    BY <1>2, <1>6, <1>7, <2>1
<1>9. OwnersKnow'
  <2> SUFFICES ASSUME NEW v \in Workers, pc'[v] \in Popping PROVE OwnerKnows(v)'
    BY DEF OwnersKnow, OwnerKnows, Popping
  <2>1. v # w
    BY <1>4 DEF Popping
  <2>2. OwnerKnows(v) /\ pc'[v] = pc[v] /\ b'[v] = b[v] /\ t'[v] = t[v] /\ item'[v] = item[v]
    BY <1>4, <1>5, <2>1 DEF OwnersKnow, Elsewhere1
  <2>3. Thieves(v)' \subseteq Thieves(v) /\ \A x \in Thieves(v)' : t'[x] = t[x]
    BY <1>1, <1>4, <1>5 DEF Thieves, Elsewhere1
  <2>4. top'[v] \in Nat /\ top[v] \in Nat /\ top[v] <= top'[v] /\ b[v] \in Int /\ t[v] \in Nat
    <3>1. top[v] \in Nat /\ b[v] \in Int /\ t[v] \in Nat
      BY <2>2, OwnerFacts
    <3> QED
      BY <1>2, <1>7, <3>1
  <2>5. pc[v] \in {"pop_empty", "pop_won", "pop_lost"} => top'[v] = top[v]
    <3>1. LogicalBottom(v) = IF pc[v] = "pop_store" THEN bottom[v] ELSE b[v] + 1
      BY <2>2, OwnerFacts
    <3> QED
      BY <1>2, <1>7, <2>2, <2>4, <3>1 DEF OwnerKnows
  <2>6. pc[v] = "pop_read" /\ t[v] # b[v] => top'[v] <= b[v]
    <3>1. d = v => w \in Thieves(v)
      BY <1>1 DEF Thieves
    <3> QED
      BY <1>2, <1>7, <2>2, <2>4, <3>1 DEF OwnerKnows
  <2> QED
    BY <1>1, <2>2, <2>3, <2>4, <2>5, <2>6 DEF OwnerKnows
<1>10. ThievesKnow'
  <2> SUFFICES ASSUME NEW v \in Workers, pc'[v] \in {"steal_bottom", "steal_read", "steal_cas"}
               PROVE  ThiefKnows(v)'
    BY DEF ThievesKnow, ThiefKnows
  <2>1. v # w
    BY <1>4
  <2>2. ThiefKnows(v) /\ pc'[v] = pc[v] /\ t'[v] = t[v] /\ item'[v] = item[v] /\ on'[v] = on[v]
        /\ on[v] \in Workers /\ t[v] \in Nat /\ top[on[v]] \in Nat
    BY <1>1, <1>4, <1>5, <2>1 DEF ThievesKnow, Elsewhere1, Typed
  <2> QED
    BY <1>1, <1>2, <1>6, <1>7, <2>2 DEF ThiefKnows
<1>11. PushersKnow'
  <2> SUFFICES ASSUME NEW a \in Actors, pc'[a] \in Writing PROVE PusherKnows(a)'
    BY DEF PushersKnow, PusherKnows
  <2>1. a # w /\ on[a] \in Workers
    BY <1>4 DEF Typed, Writing
  <2>2. PusherKnows(a) /\ pc'[a] = pc[a] /\ b'[a] = b[a] /\ item'[a] = item[a] /\ on'[a] = on[a]
    BY <1>4, <2>1 DEF PushersKnow, Elsewhere1
  <2>3. pc'[on[a]] \notin Popping
    BY <1>4, <1>5, <2>1, <2>2 DEF PusherKnows, Elsewhere1, Popping
  <2>4. \A c \in Actors : pc'[c] \in Writing /\ on'[c] = on'[a] => c = a
    <3>1. pc'[w] \notin Writing
      BY <1>4 DEF Writing
    <3> QED
      BY <1>1, <1>4, <2>1, <2>2, <3>1 DEF PusherKnows, Elsewhere1
  <2>5. b[a] < top'[on[a]] + Capacity[on[a]]
    <3>1. top[on[a]] \in Nat /\ Capacity[on[a]] \in Nat /\ b[a] < top[on[a]] + Capacity[on[a]]
      BY <2>1, <2>2, LogicalBottomIs DEF PusherKnows
    <3>2. b[a] \in Nat \cup {-1}
      BY DEF Typed
    <3> QED
      BY <1>2, <1>7, <2>1, <3>1, <3>2
  <2> QED
    BY <1>1, <2>1, <2>2, <2>3, <2>4, <2>5 DEF PusherKnows
<1>12. DequeInv'
  BY <1>1, <1>8, <1>9, <1>10, <1>11
<1>13. CASE t[w] = top[d] /\ top' = [top EXCEPT ![d] = top[d] + 1] /\ pc' = [pc EXCEPT ![w] = "got"]
            /\ item' = item
  <2>1. pc'[w] = "got"
    BY <1>2, <1>13 DEF Typed
  <2> QED
    BY <1>2, <1>6, <1>12, <1>13, <2>1
<1>14. CASE UNCHANGED top /\ pc' = [pc EXCEPT ![w] = "idle"]
  <2>1. pc'[w] = "idle"
    BY <1>2, <1>14 DEF Typed
  <2> QED
    BY <1>6, <1>12, <1>14, <2>1
<1> QED
  BY <1>3, <1>13, <1>14

-----------------------------------------------------------------------------
(***************************************************************************)
(* Steps of a push.                                                        *)
(***************************************************************************)
LEMMA PusherFacts ==
  ASSUME DequeInv, NEW a \in Actors, pc[a] \in Writing
  PROVE  /\ on[a] \in Workers /\ on[a] \in Actors /\ PusherKnows(a) /\ pc[on[a]] \notin Popping
         /\ b[a] = bottom[on[a]] /\ b[a] \in Nat /\ LogicalBottom(on[a]) = b[a]
         /\ top[on[a]] \in Nat /\ Capacity[on[a]] \in Nat \ {0}
         /\ top[on[a]] <= b[a] /\ b[a] < top[on[a]] + Capacity[on[a]]
<1> USE DEF DequeInv
<1>1. on[a] \in Workers /\ on[a] \in Actors /\ PusherKnows(a)
  BY DEF Typed, PushersKnow, Actors
<1>2. pc[on[a]] \notin Popping /\ b[a] = bottom[on[a]] /\ b[a] < top[on[a]] + Capacity[on[a]]
  BY <1>1 DEF PusherKnows
<1>3. LogicalBottom(on[a]) = bottom[on[a]] /\ top[on[a]] \in Nat /\ Capacity[on[a]] \in Nat \ {0}
  BY <1>1, <1>2, LogicalBottomIs
<1>4. top[on[a]] <= b[a] /\ b[a] \in Nat \cup {-1}
  BY <1>1, <1>2, <1>3 DEF Bounded, Typed
<1> QED
  BY <1>1, <1>2, <1>3, <1>4

LEMMA PushLoadDequeInv ==
  ASSUME ~overlapped', DequeInv, Typed', NEW a \in Actors, PushLoad(a)
  PROVE  DequeInv' /\ \A v \in Workers : LogicalBottom(v)' = LogicalBottom(v)
<1> USE DEF DequeInv
<1> DEFINE d == on[a]
<1>1. pc[a] = "push_load" /\ UNCHANGED <<deques, clobbered, t, item>> /\ Alone(a, d)
  BY DEF PushLoad, Begins
<1>2. d \in Workers /\ d \in Actors
  BY DEF Typed, Actors
<1>3. CASE Full(d)
  <2>1. \E label \in {"push_load", "dedicate"} : pc' = [pc EXCEPT ![a] = label]
    BY <1>1, <1>3 DEF PushLoad, Goto, Typed
  <2>2. UNCHANGED b /\ \A x \in Actors \ {a} : on'[x] = on[x]
    BY <1>3 DEF PushLoad, Typed
  <2>3. \A x \in Actors : \/ pc[x] \notin Busy /\ pc'[x] \notin Busy
                          \/ pc'[x] = pc[x] /\ b'[x] = b[x] /\ t'[x] = t[x]
                             /\ item'[x] = item[x] /\ on'[x] = on[x]
    BY <1>1, <2>1, <2>2 DEF Busy, Popping, Writing, Typed
  <2> QED
    BY <1>1, <2>3, Elsewhere
<1>4. CASE ~Full(d)
  <2>1. b' = [b EXCEPT ![a] = bottom[d]] /\ pc' = [pc EXCEPT ![a] = "push_write"] /\ UNCHANGED on
    BY <1>4 DEF PushLoad, Goto
  <2>2. b'[a] = bottom[d] /\ pc'[a] = "push_write" /\ Elsewhere1(a)
    BY <1>1, <2>1 DEF Typed, Elsewhere1
  <2>3. \A v \in Workers : v \in Actors
    BY DEF Actors
  <2>4. \A v \in Workers : LogicalBottom(v)' = LogicalBottom(v)
    BY <1>1, <2>2, <2>3 DEF LogicalBottom, Elsewhere1, Popping, deques
  <2>5. Bounded'
    BY <1>1, <2>4 DEF Bounded, deques
  <2>6. OwnersKnow'
    <3> SUFFICES ASSUME NEW v \in Workers, pc'[v] \in Popping PROVE OwnerKnows(v)'
      BY DEF OwnersKnow, OwnerKnows, Popping
    <3>1. v # a
      BY <2>2 DEF Popping
    <3>2. OwnerKnows(v) /\ pc'[v] = pc[v] /\ b'[v] = b[v] /\ t'[v] = t[v] /\ item'[v] = item[v]
      BY <2>2, <2>3, <3>1 DEF OwnersKnow, Elsewhere1
    <3>3. Thieves(v)' = Thieves(v)
      BY <1>1, <2>1, <2>2, <2>3 DEF Thieves, Elsewhere1
    <3> QED
      BY <1>1, <3>2, <3>3 DEF OwnerKnows, deques
  <2>7. ThievesKnow'
    <3> SUFFICES ASSUME NEW v \in Workers, pc'[v] \in {"steal_bottom", "steal_read", "steal_cas"}
                 PROVE  ThiefKnows(v)'
      BY DEF ThievesKnow, ThiefKnows
    <3>1. v # a
      BY <2>2
    <3>2. ThiefKnows(v) /\ pc'[v] = pc[v] /\ t'[v] = t[v] /\ item'[v] = item[v] /\ on'[v] = on[v]
          /\ on[v] \in Workers
      BY <2>1, <2>2, <2>3, <3>1 DEF ThievesKnow, Elsewhere1, Typed
    <3> QED
      BY <1>1, <2>4, <3>2 DEF ThiefKnows, deques
  <2>8. PushersKnow'
    <3>1. \A c \in Actors : pc[c] \in Writing => on[c] # d
      <4> SUFFICES ASSUME NEW c \in Actors, pc[c] \in Writing, on[c] = d PROVE FALSE
        OBVIOUS
      <4>1. CASE c # d
        BY <1>1, <4>1 DEF Alone, GuestBusy, Writing
      <4>2. CASE c = d
        BY <1>1, <4>2 DEF Alone, OwnerBusy, Writing, Pushing
      <4> QED
        BY <4>1, <4>2
    <3>2. pc[d] \notin Popping
      BY <1>1 DEF Alone, OwnerBusy, Popping
    <3>3. bottom[d] < top[d] + Capacity[d]
      <4>1. bottom[d] \in Nat \cup {-1} /\ top[d] \in Nat /\ Capacity[d] \in Nat
        BY <1>2, LogicalBottomIs DEF Typed
      <4> QED
        BY <1>4, <4>1 DEF Full
    <3>4. PusherKnows(a)'
      <4>1. pc'[d] \notin Popping
        BY <1>2, <2>2, <3>2 DEF Elsewhere1, Popping
      <4>2. \A c \in Actors : pc'[c] \in Writing /\ on'[c] = d => c = a
        BY <2>1, <2>2, <3>1 DEF Elsewhere1
      <4> QED
        BY <1>1, <2>1, <2>2, <3>3, <4>1, <4>2 DEF PusherKnows, deques
    <3>5. ASSUME NEW c \in Actors \ {a}, pc'[c] \in Writing PROVE PusherKnows(c)'
      <4>1. PusherKnows(c) /\ pc'[c] = pc[c] /\ b'[c] = b[c] /\ item'[c] = item[c] /\ on'[c] = on[c]
            /\ on[c] # d /\ on[c] \in Workers
        BY <2>1, <2>2, <3>1, <3>5 DEF PushersKnow, Elsewhere1, Typed
      <4>2. pc'[on[c]] \notin Popping
        BY <2>2, <2>3, <3>5, <4>1 DEF PusherKnows, Elsewhere1, Popping
      <4>3. \A x \in Actors : pc'[x] \in Writing /\ on'[x] = on[c] => x = c
        BY <2>1, <2>2, <3>5, <4>1 DEF PusherKnows, Elsewhere1
      <4> QED
        BY <1>1, <3>5, <4>1, <4>2, <4>3 DEF PusherKnows, deques
    <3> QED
      BY <3>4, <3>5 DEF PushersKnow, PusherKnows
  <2> QED
    BY <1>1, <2>4, <2>5, <2>6, <2>7, <2>8
<1> QED
  BY <1>3, <1>4

\* The slot that is written is none of those whose jobs are there to take.
LEMMA PushWriteDequeInv ==
  ASSUME DequeInv, Typed', NEW a \in Actors, PushWrite(a)
  PROVE  /\ DequeInv' /\ \A v \in Workers : LogicalBottom(v)' = LogicalBottom(v)
         /\ UNCHANGED top
         /\ \A v \in Workers : \A i \in Indices(v) : buf'[v][i % Capacity[v]] = buf[v][i % Capacity[v]]
<1> USE DEF DequeInv
<1> DEFINE d == on[a]
           slot == b[a] % Capacity[d]
<1>1. pc[a] = "push_write" /\ pc' = [pc EXCEPT ![a] = "push_publish"]
      /\ UNCHANGED <<top, bottom, b, t, item, on>>
  BY DEF PushWrite, Goto, locals
<1>2. /\ d \in Workers /\ d \in Actors /\ PusherKnows(a) /\ pc[d] \notin Popping
      /\ b[a] = bottom[d] /\ b[a] \in Nat /\ LogicalBottom(d) = b[a]
      /\ top[d] \in Nat /\ Capacity[d] \in Nat \ {0}
      /\ top[d] <= b[a] /\ b[a] < top[d] + Capacity[d]
  BY <1>1, PusherFacts DEF Writing
<1>3. buf' = [buf EXCEPT ![d][slot] = item[a]] /\ UNCHANGED clobbered
  BY <1>2 DEF PushWrite
<1>4. slot \in 0 .. Capacity[d] - 1 /\ buf[d] \in [0 .. Capacity[d] - 1 -> Jobs \cup {NULL}] /\ DOMAIN buf = Workers
  <2>1. slot \in 0 .. Capacity[d] - 1
    <3>1. b[a] \in Int /\ Capacity[d] \in Nat \ {0}
      BY <1>2
    <3> HIDE DEF d
    <3> QED
      BY <3>1, ModRange
  <2>2. buf[d] \in [0 .. Capacity[d] - 1 -> Jobs \cup {NULL}] /\ DOMAIN buf = Workers
    BY <1>2 DEF Typed
  <2> QED
    BY <2>1, <2>2
<1>5. /\ buf'[d][slot] = item[a] /\ \A v \in Workers \ {d} : buf'[v] = buf[v]
      /\ \A k \in 0 .. Capacity[d] - 1 : k # slot => buf'[d][k] = buf[d][k]
  BY <1>2, <1>3, <1>4
<1>6. ASSUME NEW i \in Int, top[d] <= i, i < b[a]
      PROVE  buf'[d][i % Capacity[d]] = buf[d][i % Capacity[d]]
  <2>1. i % Capacity[d] # slot
    <3> DEFINE c == Capacity[d]
               j == b[a]
    <3>1. c \in Nat \ {0} /\ j \in Int /\ i < j /\ j < i + c
      <4>1. top[d] \in Nat /\ c \in Nat /\ j \in Nat /\ j < top[d] + c /\ top[d] <= i /\ i \in Int
        BY <1>2, <1>6
      <4> HIDE DEF c, j, d
      <4> QED
        BY <1>2, <1>6, <4>1 DEF c, j
    <3>2. \A m \in Int, n \in Nat \ {0} : i < m /\ m < i + n => i % n # m % n
      BY ModApart
    <3> HIDE DEF c, j
    <3>3. i % c # j % c
      BY <3>1, <3>2
    <3> QED
      BY <3>3 DEF c, j
  <2>2. i % Capacity[d] \in 0 .. Capacity[d] - 1
    BY <1>2, ModRange
  <2> HIDE DEF d, slot
  <2> QED
    BY <1>5, <2>1, <2>2
<1>7. pc'[a] = "push_publish" /\ Elsewhere1(a) /\ \A v \in Workers : v \in Actors
  BY <1>1 DEF Typed, Elsewhere1, Actors
<1>8. \A v \in Workers : LogicalBottom(v)' = LogicalBottom(v)
  BY <1>1, <1>7 DEF LogicalBottom, Elsewhere1, Popping
<1>9. Bounded'
  BY <1>1, <1>8 DEF Bounded
<1>10. OwnersKnow'
  <2> SUFFICES ASSUME NEW v \in Workers, pc'[v] \in Popping PROVE OwnerKnows(v)'
    BY DEF OwnersKnow, OwnerKnows, Popping
  <2>1. v # a
    BY <1>7 DEF Popping
  <2>2. OwnerKnows(v) /\ pc'[v] = pc[v] /\ b'[v] = b[v] /\ t'[v] = t[v] /\ item'[v] = item[v]
    BY <1>7, <2>1 DEF OwnersKnow, Elsewhere1
  <2>3. Thieves(v)' = Thieves(v)
    BY <1>1, <1>7 DEF Thieves, Elsewhere1
  <2>4. buf'[v] = buf[v]
    BY <1>2, <1>5, <2>2
  <2> QED
    BY <1>1, <2>2, <2>3, <2>4 DEF OwnerKnows
<1>11. ThievesKnow'
  <2> SUFFICES ASSUME NEW v \in Workers, pc'[v] \in {"steal_bottom", "steal_read", "steal_cas"}
               PROVE  ThiefKnows(v)'
    BY DEF ThievesKnow, ThiefKnows
  <2>1. v # a
    BY <1>7
  <2>2. ThiefKnows(v) /\ pc'[v] = pc[v] /\ t'[v] = t[v] /\ item'[v] = item[v] /\ on'[v] = on[v]
        /\ on[v] \in Workers /\ t[v] \in Nat
    BY <1>1, <1>7, <2>1 DEF ThievesKnow, Elsewhere1, Typed
  <2>3. pc[v] = "steal_cas" /\ t[v] = top[on[v]] =>
          buf'[on[v]][t[v] % Capacity[on[v]]] = buf[on[v]][t[v] % Capacity[on[v]]]
    BY SMTT(30), <1>2, <1>5, <1>6, <2>2 DEF ThiefKnows
  <2> QED
    BY <1>1, <1>8, <2>2, <2>3 DEF ThiefKnows
<1>12. PushersKnow'
  <2>1. PusherKnows(a)'
    <3>1. pc'[d] \notin Popping
      BY <1>2, <1>7 DEF Elsewhere1, Popping
    <3>2. \A c \in Actors : pc'[c] \in Writing /\ on'[c] = d => c = a
      BY <1>1, <1>2, <1>7 DEF Elsewhere1, PusherKnows, Writing
    <3> QED
      BY <1>1, <1>2, <1>5, <1>7, <3>1, <3>2 DEF PusherKnows
  <2>2. ASSUME NEW c \in Actors \ {a}, pc'[c] \in Writing PROVE PusherKnows(c)'
    <3>1. PusherKnows(c) /\ pc'[c] = pc[c] /\ b'[c] = b[c] /\ item'[c] = item[c] /\ on'[c] = on[c]
          /\ on[c] \in Workers
      BY <1>1, <1>7, <2>2 DEF PushersKnow, Elsewhere1, Typed
    <3>2. on[c] # d
      BY <1>1, <1>2, <2>2, <3>1 DEF PusherKnows, Writing
    <3>3. pc'[on[c]] \notin Popping
      BY <1>7, <2>2, <3>1 DEF PusherKnows, Elsewhere1, Popping
    <3>4. \A x \in Actors : pc'[x] \in Writing /\ on'[x] = on[c] => x = c
      BY <1>1, <1>7, <2>2, <3>1, <3>2 DEF PusherKnows, Elsewhere1
    <3> QED
      BY <1>1, <1>5, <2>2, <3>1, <3>2, <3>3, <3>4 DEF PusherKnows
  <2> QED
    BY <2>1, <2>2 DEF PushersKnow, PusherKnows
<1>13. \A v \in Workers : \A i \in Indices(v) : buf'[v][i % Capacity[v]] = buf[v][i % Capacity[v]]
  <2> SUFFICES ASSUME NEW v \in Workers, NEW i \in Indices(v)
               PROVE  buf'[v][i % Capacity[v]] = buf[v][i % Capacity[v]]
    OBVIOUS
  <2>1. CASE v # d
    BY <1>5, <2>1
  <2>2. CASE v = d
    <3>1. i \in Int /\ top[d] <= i /\ i < b[a]
      BY <1>2, <2>2 DEF Indices
    <3> QED
      BY <1>6, <2>2, <3>1
  <2> QED
    BY <2>1, <2>2
<1> QED
  BY <1>1, <1>3, <1>8, <1>9, <1>10, <1>11, <1>12, <1>13

LEMMA PushPublishDequeInv ==
  ASSUME DequeInv, Typed', NEW a \in Actors, PushPublish(a)
  PROVE  /\ DequeInv' /\ \A v \in Workers \ {on[a]} : LogicalBottom(v)' = LogicalBottom(v)
         /\ UNCHANGED <<top, buf>> /\ on[a] \in Workers
         /\ b[a] \in Nat /\ LogicalBottom(on[a]) = b[a] /\ LogicalBottom(on[a])' = b[a] + 1
         /\ top[on[a]] <= b[a] /\ top[on[a]] \in Nat
         /\ buf[on[a]][b[a] % Capacity[on[a]]] = item[a]
<1> USE DEF DequeInv
<1> DEFINE d == on[a]
<1>1. pc[a] = "push_publish" /\ pc' = [pc EXCEPT ![a] = "pend"] /\ bottom' = [bottom EXCEPT ![d] = b[a] + 1]
      /\ UNCHANGED <<top, buf, on, clobbered>>
  BY DEF PushPublish, Goto
<1>2. /\ d \in Workers /\ d \in Actors /\ PusherKnows(a) /\ pc[d] \notin Popping
      /\ b[a] = bottom[d] /\ b[a] \in Nat /\ LogicalBottom(d) = b[a]
      /\ top[d] \in Nat /\ Capacity[d] \in Nat \ {0}
      /\ top[d] <= b[a] /\ b[a] < top[d] + Capacity[d]
  BY <1>1, PusherFacts DEF Writing
<1>3. buf[d][b[a] % Capacity[d]] = item[a]
  BY <1>1, <1>2 DEF PusherKnows, Writing
<1>4. pc'[a] = "pend" /\ Elsewhere1(a) /\ \A v \in Workers : v \in Actors
  BY <1>1 DEF PushPublish, Forget, Typed, Elsewhere1, Actors
<1>5. bottom'[d] = b[a] + 1 /\ \A v \in Workers \ {d} : bottom'[v] = bottom[v]
  BY <1>1, <1>2 DEF Typed
<1>6. pc'[d] \notin Popping
  BY <1>2, <1>4 DEF Elsewhere1, Popping
<1>7. LogicalBottom(d)' = b[a] + 1
  <2>1. on'[a] = on[a]
    BY <1>1
  <2>2. pc'[on[a]] \notin Popping \ {"pop_store"} /\ bottom'[on[a]] = b[a] + 1
    BY <1>5, <1>6
  <2> QED
    BY <2>1, <2>2 DEF LogicalBottom
<1>8. \A v \in Workers \ {d} : LogicalBottom(v)' = LogicalBottom(v)
  <2> SUFFICES ASSUME NEW v \in Workers \ {d} PROVE LogicalBottom(v)' = LogicalBottom(v)
    OBVIOUS
  <2>1. bottom'[v] = bottom[v]
    BY <1>5
  <2>2. CASE v = a
    <3>1. pc[v] \notin Popping /\ pc'[v] \notin Popping
      BY <1>1, <1>4, <2>2 DEF Popping
    <3> HIDE DEF d
    <3> QED
      BY <2>1, <3>1 DEF LogicalBottom
  <2>3. CASE v # a
    <3>1. pc'[v] = pc[v] /\ b'[v] = b[v]
      BY <1>4, <2>3 DEF Elsewhere1
    <3> HIDE DEF d
    <3> QED
      BY <2>1, <3>1 DEF LogicalBottom
  <2> QED
    BY <2>2, <2>3
<1>9. Bounded'
  BY <1>1, <1>2, <1>7, <1>8 DEF Bounded
<1>10. OwnersKnow'
  <2> SUFFICES ASSUME NEW v \in Workers, pc'[v] \in Popping PROVE OwnerKnows(v)'
    BY DEF OwnersKnow, OwnerKnows, Popping
  <2>1. v # a /\ v # d
    BY <1>4, <1>6 DEF Popping
  <2>2. OwnerKnows(v) /\ pc'[v] = pc[v] /\ b'[v] = b[v] /\ t'[v] = t[v] /\ item'[v] = item[v]
    BY <1>4, <2>1 DEF OwnersKnow, Elsewhere1
  <2>3. Thieves(v)' = Thieves(v) /\ \A x \in Thieves(v) : t'[x] = t[x]
    BY <1>1, <1>4 DEF Thieves, Elsewhere1
  <2> QED
    BY <1>1, <1>5, <2>1, <2>2, <2>3 DEF OwnerKnows
<1>11. ThievesKnow'
  <2> SUFFICES ASSUME NEW v \in Workers, pc'[v] \in {"steal_bottom", "steal_read", "steal_cas"}
               PROVE  ThiefKnows(v)'
    BY DEF ThievesKnow, ThiefKnows
  <2>1. v # a
    BY <1>4
  <2>2. ThiefKnows(v) /\ pc'[v] = pc[v] /\ t'[v] = t[v] /\ item'[v] = item[v] /\ on'[v] = on[v]
        /\ on[v] \in Workers /\ t[v] \in Nat
    BY <1>1, <1>4, <2>1 DEF ThievesKnow, Elsewhere1, Typed
  <2>3. on[v] = d => top[d] < b[a] + 1
    BY <1>2
  <2> QED
    BY <1>1, <1>7, <1>8, <2>2, <2>3 DEF ThiefKnows
<1>12. PushersKnow'
  <2> SUFFICES ASSUME NEW c \in Actors, pc'[c] \in Writing PROVE PusherKnows(c)'
    BY DEF PushersKnow, PusherKnows
  <2>1. c # a
    BY <1>4 DEF Writing
  <2>2. PusherKnows(c) /\ pc'[c] = pc[c] /\ b'[c] = b[c] /\ item'[c] = item[c] /\ on'[c] = on[c]
        /\ on[c] \in Workers
    BY <1>1, <1>4, <2>1 DEF PushersKnow, Elsewhere1, Typed
  <2>3. on[c] # d
    BY <1>1, <1>2, <2>1, <2>2 DEF PusherKnows, Writing
  <2>4. pc'[on[c]] \notin Popping
    BY <1>4, <2>2 DEF PusherKnows, Elsewhere1, Popping
  <2>5. \A x \in Actors : pc'[x] \in Writing /\ on'[x] = on[c] => x = c
    <3>1. pc'[a] \notin Writing
      BY <1>4 DEF Writing
    <3> QED
      BY <1>1, <1>4, <2>2, <3>1 DEF PusherKnows, Elsewhere1
  <2> QED
    BY <1>1, <1>5, <2>2, <2>3, <2>4, <2>5 DEF PusherKnows
<1> QED
  BY <1>1, <1>2, <1>3, <1>7, <1>8, <1>9, <1>10, <1>11, <1>12

-----------------------------------------------------------------------------
(***************************************************************************)
(* Every step keeps the types.                                             *)
(***************************************************************************)
LEMMA WorkerTyped ==
  ASSUME DequeInv, HistoryTyped, NEW w \in Workers, WorkerStep(w)
  PROVE  Typed'
<1> USE DEF DequeInv
<1>1. w \in Actors /\ top[w] \in Nat /\ bottom[w] \in Nat \cup {-1} /\ b[w] \in Nat \cup {-1}
      /\ t[w] \in Nat /\ on[w] \in Workers /\ Capacity[w] \in Nat \ {0} /\ N \in Nat \ {0}
  BY LogicalBottomIs, NAssumption DEF Typed, Actors
<1>2. \A v \in Workers, i \in Nat \cup {-1} : buf[v][i % Capacity[v]] \in Jobs \cup {NULL}
  <2> SUFFICES ASSUME NEW v \in Workers, NEW i \in Nat \cup {-1} PROVE buf[v][i % Capacity[v]] \in Jobs \cup {NULL}
    OBVIOUS
  <2>1. i \in Int /\ Capacity[v] \in Nat \ {0}
    BY LogicalBottomIs
  <2>2. i % Capacity[v] \in 0 .. Capacity[v] - 1
    BY <2>1, ModRange
  <2> QED
    BY <2>2 DEF Typed
<1>3. CASE PopLoad(w)
  <2>1. bottom[w] - 1 \in Nat \cup {-1}
    <3>1. LogicalBottom(w) = bottom[w]
      BY <1>3 DEF PopLoad, LogicalBottom, Popping
    <3>2. top[w] <= LogicalBottom(w)
      BY DEF Bounded
    <3> QED
      BY <1>1, <3>1, <3>2
  <2> QED
    BY <1>1, <1>3, <2>1 DEF PopLoad, Goto, deques, Typed, PC, Popping
<1>4. CASE PopStore(w)
  BY <1>1, <1>4 DEF PopStore, Goto, locals, Typed, PC, Popping
<1>5. CASE PopTop(w)
  BY <1>1, <1>5 DEF PopTop, Goto, deques, Typed, PC, Popping
<1>6. CASE PopRead(w)
  <2>1. buf[w][b[w] % Capacity[w]] \in Jobs \cup {NULL}
    BY <1>1, <1>2
  <2>2. UNCHANGED <<top, bottom, buf, pending, on, tries, rr>>
    BY <1>6 DEF PopRead, deques
  <2>3. item' \in [Actors -> Jobs \cup {NULL}]
    BY <1>6, <2>1 DEF PopRead, Typed
  <2>4. b' \in [Actors -> Nat \cup {-1}] /\ t' \in [Actors -> Nat]
    <3>1. UNCHANGED <<b, t>> \/ (b' = [b EXCEPT ![w] = 0] /\ t' = [t EXCEPT ![w] = 0])
      BY <1>6 DEF PopRead, Forget
    <3>2. b \in [Actors -> Nat \cup {-1}] /\ t \in [Actors -> Nat] /\ w \in Actors
      BY <1>1 DEF Typed
    <3>3. CASE UNCHANGED <<b, t>>
      BY <3>2, <3>3
    <3>4. CASE b' = [b EXCEPT ![w] = 0] /\ t' = [t EXCEPT ![w] = 0]
      BY <3>2, <3>4
    <3> QED
      BY <3>1, <3>3, <3>4
  <2>5. pc' \in [Actors -> PC]
    BY <1>6 DEF PopRead, Goto, Typed, PC, Popping
  <2> QED
    BY <2>2, <2>3, <2>4, <2>5 DEF Typed
<1>7. CASE PopCas(w)
  <2>1. UNCHANGED <<bottom, buf, pending, b, t, item, on, tries, rr>>
    BY <1>7 DEF PopCas, locals
  <2>2. t[w] + 1 \in Nat
    BY <1>1
  <2>3. top' \in [Workers -> Nat]
    BY <1>7, <2>2 DEF PopCas, Typed
  <2>4. pc' \in [Actors -> PC]
    BY <1>7 DEF PopCas, Goto, Typed, PC, Popping
  <2> QED
    BY <2>1, <2>3, <2>4 DEF Typed
<1>8. CASE PopRestore(w)
  <2>1. b[w] + 1 \in Nat
    BY <1>1
  <2>2. UNCHANGED <<top, buf, pending, on, tries, rr>>
    BY <1>8 DEF PopRestore
  <2>3. bottom' \in [Workers -> Nat \cup {-1}] /\ item' \in [Actors -> Jobs \cup {NULL}]
    BY <1>8, <2>1 DEF PopRestore, Typed
  <2>4. b' \in [Actors -> Nat \cup {-1}] /\ t' \in [Actors -> Nat]
    BY <1>8 DEF PopRestore, Forget, Typed
  <2>5. pc' \in [Actors -> PC]
    BY <1>8 DEF PopRestore, Goto, Typed, PC, Popping
  <2> QED
    BY <2>2, <2>3, <2>4, <2>5 DEF Typed
<1>9. CASE StealTop(w)
  BY <1>1, <1>9 DEF StealTop, Goto, deques, Typed, PC
<1>10. CASE StealBottom(w)
  <2>1. UNCHANGED <<top, bottom, buf, pending, item, on, tries, rr>>
    BY <1>10 DEF StealBottom, deques
  <2>2. b' \in [Actors -> Nat \cup {-1}] /\ t' \in [Actors -> Nat]
    <3>1. UNCHANGED <<b, t>> \/ (b' = [b EXCEPT ![w] = 0] /\ t' = [t EXCEPT ![w] = 0])
      BY <1>10 DEF StealBottom, Forget
    <3>2. b \in [Actors -> Nat \cup {-1}] /\ t \in [Actors -> Nat] /\ w \in Actors
      BY <1>1 DEF Typed
    <3>3. CASE UNCHANGED <<b, t>>
      BY <3>2, <3>3
    <3>4. CASE b' = [b EXCEPT ![w] = 0] /\ t' = [t EXCEPT ![w] = 0]
      BY <3>2, <3>4
    <3> QED
      BY <3>1, <3>3, <3>4
  <2>3. pc' \in [Actors -> PC]
    BY <1>10 DEF StealBottom, Goto, Typed, PC
  <2> QED
    BY <2>1, <2>2, <2>3 DEF Typed
<1>11. CASE StealRead(w)
  <2>1. buf[on[w]][t[w] % Capacity[on[w]]] \in Jobs \cup {NULL}
    BY <1>1, <1>2
  <2> QED
    BY <1>1, <1>11, <2>1 DEF StealRead, Goto, deques, Typed, PC
<1>12. CASE StealCas(w)
  <2>1. t[w] + 1 \in Nat
    BY <1>1
  <2>2. UNCHANGED <<bottom, buf, pending, on, tries, rr>>
    BY <1>12 DEF StealCas
  <2>3. top' \in [Workers -> Nat] /\ item' \in [Actors -> Jobs \cup {NULL}]
    <3>1. UNCHANGED top \/ top' = [top EXCEPT ![on[w]] = t[w] + 1]
      BY <1>12 DEF StealCas
    <3>2. top' \in [Workers -> Nat]
      BY <1>1, <2>1, <3>1 DEF Typed
    <3>3. UNCHANGED item \/ item' = [item EXCEPT ![w] = NULL]
      BY <1>12 DEF StealCas
    <3>4. item' \in [Actors -> Jobs \cup {NULL}]
      BY <1>1, <3>3 DEF Typed
    <3> QED
      BY <3>2, <3>4
  <2>4. b' \in [Actors -> Nat \cup {-1}] /\ t' \in [Actors -> Nat]
    BY <1>12 DEF StealCas, Forget, Typed
  <2>5. pc' \in [Actors -> PC]
    BY <1>12 DEF StealCas, Goto, Typed, PC
  <2> QED
    BY <2>2, <2>3, <2>4, <2>5 DEF Typed
<1>13. CASE StartJob(w)
  BY <1>1, <1>13 DEF StartJob, Goto, deques, Typed, PC
<1>14. CASE FinishJob(w) \/ Spin(w) \/ IdleWait(w)
  BY <1>1, <1>14 DEF FinishJob, Spin, IdleWait, Goto, deques, locals, Typed, PC
<1> QED
  BY <1>3, <1>4, <1>5, <1>6, <1>7, <1>8, <1>9, <1>10, <1>11, <1>12, <1>13, <1>14 DEF WorkerStep

LEMMA PushTyped ==
  ASSUME DequeInv, HistoryTyped, NEW a \in Actors, Spawn(a) \/ PushStep(a)
  PROVE  Typed'
<1> USE DEF DequeInv
<1>1. bottom[on[a]] \in Nat \cup {-1} /\ b[a] \in Nat \cup {-1} /\ tries[a] \in Nat \cup {-1}
      /\ on[a] \in Workers /\ rr[a] \in Workers /\ Capacity[on[a]] \in Nat \ {0} /\ N \in Nat \ {0}
      /\ on[a] \in Int /\ rr[a] \in Int /\ item[a] \in Jobs \cup {NULL}
  <2>1. on[a] \in Workers /\ rr[a] \in Workers /\ b[a] \in Nat \cup {-1} /\ tries[a] \in Nat \cup {-1}
        /\ item[a] \in Jobs \cup {NULL}
    BY DEF Typed
  <2>2. bottom[on[a]] \in Nat \cup {-1} /\ Capacity[on[a]] \in Nat \ {0}
    BY <2>1, LogicalBottomIs DEF Typed
  <2>3. on[a] \in Int /\ rr[a] \in Int
    BY <2>1 DEF Workers
  <2> QED
    BY <2>1, <2>2, <2>3, NAssumption
<1>2. \A i \in Int : i % N \in Workers
  BY <1>1, ModRange DEF Workers
<1>3. CASE Spawn(a)
  <2>1. issued + 1 \in Jobs
    BY <1>3, MaxJobsAssumption DEF Spawn, HistoryTyped, Jobs
  <2> QED
    BY <1>1, <1>3, <2>1 DEF Spawn, Goto, deques, Typed, PC, Pushing
<1>4. CASE PushLoad(a)
  <2>1. tries[a] + 1 \in Nat \cup {-1} /\ (rr[a] + tries[a] + 1) % N \in Workers
    BY <1>1, <1>2
  <2>2. UNCHANGED <<top, bottom, buf, pending, t, item, rr>>
    BY <1>4 DEF PushLoad, deques
  <2>3. pc' \in [Actors -> PC]
    BY <1>4 DEF PushLoad, Goto, Typed, PC, Pushing
  <2>4. b' \in [Actors -> Nat \cup {-1}]
    BY <1>1, <1>4 DEF PushLoad, Typed
  <2>5. tries' \in [Actors -> Nat \cup {-1}]
    BY <1>4, <2>1 DEF PushLoad, Typed
  <2>6. on' \in [Actors -> Workers]
    BY <1>4, <2>1 DEF PushLoad, Typed
  <2> QED
    BY <2>2, <2>3, <2>4, <2>5, <2>6 DEF Typed
<1>5. CASE PushWrite(a)
  <2>1. UNCHANGED <<top, bottom, pending, b, t, item, on, tries, rr>> /\ pc' \in [Actors -> PC]
    BY <1>5 DEF PushWrite, locals, Goto, Typed, PC, Pushing
  <2>2. CASE UNCHANGED buf
    BY <2>1, <2>2 DEF Typed
  <2>3. CASE buf' = [buf EXCEPT ![on[a]][b[a] % Capacity[on[a]]] = item[a]]
    <3>1. DOMAIN buf' = Workers
      BY <2>3 DEF Typed
    <3>2. ASSUME NEW v \in Workers PROVE buf'[v] \in [0 .. Capacity[v] - 1 -> Jobs \cup {NULL}]
      <4>1. CASE v # on[a]
        BY <1>1, <2>3, <4>1 DEF Typed
      <4>2. CASE v = on[a]
        <5>1. buf'[v] = [buf[v] EXCEPT ![b[a] % Capacity[on[a]]] = item[a]]
          BY <1>1, <2>3, <4>2 DEF Typed
        <5>2. buf[v] \in [0 .. Capacity[v] - 1 -> Jobs \cup {NULL}]
          BY DEF Typed
        <5> QED
          BY <1>1, <5>1, <5>2
      <4> QED
        BY <4>1, <4>2
    <3> QED
      BY <2>1, <3>1, <3>2 DEF Typed
  <2> QED
    BY <1>5, <2>2, <2>3 DEF PushWrite
<1>6. CASE PushPublish(a)
  <2>1. b[a] + 1 \in Nat /\ (on[a] + 1) % N \in Workers
    BY <1>1, <1>2
  <2> QED
    BY <1>1, <1>6, <2>1 DEF PushPublish, Goto, Forget, Typed, PC
<1>7. CASE AddPending(a)
  BY <1>7 DEF AddPending, Goto, deques, locals, Typed, PC
<1>8. CASE Notify(a)
  <2>1. pc' \in [Actors -> PC]
    BY <1>8 DEF Notify, Back, Typed, PC
  <2> QED
    BY <1>8, <2>1 DEF Notify, deques, locals, Typed
<1>9. CASE Dedicate(a)
  BY <1>9 DEF Dedicate, Back, Goto, deques, Typed, PC
<1> QED
  BY <1>3, <1>4, <1>5, <1>6, <1>7, <1>8, <1>9 DEF PushStep

-----------------------------------------------------------------------------
(***************************************************************************)
(* The other steps leave the deques to themselves.                         *)
(***************************************************************************)
\* Not one of the actions above.
Outside(a) == StartJob(a) \/ FinishJob(a) \/ Spin(a) \/ IdleWait(a) \/ Spawn(a)
              \/ AddPending(a) \/ Notify(a) \/ Dedicate(a)

LEMMA OutsideDequeInv ==
  ASSUME DequeInv, Typed', NEW a \in Actors, Outside(a)
  PROVE  DequeInv' /\ \A v \in Workers : LogicalBottom(v)' = LogicalBottom(v)
<1> USE DEF Typed, DequeInv
<1> DEFINE Apart == \A x \in Actors : \/ pc[x] \notin Busy /\ pc'[x] \notin Busy
                                      \/ pc'[x] = pc[x] /\ b'[x] = b[x] /\ t'[x] = t[x]
                                         /\ item'[x] = item[x] /\ on'[x] = on[x]
<1>1. UNCHANGED <<deques, clobbered>>
  BY DEF Outside, StartJob, FinishJob, Spin, IdleWait, Spawn, AddPending, Notify, Dedicate
<1>2. CASE StartJob(a) \/ FinishJob(a) \/ Spin(a)
  <2> Apart
    BY SMTT(30), <1>2 DEF StartJob, FinishJob, Spin, locals, Goto, Busy, Popping, Writing
  <2> QED
    BY <1>1, Elsewhere
<1>3. CASE IdleWait(a)
  <2> Apart
    BY <1>3 DEF IdleWait, locals, Goto, Busy, Popping, Writing
  <2> QED
    BY <1>1, Elsewhere
<1>4. CASE Spawn(a) \/ AddPending(a)
  <2> Apart
    BY SMTT(30), <1>4 DEF Spawn, AddPending, locals, Goto, Busy, Popping, Writing
  <2> QED
    BY <1>1, Elsewhere
<1>5. CASE Notify(a)
  <2> Apart
    BY <1>5 DEF Notify, Back, locals, Busy, Popping, Writing
  <2> QED
    BY <1>1, Elsewhere
<1>6. CASE Dedicate(a)
  <2> Apart
    BY <1>6 DEF Dedicate, Back, Goto, Busy, Popping, Writing
  <2> QED
    BY <1>1, Elsewhere
<1> QED
  BY <1>2, <1>3, <1>4, <1>5, <1>6 DEF Outside

LEMMA InitDequeInv == Init => DequeInv /\ HistoryTyped
<1> SUFFICES ASSUME Init PROVE DequeInv /\ HistoryTyped
  OBVIOUS
<1>1. \A w \in Workers : Capacity[w] \in Nat \ {0} /\ w \in Actors
  BY CapacityAssumption DEF Workers, Actors
<1>2. 0 \in Workers
  BY NAssumption DEF Workers
<1>3. \A a \in Actors : pc[a] \in {"loop", "out"}
  BY DEF Init
<1>4. Typed
  <2>1. \A w \in Workers : buf[w] \in [0 .. Capacity[w] - 1 -> Jobs \cup {NULL}]
    BY DEF Init
  <2>2. pc \in [Actors -> PC] /\ item \in [Actors -> Jobs \cup {NULL}] /\ on \in [Actors -> Workers]
        /\ rr \in [Actors -> Workers] /\ DOMAIN buf = Workers
    BY <1>2 DEF Init, PC
  <2>3. top \in [Workers -> Nat] /\ bottom \in [Workers -> Nat \cup {-1}] /\ pending \in Int
        /\ b \in [Actors -> Nat \cup {-1}] /\ t \in [Actors -> Nat] /\ tries \in [Actors -> Nat \cup {-1}]
    BY DEF Init
  <2> QED
    BY <2>1, <2>2, <2>3 DEF Typed
<1>5. OwnersKnow
  BY <1>1, <1>3 DEF OwnersKnow, OwnerKnows, Popping
<1>6. Bounded
  <2> SUFFICES ASSUME NEW w \in Workers
               PROVE  top[w] <= LogicalBottom(w) /\ LogicalBottom(w) <= top[w] + Capacity[w]
    BY DEF Bounded
  <2>1. LogicalBottom(w) = bottom[w]
    BY <1>1, <1>3 DEF LogicalBottom, Popping
  <2> QED
    BY <1>1, <2>1 DEF Init
<1>7. ThievesKnow /\ PushersKnow
  BY <1>1, <1>3 DEF ThievesKnow, ThiefKnows, PushersKnow, PusherKnows, Writing
<1>8. HistoryTyped
  BY MaxJobsAssumption DEF Init, HistoryTyped
<1> QED
  BY <1>4, <1>5, <1>6, <1>7, <1>8 DEF DequeInv, Init

-----------------------------------------------------------------------------
(***************************************************************************)
(* From one place to the next: what happens to one job, and that nothing   *)
(* happens to the others.                                                  *)
(***************************************************************************)
Same(j) ==
  /\ \A w \in Workers, i \in Int : At(w, i, j)' <=> At(w, i, j)
  /\ \A a \in Actors : Holds(a, j)' <=> Holds(a, j)
  /\ ran'[j] = ran[j] /\ (j \in dedicated' <=> j \in dedicated) /\ (j \in failed' <=> j \in failed)
  /\ j \in 1 .. issued' <=> j \in 1 .. issued

LEMMA SameAccounted == ASSUME NEW j, Accounted(j), Same(j) PROVE Accounted(j)'
<1>1. Waits(j)' <=> Waits(j)
  BY DEF Same, Waits
<1>2. /\ \A w, v \in Workers, i, k \in Int : At(w, i, j)' /\ At(v, k, j)' => w = v /\ i = k
      /\ \A w \in Workers, i \in Int, a \in Actors : ~(At(w, i, j)' /\ Holds(a, j)')
      /\ \A a, c \in Actors : Holds(a, j)' /\ Holds(c, j)' => a = c
  BY DEF Same, Accounted
<1>3. /\ \A w \in Workers, i \in Int : At(w, i, j)' => Waits(j)'
      /\ \A a \in Actors : Holds(a, j)' => Waits(j)'
  BY <1>1 DEF Same, Accounted
<1>4. j \in Jobs => ran'[j] <= 1 /\ (j \notin 1 .. issued' \/ j \in (dedicated \cup failed)' => ran'[j] = 0)
  BY DEF Same, Accounted
<1>5. j \in 1 .. issued' => \/ ran'[j] > 0 \/ j \in (dedicated \cup failed)'
                            \/ \E w \in Workers, i \in Int : At(w, i, j)'
                            \/ \E a \in Actors : Holds(a, j)'
  BY DEF Same, Accounted
<1> QED
  BY <1>2, <1>3, <1>4, <1>5 DEF Accounted

LEMMA OneMoves ==
  ASSUME JobInv, HistoryTyped', NEW k, Accounted(k)',
         \A j \in (Jobs \cup {NULL}) \ {k} : Same(j)
  PROVE  JobInv'
<1>1. \A j \in Jobs \cup {NULL} : Accounted(j)'
  BY SameAccounted DEF JobInv
<1> QED
  BY <1>1 DEF JobInv

\* The deques hold what they held.
SameEntries ==
  \A v \in Workers : /\ Indices(v)' = Indices(v)
                     /\ \A i \in Indices(v) : buf'[v][i % Capacity[v]] = buf[v][i % Capacity[v]]
SameHand(a) == (pc'[a] \in Holding <=> pc[a] \in Holding) /\ (pc[a] \in Holding => item'[a] = item[a])

LEMMA SameIndices ==
  ASSUME NEW v \in Workers, UNCHANGED top, LogicalBottom(v)' = LogicalBottom(v)
  PROVE  Indices(v)' = Indices(v)
BY DEF Indices

LEMMA AtKept ==
  ASSUME NEW j, SameEntries PROVE \A w \in Workers, i \in Int : At(w, i, j)' <=> At(w, i, j)
BY DEF SameEntries, At

LEMMA QuietJobs ==
  ASSUME JobInv, UNCHANGED <<issued, dedicated, failed, ran>>, SameEntries,
         \A a \in Actors : SameHand(a)
  PROVE  JobInv'
<1>1. ASSUME NEW j PROVE Same(j)
  <2>1. \A w \in Workers, i \in Int : At(w, i, j)' <=> At(w, i, j)
    BY AtKept
  <2>2. \A a \in Actors : Holds(a, j)' <=> Holds(a, j)
    BY DEF Holds, SameHand
  <2> QED
    BY <2>1, <2>2 DEF Same
<1>2. HistoryTyped'
  BY DEF JobInv, HistoryTyped
<1> QED
  BY <1>1, <1>2, SameAccounted DEF JobInv

\* A job taken from the index i of the deque w is in the hand of a.
LEMMA TakeJob ==
  ASSUME JobInv, NEW a \in Workers, NEW w \in Workers, NEW i \in Indices(w), i \in Int,
         UNCHANGED <<buf, issued, dedicated, failed, ran>>,
         \A v \in Workers : Indices(v)' = IF v = w THEN Indices(v) \ {i} ELSE Indices(v),
         \A x \in Actors \ {a} : SameHand(x),
         pc[a] \notin Holding, pc'[a] \in Holding, item'[a] = buf[w][i % Capacity[w]],
         item'[a] \in Jobs \cup {NULL}
  PROVE  JobInv'
<1>1. PICK k \in Jobs \cup {NULL} : k = item'[a]
  OBVIOUS
<1>2. At(w, i, k) /\ a \in Actors
  BY <1>1 DEF At, Actors
<1>3. Accounted(k)
  BY DEF JobInv
<1>4. Waits(k) /\ Waits(k)'
  BY <1>2, <1>3 DEF Accounted, Waits
<1>5. \A v \in Workers, n \in Int : ~At(v, n, k)'
  <2> SUFFICES ASSUME NEW v \in Workers, NEW n \in Int, At(v, n, k)' PROVE FALSE
    OBVIOUS
  <2>1. At(v, n, k) /\ ~(v = w /\ n = i)
    BY DEF At
  <2> QED
    BY <1>2, <1>3, <2>1 DEF Accounted
<1>6. \A x \in Actors : Holds(x, k)' <=> x = a
  <2>1. Holds(a, k)'
    BY <1>1 DEF Holds
  <2>2. ASSUME NEW x \in Actors \ {a} PROVE ~Holds(x, k)'
    <3>1. ~Holds(x, k)
      BY <1>2, <1>3 DEF Accounted
    <3> QED
      BY <3>1 DEF Holds, SameHand
  <2> QED
    BY <2>1, <2>2
<1>7. Accounted(k)'
  BY <1>2, <1>3, <1>4, <1>5, <1>6 DEF Accounted, Waits
<1>8. ASSUME NEW j \in (Jobs \cup {NULL}) \ {k} PROVE Same(j)
  <2>1. \A v \in Workers, n \in Int : At(v, n, j)' <=> At(v, n, j)
    BY <1>1 DEF At
  <2>2. \A x \in Actors : Holds(x, j)' <=> Holds(x, j)
    BY <1>1 DEF Holds, SameHand
  <2> QED
    BY <2>1, <2>2 DEF Same
<1>9. HistoryTyped'
  BY DEF JobInv, HistoryTyped
<1> QED
  BY <1>7, <1>8, <1>9, OneMoves

\* The job in the hand of a is queued at the index i of the deque w.
LEMMA QueueJob ==
  ASSUME JobInv, NEW a \in Actors, NEW w \in Workers, NEW i \in Int, i \notin Indices(w),
         UNCHANGED <<buf, issued, dedicated, failed, ran>>,
         \A v \in Workers : Indices(v)' = IF v = w THEN Indices(v) \cup {i} ELSE Indices(v),
         \A x \in Actors \ {a} : SameHand(x), item[a] \in Jobs \cup {NULL},
         pc[a] \in Holding, pc'[a] \notin Holding, item[a] = buf[w][i % Capacity[w]]
  PROVE  JobInv'
<1>1. PICK k \in Jobs \cup {NULL} : k = item[a]
  OBVIOUS
<1>2. Holds(a, k)
  BY <1>1 DEF Holds
<1>3. Accounted(k)
  BY DEF JobInv
<1>4. Waits(k) /\ Waits(k)'
  BY <1>2, <1>3 DEF Accounted, Waits
<1>5. \A v \in Workers, n \in Int : At(v, n, k)' <=> v = w /\ n = i
  <2>1. \A v \in Workers, n \in Int : ~At(v, n, k)
    BY <1>2, <1>3 DEF Accounted
  <2> QED
    BY <1>1, <2>1 DEF At
<1>6. \A x \in Actors : ~Holds(x, k)'
  <2>1. \A x \in Actors \ {a} : ~Holds(x, k)
    BY <1>2, <1>3 DEF Accounted
  <2> QED
    BY <2>1 DEF Holds, SameHand
<1>7. Accounted(k)'
  BY <1>3, <1>4, <1>5, <1>6 DEF Accounted, Waits
<1>8. ASSUME NEW j \in (Jobs \cup {NULL}) \ {k} PROVE Same(j)
  <2>1. \A v \in Workers, n \in Int : At(v, n, j)' <=> At(v, n, j)
    BY <1>1 DEF At
  <2>2. \A x \in Actors : Holds(x, j)' <=> Holds(x, j)
    BY <1>1 DEF Holds, SameHand
  <2> QED
    BY <2>1, <2>2 DEF Same
<1>9. HistoryTyped'
  BY DEF JobInv, HistoryTyped
<1> QED
  BY <1>7, <1>8, <1>9, OneMoves

\* Hands that keep what they hold, one excepted that gets or gives.
LEMMA OtherHands ==
  ASSUME NEW j, NEW a \in Actors, \A x \in Actors \ {a} : SameHand(x),
         ~Holds(a, j), ~Holds(a, j)'
  PROVE  \A x \in Actors : Holds(x, j)' <=> Holds(x, j)
BY DEF Holds, SameHand

LEMMA SpawnJobInv ==
  ASSUME Typed, JobInv, NEW a \in Actors, Spawn(a), SameEntries PROVE JobInv'
<1>1. /\ pc[a] \in {"out", "run"} /\ issued < MaxJobs /\ issued' = issued + 1
      /\ item' = [item EXCEPT ![a] = issued + 1] /\ pc' = [pc EXCEPT ![a] = "push_load"]
      /\ UNCHANGED <<dedicated, failed, ran>>
  BY DEF Spawn, Goto
<1>2. issued \in Nat /\ MaxJobs \in Nat /\ issued + 1 \in Jobs
      /\ dedicated \subseteq 1 .. issued /\ failed \subseteq 1 .. issued
  BY <1>1, MaxJobsAssumption DEF JobInv, HistoryTyped, Jobs
<1>3. PICK k \in Jobs : k = issued + 1
  BY <1>2
<1>4. Accounted(k) /\ k \notin 1 .. issued /\ k \in 1 .. issued' /\ k \notin dedicated \cup failed
  BY <1>1, <1>2, <1>3 DEF JobInv
<1>5. (\A v \in Workers, n \in Int : ~At(v, n, k)) /\ (\A x \in Actors : ~Holds(x, k)) /\ ran[k] = 0
  BY <1>4 DEF Accounted, Waits
<1>6. \A x \in Actors \ {a} : SameHand(x)
  BY <1>1 DEF SameHand, Typed
<1>7. pc[a] \notin Holding /\ pc'[a] \in Holding /\ item'[a] = k
  BY <1>1, <1>3 DEF Typed, Holding
<1>8. Accounted(k)'
  <2>1. \A v \in Workers, n \in Int : ~At(v, n, k)'
    BY <1>5, AtKept
  <2>2. \A x \in Actors : Holds(x, k)' <=> x = a
    BY <1>5, <1>6, <1>7 DEF Holds, SameHand
  <2>3. Waits(k)' /\ ran'[k] = 0
    BY <1>1, <1>4, <1>5 DEF Waits
  <2> QED
    BY <1>4, <1>1, <2>1, <2>2, <2>3 DEF Accounted
<1>9. ASSUME NEW j \in (Jobs \cup {NULL}) \ {k} PROVE Same(j)
  <2>1. \A v \in Workers, n \in Int : At(v, n, j)' <=> At(v, n, j)
    BY AtKept
  <2>2. \A x \in Actors : Holds(x, j)' <=> Holds(x, j)
    BY <1>6, <1>7, OtherHands DEF Holds
  <2>3. j \in 1 .. issued' <=> j \in 1 .. issued
    BY <1>1, <1>2, <1>3
  <2> QED
    BY <1>1, <2>1, <2>2, <2>3 DEF Same
<1>10. HistoryTyped'
  BY <1>1, <1>2 DEF JobInv, HistoryTyped
<1> QED
  BY <1>8, <1>9, <1>10, OneMoves

LEMMA StartJobInv ==
  ASSUME Typed, JobInv, NEW w \in Workers, StartJob(w), SameEntries PROVE JobInv'
<1>1. /\ pc[w] = "got" /\ item' = [item EXCEPT ![w] = NULL] /\ pc' = [pc EXCEPT ![w] = "run"]
      /\ ran' = [ran EXCEPT ![item[w]] = @ + 1] /\ UNCHANGED <<dedicated, failed, issued>> /\ w \in Actors
  BY DEF StartJob, Goto, Actors
<1>2. PICK k \in Jobs \cup {NULL} : k = item[w]
  BY <1>1 DEF Typed
<1>3. Holds(w, k) /\ Accounted(k)
  BY <1>1, <1>2 DEF Holds, Holding, JobInv
<1>4. Waits(k) /\ k \in Jobs
  <2>1. Waits(k)
    BY <1>1, <1>3 DEF Accounted
  <2>2. issued \in 0 .. MaxJobs
    BY DEF JobInv, HistoryTyped
  <2> QED
    BY <2>1, <2>2, MaxJobsAssumption DEF Waits, Jobs
<1>5. ran \in [Jobs -> Nat] /\ ran'[k] = 1 /\ \A j \in Jobs \ {k} : ran'[j] = ran[j]
  BY <1>1, <1>2, <1>4 DEF JobInv, HistoryTyped, Waits
<1>6. \A x \in Actors \ {w} : SameHand(x)
  BY <1>1 DEF SameHand, Typed
<1>7. pc'[w] \notin Holding
  BY <1>1 DEF Typed, Holding
<1>8. Accounted(k)'
  <2>1. \A v \in Workers, n \in Int : ~At(v, n, k)'
    <3>1. \A v \in Workers, n \in Int : ~At(v, n, k)
      BY <1>3, <1>1 DEF Accounted
    <3> QED
      BY <3>1, AtKept
  <2>2. \A x \in Actors : ~Holds(x, k)'
    <3>1. \A x \in Actors \ {w} : ~Holds(x, k)
      BY <1>1, <1>3 DEF Accounted
    <3> QED
      BY <1>6, <1>7, <3>1 DEF Holds, SameHand
  <2>3. k \in 1 .. issued' /\ k \notin (dedicated \cup failed)'
    BY <1>1, <1>4 DEF Waits
  <2> QED
    BY <1>5, <2>1, <2>2, <2>3 DEF Accounted
<1>9. ASSUME NEW j \in (Jobs \cup {NULL}) \ {k} PROVE Accounted(j)'
  <2>1. \A v \in Workers, n \in Int : At(v, n, j)' <=> At(v, n, j)
    BY AtKept
  <2>2. \A x \in Actors : Holds(x, j)' <=> Holds(x, j)
    BY <1>1, <1>2, <1>6, <1>7, OtherHands DEF Holds
  <2>3. ran'[j] = ran[j]
    BY <1>1, <1>2, <1>4, <1>5 DEF JobInv, HistoryTyped
  <2>4. Same(j)
    BY <1>1, <2>1, <2>2, <2>3 DEF Same
  <2> QED
    BY <2>4, SameAccounted DEF JobInv
<1>10. HistoryTyped'
  BY <1>1, <1>2, <1>4 DEF JobInv, HistoryTyped
<1> QED
  BY <1>8, <1>9, <1>10 DEF JobInv

LEMMA DedicateJobInv ==
  ASSUME Typed, JobInv, NEW a \in Actors, Dedicate(a), SameEntries PROVE JobInv'
<1>1. /\ pc[a] = "dedicate" /\ item' = [item EXCEPT ![a] = NULL] /\ pc' = [pc EXCEPT ![a] = Back(a)]
      /\ UNCHANGED <<ran, issued>>
      /\ \/ dedicated' = dedicated \cup {item[a]} /\ UNCHANGED failed
         \/ failed' = failed \cup {item[a]} /\ UNCHANGED dedicated
  BY DEF Dedicate, Goto
<1>2. PICK k \in Jobs \cup {NULL} : k = item[a]
  BY <1>1 DEF Typed
<1>3. Holds(a, k) /\ Accounted(k)
  BY <1>1, <1>2 DEF Holds, Holding, JobInv
<1>4. Waits(k)
  BY <1>3 DEF Accounted
<1>6. \A x \in Actors \ {a} : SameHand(x)
  BY <1>1 DEF SameHand, Typed
<1>7. pc'[a] \notin Holding
  BY <1>1 DEF Typed, Holding, Back
<1>8. Accounted(k)'
  <2>1. \A v \in Workers, n \in Int : ~At(v, n, k)'
    <3>1. \A v \in Workers, n \in Int : ~At(v, n, k)
      BY <1>3, <1>1 DEF Accounted
    <3> QED
      BY <3>1, AtKept
  <2>2. \A x \in Actors : ~Holds(x, k)'
    <3>1. \A x \in Actors \ {a} : ~Holds(x, k)
      BY <1>1, <1>3 DEF Accounted
    <3> QED
      BY <1>6, <1>7, <3>1 DEF Holds, SameHand
  <2>3. k \in (dedicated \cup failed)' /\ ran'[k] = 0
    BY <1>1, <1>2, <1>4 DEF Waits
  <2> QED
    BY <2>1, <2>2, <2>3 DEF Accounted
<1>9. ASSUME NEW j \in (Jobs \cup {NULL}) \ {k} PROVE Same(j)
  <2>1. \A v \in Workers, n \in Int : At(v, n, j)' <=> At(v, n, j)
    BY AtKept
  <2>2. \A x \in Actors : Holds(x, j)' <=> Holds(x, j)
    BY <1>1, <1>2, <1>6, <1>7, OtherHands DEF Holds
  <2> QED
    BY <1>1, <1>2, <2>1, <2>2 DEF Same
<1>10. HistoryTyped'
  BY <1>1, <1>2, <1>4 DEF JobInv, HistoryTyped, Waits
<1> QED
  BY <1>8, <1>9, <1>10, OneMoves

LEMMA RunDedicatedJobInv ==
  ASSUME JobInv, NEW k \in Jobs, RunDedicated(k) PROVE JobInv'
<1>1. k \in dedicated /\ dedicated' = dedicated \ {k} /\ ran' = [ran EXCEPT ![k] = @ + 1]
      /\ UNCHANGED <<deques, pc, item, b, issued, failed>>
  BY DEF RunDedicated, locals
<1>2. \A j, v, n : At(v, n, j)' <=> At(v, n, j)
  BY <1>1 DEF At, Indices, LogicalBottom, deques
<1>3. \A j, x : Holds(x, j)' <=> Holds(x, j)
  BY <1>1 DEF Holds
<1>4. Accounted(k) /\ k \in 1 .. issued /\ k \notin failed
  BY <1>1 DEF JobInv, HistoryTyped
<1>5. ran[k] = 0 /\ ran'[k] = 1 /\ ran' \in [Jobs -> Nat] /\ \A j \in Jobs \ {k} : ran'[j] = ran[j]
  BY <1>1, <1>4 DEF Accounted, JobInv, HistoryTyped
<1>6. Accounted(k)'
  <2>1. (\A v \in Workers, n \in Int : ~At(v, n, k)') /\ (\A x \in Actors : ~Holds(x, k)')
    BY <1>1, <1>2, <1>3, <1>4 DEF Accounted, Waits
  <2> QED
    BY <1>1, <1>4, <1>5, <2>1 DEF Accounted
<1>7. ASSUME NEW j \in (Jobs \cup {NULL}) \ {k} PROVE Same(j)
  BY <1>1, <1>2, <1>3, <1>5 DEF Same, JobInv, HistoryTyped
<1>8. HistoryTyped'
  BY <1>1, <1>5 DEF JobInv, HistoryTyped
<1> QED
  BY <1>6, <1>7, <1>8, OneMoves

-----------------------------------------------------------------------------
(***************************************************************************)
(* The count, and the whole invariant.                                     *)
(***************************************************************************)
Inv == DequeInv /\ JobInv /\ CountInv
Taken == {"got", "pop_won"}

LEMMA EntryIs == \A v, i : <<v, i>> \in Entries <=> v \in Workers /\ i \in Indices(v)
BY DEF Entries

LEMMA EntriesKept == ASSUME SameEntries PROVE Entries' = Entries
BY DEF SameEntries, Entries

\* Nothing changes hands.
LEMMA QuietInv ==
  ASSUME JobInv, CountInv, UNCHANGED <<issued, dedicated, failed, ran, pending>>, SameEntries,
         \A x \in Actors : SameHand(x) /\ (pc'[x] \in Taken <=> pc[x] \in Taken)
                           /\ (pc'[x] = "pend" <=> pc[x] = "pend")
  PROVE  JobInv' /\ CountInv'
<1>1. Entries' = Entries
  BY EntriesKept
<1>2. Started' = Started /\ Uncounted' = Uncounted
  BY DEF Started, Uncounted, Taken, Actors
<1>3. CountInv'
  BY <1>1, <1>2 DEF CountInv
<1> QED
  BY <1>3, QuietJobs

LEMMA Unmoved ==
  ASSUME UNCHANGED <<top, buf>>, \A v \in Workers : LogicalBottom(v)' = LogicalBottom(v)
  PROVE  SameEntries
BY DEF SameEntries, Indices

LEMMA QuietStep ==
  ASSUME Typed, JobInv, CountInv, UNCHANGED <<issued, dedicated, failed, ran, pending>>, SameEntries,
         NEW a \in Actors, NEW label, pc' = [pc EXCEPT ![a] = label],
         \A x \in Actors \ {a} : item'[x] = item[x],
         \/ pc[a] \notin Holding \cup {"pend"} /\ label \notin Holding \cup {"pend"}
         \/ /\ pc[a] \in Holding /\ label \in Holding /\ item'[a] = item[a]
            /\ label \in Taken <=> pc[a] \in Taken
  PROVE  JobInv' /\ CountInv'
<1>1. pc'[a] = label /\ \A x \in Actors \ {a} : pc'[x] = pc[x]
  BY DEF Typed
<1>2. \A x \in Actors : SameHand(x)
  BY <1>1 DEF SameHand
<1>3. Taken \subseteq Holding /\ "pend" \notin Holding
  BY DEF Taken, Holding
<1>4. \A x \in Actors : (pc'[x] \in Taken <=> pc[x] \in Taken) /\ (pc'[x] = "pend" <=> pc[x] = "pend")
  BY <1>1, <1>3
<1> QED
  BY <1>2, <1>4, QuietInv

\* A taker gets a job, which is no longer an entry of the deque.
LEMMA TakeStep ==
  ASSUME Typed, Typed', JobInv, CountInv, NEW a \in Workers, NEW w \in Workers, NEW i \in Indices(w), i \in Int,
         UNCHANGED <<buf, issued, dedicated, failed, ran, pending>>,
         \A v \in Workers : Indices(v)' = IF v = w THEN Indices(v) \ {i} ELSE Indices(v),
         NEW label \in Taken, pc' = [pc EXCEPT ![a] = label], pc[a] \notin Holding \cup {"pend"},
         item'[a] = buf[w][i % Capacity[w]], \A x \in Actors \ {a} : item'[x] = item[x]
  PROVE  JobInv' /\ CountInv'
<1>1. a \in Actors /\ pc'[a] = label /\ \A x \in Actors \ {a} : pc'[x] = pc[x]
  BY DEF Typed, Actors
<1>2. label \in Holding /\ label # "pend" /\ item'[a] \in Jobs \cup {NULL}
  BY <1>1 DEF Typed, Taken, Holding
<1>3. JobInv'
  <2>1. \A x \in Actors \ {a} : SameHand(x)
    BY <1>1 DEF SameHand
  <2> QED
    BY <1>1, <1>2, <2>1, TakeJob
<1>4. Entries' = Entries \ {<<w, i>>} /\ <<w, i>> \in Entries
  BY DEF Entries
<1>5. a \notin Started /\ Started' = Started \cup {a} /\ Uncounted' = Uncounted
  BY <1>1, <1>2 DEF Started, Uncounted, Taken, Holding, Actors
<1>6. IsFiniteSet(Entries') /\ Cardinality(Entries') = Cardinality(Entries) - 1
  BY <1>4, FS_RemoveElement DEF CountInv
<1>7. IsFiniteSet(Started') /\ Cardinality(Started') = Cardinality(Started) + 1
  BY <1>5, FS_AddElement DEF CountInv
<1>8. Cardinality(Entries) \in Nat /\ Cardinality(Started) \in Nat
  BY FS_CardinalityType DEF CountInv
<1>9. CountInv'
  BY <1>5, <1>6, <1>7, <1>8 DEF CountInv
<1> QED
  BY <1>3, <1>9

LEMMA OwnerInv ==
  ASSUME ~overlapped', Inv, Typed', NEW w \in Workers,
         \/ PopLoad(w) \/ PopStore(w) \/ PopTop(w) \/ PopRead(w) \/ PopCas(w) \/ PopRestore(w)
  PROVE  Inv'
<1> USE DEF Inv
<1>1. Typed /\ w \in Actors
  BY DEF DequeInv, Actors
<1>2. CASE PopLoad(w) \/ PopStore(w) \/ PopTop(w)
  <2>1. UNCHANGED <<top, buf, issued, dedicated, failed, ran, pending, item>>
    BY <1>2 DEF PopLoad, PopStore, PopTop, deques, locals
  <2>2. DequeInv' /\ SameEntries
    BY <1>2, <2>1, PopLoadDequeInv, PopStoreDequeInv, PopTopDequeInv, Unmoved
  <2>3. PICK label \in {"pop_store", "pop_top", "pop_empty", "pop_read"} : pc' = [pc EXCEPT ![w] = label]
    BY <1>2 DEF PopLoad, PopStore, PopTop, Goto
  <2>4. pc[w] \notin Holding \cup {"pend"} /\ label \notin Holding \cup {"pend"}
    BY <1>2, <2>3 DEF PopLoad, PopStore, PopTop, Holding
  <2> QED
    BY <1>1, <2>1, <2>2, <2>3, <2>4, QuietStep
<1>3. CASE PopRead(w)
  <2>1. /\ UNCHANGED <<top, bottom, buf, issued, dedicated, failed, ran, pending>> /\ pc[w] = "pop_read"
        /\ item' = [item EXCEPT ![w] = buf[w][b[w] % Capacity[w]]]
    BY <1>3 DEF PopRead, deques
  <2>2. \A x \in Actors \ {w} : item'[x] = item[x]
    BY <1>1, <2>1 DEF Typed
  <2>3. pc[w] \notin Holding \cup {"pend"}
    BY <2>1 DEF Holding
  <2>4. CASE t[w] = b[w]
    <3>1. DequeInv' /\ SameEntries
      <4>1. \A v \in Workers : LogicalBottom(v)' = LogicalBottom(v)
        BY <1>3, <2>4, PopReadDequeInv
      <4> QED
        BY <1>3, <2>1, <4>1, PopReadDequeInv, Unmoved
    <3>2. pc' = [pc EXCEPT ![w] = "pop_cas"] /\ "pop_cas" \notin Holding \cup {"pend"}
      BY <1>3, <2>4 DEF PopRead, Goto, Holding
    <3> QED
      BY <1>1, <2>1, <2>2, <2>3, <3>1, <3>2, QuietStep
  <2>5. CASE t[w] # b[w]
    <3>1. /\ DequeInv' /\ \A v \in Workers \ {w} : LogicalBottom(v)' = LogicalBottom(v)
          /\ LogicalBottom(w) = b[w] + 1 /\ LogicalBottom(w)' = b[w] /\ top[w] <= b[w]
          /\ item'[w] = buf[w][b[w] % Capacity[w]]
      BY <1>3, <2>5, PopReadDequeInv
    <3>2. b[w] \in Int /\ top[w] \in Int
      <4>1. b[w] \in Nat \cup {-1} /\ top[w] \in Nat
        BY <1>1 DEF Typed
      <4> QED
        BY <4>1
    <3>3. \A v \in Workers \ {w} : Indices(v)' = Indices(v)
      BY <2>1, <3>1 DEF Indices
    <3>4. b[w] \in Indices(w) /\ Indices(w)' = Indices(w) \ {b[w]}
      BY <2>1, <3>1, <3>2 DEF Indices
    <3>5. pc' = [pc EXCEPT ![w] = "got"] /\ "got" \in Taken
      BY <1>3, <2>5 DEF PopRead, Goto, Taken
    <3>6. PICK i \in Indices(w) : i = b[w]
      BY <3>4
    <3>7. \A v \in Workers : Indices(v)' = IF v = w THEN Indices(v) \ {i} ELSE Indices(v)
      BY <3>3, <3>4, <3>6
    <3>8. item'[w] = buf[w][i % Capacity[w]] /\ i \in Int
      BY <3>1, <3>2, <3>6
    <3>9. JobInv' /\ CountInv'
      BY <1>1, <2>1, <2>2, <2>3, <3>5, <3>7, <3>8, TakeStep
    <3> QED
      BY <3>1, <3>9
  <2> QED
    BY <2>4, <2>5
<1>4. CASE PopCas(w)
  <2>1. UNCHANGED <<bottom, buf, issued, dedicated, failed, ran, pending, item>> /\ pc[w] = "pop_cas"
    BY <1>4 DEF PopCas, locals
  <2>2. /\ DequeInv' /\ \A v \in Workers : LogicalBottom(v)' = LogicalBottom(v)
        /\ LogicalBottom(w) = b[w] + 1 /\ b[w] \in Nat /\ item[w] = buf[w][b[w] % Capacity[w]]
        /\ \/ top[w] = b[w] /\ top' = [top EXCEPT ![w] = b[w] + 1] /\ pc'[w] = "pop_won"
           \/ UNCHANGED top /\ pc'[w] = "pop_lost"
    BY <1>4, PopCasDequeInv
  <2>3. pc[w] \notin Holding \cup {"pend"} /\ (pc' = [pc EXCEPT ![w] = "pop_won"] \/ pc' = [pc EXCEPT ![w] = "pop_lost"])
    BY <1>4, <2>1 DEF Holding, PopCas, Goto
  <2>4. CASE UNCHANGED top /\ pc'[w] = "pop_lost"
    <3>1. SameEntries /\ pc' = [pc EXCEPT ![w] = "pop_lost"] /\ "pop_lost" \notin Holding \cup {"pend"}
      BY <1>1, <2>1, <2>2, <2>3, <2>4, Unmoved DEF Holding, Typed
    <3>2. JobInv' /\ CountInv'
      BY <1>1, <2>1, <2>3, <3>1, QuietStep
    <3> QED
      BY <2>2, <3>2
  <2>5. CASE top[w] = b[w] /\ top' = [top EXCEPT ![w] = b[w] + 1] /\ pc'[w] = "pop_won"
    <3>1. pc' = [pc EXCEPT ![w] = "pop_won"] /\ "pop_won" \in Taken
      BY <1>1, <2>3, <2>5 DEF Typed, Taken
    <3>2. top'[w] = b[w] + 1 /\ \A v \in Workers \ {w} : top'[v] = top[v]
      BY <1>1, <2>5 DEF Typed
    <3>3. \A v \in Workers \ {w} : Indices(v)' = Indices(v)
      BY <2>2, <3>2 DEF Indices
    <3>4. b[w] \in Indices(w) /\ Indices(w)' = Indices(w) \ {b[w]}
      BY <2>2, <2>5, <3>2 DEF Indices
    <3>6. PICK i \in Indices(w) : i = b[w]
      BY <3>4
    <3>7. \A v \in Workers : Indices(v)' = IF v = w THEN Indices(v) \ {i} ELSE Indices(v)
      BY <3>3, <3>4, <3>6
    <3>8. item'[w] = buf[w][i % Capacity[w]] /\ i \in Int
      BY <2>1, <2>2, <3>6
    <3>9. JobInv' /\ CountInv'
      BY <1>1, <2>1, <2>3, <3>1, <3>7, <3>8, TakeStep
    <3> QED
      BY <2>2, <3>9
  <2> QED
    BY <2>2, <2>4, <2>5
<1>5. CASE PopRestore(w)
  <2>1. UNCHANGED <<top, buf, issued, dedicated, failed, ran, pending>>
    BY <1>5 DEF PopRestore
  <2>2. DequeInv' /\ SameEntries
    BY <1>5, <2>1, PopRestoreDequeInv, Unmoved
  <2>3. CASE pc[w] = "pop_won"
    <3>1. pc' = [pc EXCEPT ![w] = "got"] /\ UNCHANGED item
      BY <1>5, <2>3 DEF PopRestore, Goto
    <3>2. "got" \in Holding \cap Taken /\ "pop_won" \in Holding \cap Taken
      BY DEF Holding, Taken
    <3> QED
      BY <1>1, <2>1, <2>2, <2>3, <3>1, <3>2, QuietStep
  <2>4. CASE pc[w] # "pop_won"
    <3>1. PICK label \in {"steal", "idle"} : pc' = [pc EXCEPT ![w] = label]
      BY <1>5, <2>4 DEF PopRestore, Goto
    <3>2. \A x \in Actors \ {w} : item'[x] = item[x]
      BY <1>1, <1>5, <2>4 DEF PopRestore, Typed
    <3>3. pc[w] \notin Holding \cup {"pend"} /\ label \notin Holding \cup {"pend"}
      BY <1>5, <2>4, <3>1 DEF PopRestore, Holding
    <3> QED
      BY <1>1, <2>1, <2>2, <3>1, <3>2, <3>3, QuietStep
  <2> QED
    BY <2>3, <2>4
<1> QED
  BY <1>2, <1>3, <1>4, <1>5

LEMMA ThiefInv ==
  ASSUME Inv, Typed', NEW w \in Workers,
         \/ StealTop(w) \/ StealBottom(w) \/ StealRead(w) \/ StealCas(w)
  PROVE  Inv'
<1> USE DEF Inv
<1>1. Typed /\ w \in Actors
  BY DEF DequeInv, Actors
<1>2. CASE StealTop(w) \/ StealBottom(w) \/ StealRead(w)
  <2>1. UNCHANGED <<top, buf, issued, dedicated, failed, ran, pending>>
    BY <1>2 DEF StealTop, StealBottom, StealRead, deques
  <2>2. DequeInv' /\ SameEntries
    BY <1>2, <2>1, StealTopDequeInv, StealBottomDequeInv, StealReadDequeInv, Unmoved
  <2>3. PICK label \in {"steal_bottom", "idle", "steal_read", "steal_cas"} : pc' = [pc EXCEPT ![w] = label]
    BY <1>2 DEF StealTop, StealBottom, StealRead, Goto
  <2>4. pc[w] \notin Holding \cup {"pend"} /\ label \notin Holding \cup {"pend"}
    BY <1>2, <2>3 DEF StealTop, StealBottom, StealRead, Holding
  <2>5. \A x \in Actors \ {w} : item'[x] = item[x]
    BY <1>1, <1>2 DEF StealTop, StealBottom, StealRead, Typed
  <2> QED
    BY <1>1, <2>1, <2>2, <2>3, <2>4, <2>5, QuietStep
<1>3. CASE StealCas(w)
  <2> DEFINE d == on[w]
  <2>1. UNCHANGED <<bottom, buf, issued, dedicated, failed, ran, pending>> /\ pc[w] = "steal_cas" /\ d \in Workers
        /\ top[d] \in Nat
    BY <1>1, <1>3 DEF StealCas, Typed
  <2>2. /\ DequeInv' /\ \A v \in Workers : LogicalBottom(v)' = LogicalBottom(v)
        /\ \/ /\ pc'[w] = "got" /\ item'[w] = item[w] /\ top[d] < LogicalBottom(d)
              /\ item[w] = buf[d][top[d] % Capacity[d]] /\ top' = [top EXCEPT ![d] = top[d] + 1]
           \/ pc'[w] = "idle" /\ UNCHANGED top
    BY <1>3, StealCasDequeInv
  <2>3. pc[w] \notin Holding \cup {"pend"} /\ (pc' = [pc EXCEPT ![w] = "got"] \/ pc' = [pc EXCEPT ![w] = "idle"])
    BY <1>3, <2>1 DEF Holding, StealCas, Goto
  <2>4. \A x \in Actors \ {w} : item'[x] = item[x]
    <3>1. UNCHANGED item \/ item' = [item EXCEPT ![w] = NULL]
      BY <1>3 DEF StealCas
    <3> QED
      BY <1>1, <3>1 DEF Typed
  <2>5. CASE pc'[w] = "idle" /\ UNCHANGED top
    <3>1. SameEntries /\ pc' = [pc EXCEPT ![w] = "idle"] /\ "idle" \notin Holding \cup {"pend"}
      BY <1>1, <2>1, <2>2, <2>3, <2>5, Unmoved DEF Holding, Typed
    <3>2. JobInv' /\ CountInv'
      BY <1>1, <2>1, <2>3, <2>4, <3>1, QuietStep
    <3> QED
      BY <2>2, <3>2
  <2>6. CASE /\ pc'[w] = "got" /\ item'[w] = item[w] /\ top[d] < LogicalBottom(d)
             /\ item[w] = buf[d][top[d] % Capacity[d]] /\ top' = [top EXCEPT ![d] = top[d] + 1]
    <3>1. pc' = [pc EXCEPT ![w] = "got"] /\ "got" \in Taken
      BY <1>1, <2>3, <2>6 DEF Typed, Taken
    <3>2. PICK e \in Workers : e = d
      BY <2>1
    <3>3. PICK i \in Nat : i = top[e]
      BY <2>1, <3>2
    <3>4. top'[e] = i + 1 /\ \A v \in Workers \ {e} : top'[v] = top[v]
      BY <1>1, <2>6, <3>2, <3>3 DEF Typed
    <3>5. LogicalBottom(e)' = LogicalBottom(e) /\ i < LogicalBottom(e) /\ LogicalBottom(e) \in Int
      BY <2>2, <2>6, <3>2, <3>3, LogicalBottomIs DEF DequeInv
    <3>6. \A v \in Workers \ {e} : Indices(v)' = Indices(v)
      BY <2>2, <3>4 DEF Indices
    <3>7. i \in Indices(e) /\ Indices(e)' = Indices(e) \ {i}
      BY <3>3, <3>4, <3>5 DEF Indices
    <3>8. \A v \in Workers : Indices(v)' = IF v = e THEN Indices(v) \ {i} ELSE Indices(v)
      BY <3>6, <3>7
    <3>9. item'[w] = buf[e][i % Capacity[e]] /\ i \in Int
      BY <2>6, <3>2, <3>3
    <3>10. JobInv' /\ CountInv'
      BY <1>1, <2>1, <2>3, <2>4, <3>1, <3>7, <3>8, <3>9, TakeStep
    <3> QED
      BY <2>2, <3>10
  <2> QED
    BY <2>2, <2>5, <2>6
<1> QED
  BY <1>2, <1>3

LEMMA PusherInv ==
  ASSUME ~overlapped', Inv, Typed', NEW a \in Actors, PushLoad(a) \/ PushWrite(a) \/ PushPublish(a)
  PROVE  Inv'
<1> USE DEF Inv
<1>1. Typed
  BY DEF DequeInv
<1>2. CASE PushLoad(a)
  <2>1. UNCHANGED <<top, buf, item, issued, dedicated, failed, ran, pending>> /\ pc[a] = "push_load"
    BY <1>2 DEF PushLoad, deques
  <2>2. DequeInv' /\ SameEntries
    BY <1>2, <2>1, PushLoadDequeInv, Unmoved
  <2>3. PICK label \in {"push_load", "push_write", "dedicate"} : pc' = [pc EXCEPT ![a] = label]
    <3>1. UNCHANGED pc => pc' = [pc EXCEPT ![a] = "push_load"]
      BY <1>1, <2>1 DEF Typed
    <3> QED
      BY <1>2, <3>1 DEF PushLoad, Goto
  <2>4. pc[a] \in Holding /\ label \in Holding /\ (label \in Taken <=> pc[a] \in Taken)
    BY <2>1, <2>3 DEF Holding, Taken
  <2> QED
    BY <1>1, <2>1, <2>2, <2>3, <2>4, QuietStep
<1>3. CASE PushWrite(a)
  <2>1. UNCHANGED <<item, issued, dedicated, failed, ran, pending>> /\ pc[a] = "push_write"
        /\ pc' = [pc EXCEPT ![a] = "push_publish"]
    BY <1>3 DEF PushWrite, locals, Goto
  <2>2. DequeInv' /\ SameEntries
    BY <1>3, PushWriteDequeInv DEF SameEntries, Indices
  <2>3. "push_write" \in Holding /\ "push_publish" \in Holding /\ "push_write" \notin Taken
        /\ "push_publish" \notin Taken
    BY DEF Holding, Taken
  <2> QED
    BY <1>1, <2>1, <2>2, <2>3, QuietStep
<1>4. CASE PushPublish(a)
  <2> DEFINE d == on[a]
  <2>1. UNCHANGED <<buf, issued, dedicated, failed, ran, pending>> /\ pc[a] = "push_publish"
        /\ pc' = [pc EXCEPT ![a] = "pend"] /\ \A x \in Actors \ {a} : item'[x] = item[x]
    BY <1>1, <1>4 DEF PushPublish, Goto, Typed
  <2>2. /\ DequeInv' /\ \A v \in Workers \ {d} : LogicalBottom(v)' = LogicalBottom(v)
        /\ UNCHANGED top /\ d \in Workers
        /\ b[a] \in Nat /\ LogicalBottom(d) = b[a] /\ LogicalBottom(d)' = b[a] + 1
        /\ top[d] <= b[a] /\ top[d] \in Nat
        /\ buf[d][b[a] % Capacity[d]] = item[a]
    BY <1>4, PushPublishDequeInv
  <2>3. PICK e \in Workers : e = d
    BY <2>2
  <2>4. PICK i \in Nat : i = b[a]
    BY <2>2
  <2>5. LogicalBottom(e) = i /\ LogicalBottom(e)' = i + 1 /\ top[e] <= i /\ top[e] \in Nat
        /\ buf[e][i % Capacity[e]] = item[a]
    <3>1. on'[a] = on[a]
      BY <1>4 DEF PushPublish
    <3> QED
      BY <2>2, <2>3, <2>4, <3>1
  <2>6. \A v \in Workers \ {e} : Indices(v)' = Indices(v)
    BY <2>2, <2>3 DEF Indices
  <2>7. i \notin Indices(e) /\ Indices(e)' = Indices(e) \cup {i} /\ i \in Int
    BY <2>2, <2>5 DEF Indices
  <2>8. \A v \in Workers : Indices(v)' = IF v = e THEN Indices(v) \cup {i} ELSE Indices(v)
    BY <2>6, <2>7
  <2>9. pc'[a] = "pend" /\ \A x \in Actors \ {a} : pc'[x] = pc[x]
    BY <1>1, <2>1 DEF Typed
  <2>10. JobInv'
    <3>1. \A x \in Actors \ {a} : SameHand(x)
      BY <2>1, <2>9 DEF SameHand
    <3>2. pc[a] \in Holding /\ pc'[a] \notin Holding /\ item[a] \in Jobs \cup {NULL}
      BY <1>1, <2>1, <2>9 DEF Holding, Typed
    <3> QED
      BY <2>1, <2>5, <2>7, <2>8, <3>1, <3>2, QueueJob
  <2>11. Entries' = Entries \cup {<<e, i>>} /\ <<e, i>> \notin Entries
    BY <2>7, <2>8 DEF Entries
  <2>12. Started' = Started /\ Uncounted' = Uncounted \cup {a} /\ a \notin Uncounted
    BY <2>1, <2>9 DEF Started, Uncounted, Actors
  <2>13. IsFiniteSet(Entries') /\ Cardinality(Entries') = Cardinality(Entries) + 1
    BY <2>11, FS_AddElement DEF CountInv
  <2>14. IsFiniteSet(Uncounted') /\ Cardinality(Uncounted') = Cardinality(Uncounted) + 1
    BY <2>12, FS_AddElement DEF CountInv
  <2>15. Cardinality(Entries) \in Nat /\ Cardinality(Uncounted) \in Nat /\ Cardinality(Started) \in Nat
         /\ pending \in Int /\ pending' = pending
    BY <1>1, <2>1, FS_CardinalityType DEF CountInv, Typed
  <2>16. CountInv'
    BY <2>12, <2>13, <2>14, <2>15 DEF CountInv
  <2> QED
    BY <2>2, <2>10, <2>16
<1> QED
  BY <1>2, <1>3, <1>4

LEMMA OutsideInv ==
  ASSUME Inv, Typed', NEW a \in Actors, Outside(a),
         StartJob(a) \/ FinishJob(a) \/ Spin(a) \/ IdleWait(a) => a \in Workers
  PROVE  Inv'
<1> USE DEF Inv
<1>1. Typed
  BY DEF DequeInv
<1>2. DequeInv' /\ SameEntries
  <2>1. UNCHANGED <<top, buf>>
    BY DEF Outside, StartJob, FinishJob, Spin, IdleWait, Spawn, AddPending, Notify, Dedicate, deques
  <2> QED
    BY <2>1, OutsideDequeInv, Unmoved
<1>3. CASE FinishJob(a) \/ Spin(a) \/ IdleWait(a)
  <2>1. UNCHANGED <<item, issued, dedicated, failed, ran, pending>>
    BY <1>3 DEF FinishJob, Spin, IdleWait, locals
  <2>2. PICK label \in {"loop", "asleep"} : pc' = [pc EXCEPT ![a] = label]
    BY <1>3 DEF FinishJob, Spin, IdleWait, Goto
  <2>3. pc[a] \notin Holding \cup {"pend"} /\ label \notin Holding \cup {"pend"}
    BY <1>3, <2>2 DEF FinishJob, Spin, IdleWait, Holding
  <2> QED
    BY <1>1, <1>2, <2>1, <2>2, <2>3, QuietStep
<1>4. CASE Notify(a)
  <2>1. UNCHANGED <<item, issued, dedicated, failed, ran, pending>> /\ pc[a] = "notify"
        /\ pc' = [x \in Actors |-> IF x = a THEN Back(a)
                                   ELSE IF pc[x] = "asleep" THEN "woken" ELSE pc[x]]
    BY <1>4 DEF Notify, locals
  <2>2. \A x \in Actors : pc'[x] = pc[x] \/ (pc[x] \in {"notify", "asleep"} /\ pc'[x] \in {"run", "out", "woken"})
    BY <2>1 DEF Back
  <2>3. \A x \in Actors : SameHand(x) /\ (pc'[x] \in Taken <=> pc[x] \in Taken) /\ (pc'[x] = "pend" <=> pc[x] = "pend")
    BY <2>1, <2>2 DEF SameHand, Holding, Taken
  <2> QED
    BY <1>2, <2>1, <2>3, QuietInv
<1>5. CASE Spawn(a)
  <2>1. JobInv'
    BY <1>1, <1>2, <1>5, SpawnJobInv
  <2>2. pc' = [pc EXCEPT ![a] = "push_load"] /\ pc[a] \in {"out", "run"} /\ UNCHANGED pending
    BY <1>5 DEF Spawn, Goto
  <2>3. Started' = Started /\ Uncounted' = Uncounted
    BY <1>1, <2>2 DEF Started, Uncounted, Typed, Actors
  <2>4. CountInv'
    BY <1>2, <2>2, <2>3, EntriesKept DEF CountInv
  <2> QED
    BY <1>2, <2>1, <2>4
<1>6. CASE Dedicate(a)
  <2>1. JobInv'
    BY <1>1, <1>2, <1>6, DedicateJobInv
  <2>2. pc' = [pc EXCEPT ![a] = Back(a)] /\ pc[a] = "dedicate" /\ UNCHANGED pending
    BY <1>6 DEF Dedicate, Goto
  <2>3. Started' = Started /\ Uncounted' = Uncounted
    BY <1>1, <2>2 DEF Started, Uncounted, Typed, Actors, Back
  <2>4. CountInv'
    BY <1>2, <2>2, <2>3, EntriesKept DEF CountInv
  <2> QED
    BY <1>2, <2>1, <2>4
<1>7. CASE StartJob(a)
  <2>1. JobInv'
    BY <1>1, <1>2, <1>7, StartJobInv
  <2>2. pc' = [pc EXCEPT ![a] = "run"] /\ pc[a] = "got" /\ pending' = pending - 1
    BY <1>7 DEF StartJob, Goto
  <2>3. Started' = Started \ {a} /\ a \in Started /\ Uncounted' = Uncounted
    BY <1>1, <1>7, <2>2 DEF Started, Uncounted, Typed, Actors
  <2>4. IsFiniteSet(Started') /\ Cardinality(Started') = Cardinality(Started) - 1
    BY <2>3, FS_RemoveElement DEF CountInv
  <2>5. Cardinality(Entries) \in Nat /\ Cardinality(Uncounted) \in Nat /\ Cardinality(Started) \in Nat
        /\ pending \in Int /\ Entries' = Entries
    BY <1>1, <1>2, FS_CardinalityType, EntriesKept DEF CountInv, Typed
  <2>6. CountInv'
    BY <2>2, <2>3, <2>4, <2>5 DEF CountInv
  <2> QED
    BY <1>2, <2>1, <2>6
<1>8. CASE AddPending(a)
  <2>1. pc' = [pc EXCEPT ![a] = "notify"] /\ pc[a] = "pend" /\ pending' = pending + 1
        /\ UNCHANGED <<item, issued, dedicated, failed, ran>>
    BY <1>8 DEF AddPending, Goto, locals
  <2>2. JobInv'
    <3>1. \A x \in Actors : SameHand(x)
      BY <1>1, <2>1 DEF SameHand, Holding, Typed
    <3> QED
      BY <1>2, <2>1, <3>1, QuietJobs
  <2>3. Started' = Started /\ a \in Uncounted /\ Uncounted' = Uncounted \ {a}
    BY <1>1, <2>1 DEF Started, Uncounted, Typed, Actors
  <2>4. IsFiniteSet(Uncounted') /\ Cardinality(Uncounted') = Cardinality(Uncounted) - 1
    BY <2>3, FS_RemoveElement DEF CountInv
  <2>5. Cardinality(Entries) \in Nat /\ Cardinality(Uncounted) \in Nat /\ Cardinality(Started) \in Nat
        /\ pending \in Int /\ Entries' = Entries
    BY <1>1, <1>2, FS_CardinalityType, EntriesKept DEF CountInv, Typed
  <2>6. CountInv'
    BY <2>1, <2>3, <2>4, <2>5 DEF CountInv
  <2> QED
    BY <1>2, <2>2, <2>6
<1> QED
  BY <1>3, <1>4, <1>5, <1>6, <1>7, <1>8 DEF Outside

LEMMA GivenInv == ASSUME Inv, NEW j \in Jobs, RunDedicated(j) PROVE Inv'
<1> USE DEF Inv
<1>1. UNCHANGED <<deques, pending, pc, b, t, item, on, tries, rr, clobbered>>
  BY DEF RunDedicated, locals
<1>2. Typed'
  BY <1>1 DEF DequeInv, Typed, deques
<1>3. DequeInv'
  BY <1>1, <1>2, Elsewhere
<1>4. CountInv'
  BY <1>1 DEF CountInv, Entries, Started, Uncounted, Indices, LogicalBottom, deques
<1> QED
  BY <1>3, <1>4, RunDedicatedJobInv

LEMMA NextInv == ~overlapped' /\ Inv /\ [Next]_vars => Inv'
<1> SUFFICES ASSUME ~overlapped', Inv, [Next]_vars PROVE Inv'
  OBVIOUS
<1>1. DequeInv /\ HistoryTyped
  BY DEF Inv, JobInv
<1>2. ASSUME NEW w \in Workers, WorkerStep(w) PROVE Inv'
  <2>1. Typed' /\ w \in Actors
    BY <1>1, <1>2, WorkerTyped DEF Actors
  <2> QED
    BY <1>2, <2>1, OwnerInv, ThiefInv, OutsideInv DEF WorkerStep, Outside
<1>3. ASSUME NEW a \in Actors, Spawn(a) \/ PushStep(a) PROVE Inv'
  <2>1. Typed'
    BY <1>1, <1>3, PushTyped
  <2>2. CASE PushLoad(a) \/ PushWrite(a) \/ PushPublish(a)
    BY <2>1, <2>2, PusherInv
  <2>3. CASE Spawn(a) \/ AddPending(a) \/ Notify(a) \/ Dedicate(a)
    <3>1. pc[a] \in {"out", "run", "pend", "notify", "dedicate"} /\ pc'[a] # "loop" /\ pc'[a] # "asleep"
      BY <1>1, <2>3 DEF Spawn, AddPending, Notify, Dedicate, Goto, Back, DequeInv, Typed
    <3>2. StartJob(a) \/ FinishJob(a) \/ Spin(a) \/ IdleWait(a) => a \in Workers
      BY <1>1, <3>1 DEF StartJob, FinishJob, Spin, IdleWait, Goto, DequeInv, Typed
    <3> QED
      BY <2>1, <2>3, <3>2, OutsideInv DEF Outside
  <2> QED
    BY <1>3, <2>2, <2>3 DEF PushStep
<1>4. CASE UNCHANGED vars
  <2>1. UNCHANGED <<top, bottom, buf, pending, pc, b, t, item, on, tries, rr, issued, dedicated, failed, ran, clobbered>>
    BY <1>4 DEF vars
  <2>2. DequeInv'
    BY <1>1, <2>1, Elsewhere DEF DequeInv, Typed, deques
  <2>3. SameEntries /\ \A x \in Actors : SameHand(x)
    BY <2>1 DEF SameEntries, SameHand, Indices, LogicalBottom
  <2>4. JobInv' /\ CountInv'
    BY <2>1, <2>3, QuietInv DEF Inv
  <2> QED
    BY <2>2, <2>4 DEF Inv
<1> QED
  BY <1>2, <1>3, <1>4, GivenInv DEF Next

LEMMA InitInv == Init => Inv
<1> SUFFICES ASSUME Init PROVE Inv
  OBVIOUS
<1>1. DequeInv /\ HistoryTyped
  BY InitDequeInv
<1>2. \A w \in Workers : Indices(w) = {}
  <2> SUFFICES ASSUME NEW w \in Workers PROVE Indices(w) = {}
    OBVIOUS
  <2>1. top[w] = 0 /\ LogicalBottom(w) = 0
    BY DEF Init, LogicalBottom, Popping, Actors
  <2> QED
    BY <2>1 DEF Indices
<1>3. \A a \in Actors : pc[a] \in {"loop", "out"}
  BY DEF Init
<1>4. JobInv
  <2>1. \A j, w, i : w \in Workers => ~At(w, i, j)
    BY <1>2 DEF At
  <2>2. \A j : \A a \in Actors : ~Holds(a, j)
    BY <1>3 DEF Holds, Holding
  <2>3. issued = 0 /\ 1 .. issued = {} /\ dedicated = {} /\ failed = {} /\ \A j \in Jobs : ran[j] = 0
    BY DEF Init
  <2>4. \A j : Accounted(j)
    BY <2>1, <2>2, <2>3 DEF Accounted
  <2> QED
    BY <1>1, <2>4 DEF JobInv
<1>5. CountInv
  <2>1. Entries = {} /\ Started = {} /\ Uncounted = {} /\ pending = 0
    BY <1>2, <1>3 DEF Entries, Started, Uncounted, Init, Actors
  <2> QED
    BY <2>1, FS_EmptySet DEF CountInv
<1> QED
  BY <1>1, <1>4, <1>5 DEF Inv

-----------------------------------------------------------------------------
(***************************************************************************)
(* Of every execution, until a push overlaps.                              *)
(***************************************************************************)
UntilOverlap == overlapped \in BOOLEAN /\ (~overlapped => Inv)

LEMMA InitUntilOverlap == Init => UntilOverlap
BY InitInv DEF Init, UntilOverlap

LEMMA Remembers == overlapped \in BOOLEAN /\ [Next]_vars => overlapped' \in BOOLEAN /\ (overlapped => overlapped')
BY DEF Next, WorkerStep, PushStep, PopLoad, PopStore, PopTop, PopRead, PopCas, PopRestore, StealTop,
       StealBottom, StealRead, StealCas, StartJob, FinishJob, Spin, IdleWait, Spawn, PushLoad,
       PushWrite, PushPublish, AddPending, Notify, Dedicate, RunDedicated, Begins, vars

LEMMA NextUntilOverlap == UntilOverlap /\ [Next]_vars => UntilOverlap'
BY Remembers, NextInv DEF UntilOverlap

\* As long as no push has overlapped the owner of its deque or another push there, no
\* job is lost or run twice: __maka_ws_push overwrites no job that is there to take,
\* and of __maka_ws_pop and the thieves of __maka_ws_steal one gets each job, and
\* what __maka_spawn_pthread reports as failed was not run: for any number of workers
\* and callers and any capacity of each deque.
THEOREM AlwaysNoJobLost == Spec => []NoJobLost
<1>1. UntilOverlap => NoJobLost
  <2> SUFFICES ASSUME Inv PROVE NoJobLost
    BY DEF UntilOverlap, NoJobLost
  <2>1. \A j \in Jobs : ran[j] <= 1 /\ (j \in failed => ran[j] = 0)
    BY DEF Inv, JobInv, Accounted
  <2>2. ASSUME NEW j \in 1 .. issued
        PROVE  ran[j] > 0 \/ j \in Queued \cup InHand \cup dedicated \cup failed
    <3>1. j \in Jobs
      BY MaxJobsAssumption DEF Inv, JobInv, HistoryTyped, Jobs
    <3>2. Accounted(j)
      BY <3>1 DEF Inv, JobInv
    <3>3. ASSUME NEW w \in Workers, NEW i \in Int, At(w, i, j) PROVE j \in Queued
      BY <3>3 DEF At, Queued
    <3>4. ASSUME NEW a \in Actors, Holds(a, j) PROVE j \in InHand
      BY <3>4 DEF Holds, InHand
    <3> QED
      BY <3>2, <3>3, <3>4 DEF Accounted
  <2> QED
    BY <2>1, <2>2 DEF NoJobLost
<1> QED
  BY InitUntilOverlap, NextUntilOverlap, <1>1, PTL DEF Spec

\* As long as no push has overlapped, __maka_ws_pending counts what the deques and the
\* workers about to run a job hold, but for the jobs published a moment ago by
\* __maka_spawn_job and not yet added: at no time does the counter that lets workers
\* sleep drift.
THEOREM AlwaysPendingCounts == Spec => []PendingCounts
<1>1. UntilOverlap => PendingCounts
  <2> SUFFICES ASSUME Inv, overlapped = FALSE PROVE PendingCounts
    BY DEF UntilOverlap, PendingCounts
  <2>1. Typed /\ clobbered = FALSE /\ HistoryTyped
    BY DEF Inv, DequeInv, JobInv
  <2>2. dedicated \subseteq Jobs /\ failed \subseteq Jobs
    BY <2>1, MaxJobsAssumption DEF HistoryTyped, Jobs
  <2>3. TypeOK
    BY <2>1, <2>2 DEF Typed, HistoryTyped, TypeOK
  <2> QED
    BY <2>3 DEF Inv, CountInv, PendingCounts
<1> QED
  BY InitUntilOverlap, NextUntilOverlap, <1>1, PTL DEF Spec
=============================================================================
