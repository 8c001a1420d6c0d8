----------------------------- MODULE PoolSched -----------------------------
(***************************************************************************)
(* An explicit Pool: worker threads that share one scheduler, from         *)
(* pool_new to pool_free.  The first worker creates the scheduler and the  *)
(* others attach to it; fibers come in through the shared inbox; a worker  *)
(* takes from its own deque, from the shared queue, or from a peer's deque;*)
(* with nothing to run one worker polls for all and the others wait; the   *)
(* last worker to leave frees the scheduler.                               *)
(*                                                                         *)
(* Both waits of an idle worker are bounded (2 ms and 250 ms), so a wait   *)
(* may end at any time, and the signals that end it sooner are left out.   *)
(***************************************************************************)
EXTENDS Integers, Sequences, FiniteSets, SequencesExt

CONSTANTS
  Workers, Fibers,
  None,
  Room,          \* of a worker's deque
  MaxTurns,      \* bound of the model: how often a fiber switches out
  WalksAlone     \* TRUE: the descriptor list stays as it is while it is walked

ASSUME RoomAssumption == Room \in Nat \ {0}
ASSUME TurnsAssumption == MaxTurns \in Nat
ASSUME DisciplineAssumption == WalksAlone \in BOOLEAN
ASSUME ActorsAssumption == /\ IsFiniteSet(Workers) /\ IsFiniteSet(Fibers)
                           /\ None \notin Workers \cup Fibers

VARIABLES
  started,   \* the workers whose pthread_create succeeded
  wpc,       \* where each worker is
  creating,  \* pool->creating
  sched,     \* pool->sched and what it points to: "none", "live" or "freed"
  refs,      \* refcount of the scheduler
  poolclosed, closed,  \* pool->closed, and the group's closed
  inflight, polling,
  lock,      \* who holds the group lock, or None
  deque,     \* each worker's own deque
  run,       \* the shared queue
  inbox,     \* remote_wake_head, the latest first
  sleeping, onfd,      \* the timer list and the descriptor list
  parked,    \* fibers on the waiter list of something a thread will wake them from
  runs,      \* the fiber that is on each worker
  todo,      \* the descriptors epoll_wait returned, as the fibers that wait for them
  fpc,       \* what is to become of each fiber
  turns,     \* how often each fiber has switched out
  client,    \* where the thread is that owns the pool
  waking     \* the fiber another thread takes off the waiter list, and posts

group == <<closed, inflight, polling, lock>>
queues == <<deque, run, inbox, sleeping, onfd, parked>>
clients == <<client, waking, poolclosed>>
setup == <<started, creating, sched, refs>>
vars == <<setup, group, queues, clients, wpc, runs, todo, fpc, turns>>

Attached == {"top", "pick", "on", "switch", "idle", "epoll", "walk", "walked", "cvwait", "leave"}

Init ==
  /\ started \in SUBSET Workers
  /\ wpc = [w \in Workers |-> IF w \in started THEN "start" ELSE "never"]
  /\ creating = FALSE /\ sched = "none" /\ refs = 0
  /\ poolclosed = (started = {}) /\ closed = FALSE
  /\ inflight = 0 /\ polling = FALSE /\ lock = None
  /\ deque = [w \in Workers |-> <<>>] /\ run = <<>> /\ inbox = <<>>
  /\ sleeping = {} /\ onfd = {} /\ parked = {}
  /\ runs = [w \in Workers |-> None]
  /\ todo = [w \in Workers |-> {}]
  /\ fpc = [f \in Fibers |-> "unborn"]
  /\ turns = [f \in Fibers |-> 0]
  /\ client = "idle" /\ waking = None

Moves(w, from, to) == wpc[w] = from /\ wpc' = [wpc EXCEPT ![w] = to]

-----------------------------------------------------------------------------
(***************************************************************************)
(* Workers come and go.                                                    *)
(***************************************************************************)
BeginCreate(w) ==
  /\ ~creating
  /\ Moves(w, "start", "create")
  /\ creating' = TRUE
  /\ UNCHANGED <<started, sched, refs, group, queues, clients, runs, todo, fpc, turns>>

Publish(w) ==
  /\ Moves(w, "create", "top")
  /\ sched' = "live"
  /\ refs' = 1
  /\ UNCHANGED <<started, creating, group, queues, clients, runs, todo, fpc, turns>>

\* A worker that finds the scheduler published reads the pointer, and takes its
\* reference a moment later.
FindScheduler(w) ==
  /\ creating
  /\ sched # "none"
  /\ Moves(w, "start", "attach")
  /\ UNCHANGED <<setup, group, queues, clients, runs, todo, fpc, turns>>

\* By then pool_free may have closed the group, and the other workers may have left
\* and freed the scheduler.  Such a worker stops here: what it does with the memory is
\* not modelled.
Attach(w) ==
  /\ sched = "live"
  /\ Moves(w, "attach", "top")
  /\ refs' = refs + 1
  /\ UNCHANGED <<started, creating, sched, group, queues, clients, runs, todo, fpc, turns>>

\* One reference less; the last frees the scheduler.
UnrefLeaks == refs' = refs - 1 /\ UNCHANGED sched
Unref ==
  /\ refs' = refs - 1
  /\ sched' = IF refs = 1 THEN "freed" ELSE sched

Exit(w) ==
  /\ Moves(w, "leave", "gone")
  /\ Unref
  /\ UNCHANGED <<started, creating, group, queues, clients, runs, todo, fpc, turns>>

-----------------------------------------------------------------------------
(***************************************************************************)
(* The scheduler loop of a worker.                                         *)
(***************************************************************************)
LockFree == lock = None

\* The inbox and the timers that went off go to the shared queue, under the lock.
Drain(w) ==
  /\ LockFree
  /\ Moves(w, "top", "pick")
  /\ inbox' = <<>>
  /\ \E late \in SUBSET sleeping :
       /\ sleeping' = sleeping \ late
       /\ run' = run \o Reverse(inbox) \o SetToSeq(late)
  /\ UNCHANGED <<setup, group, deque, onfd, parked, clients, runs, todo, fpc, turns>>

\* Own deque, shared queue, a peer's deque, in this order.
Take(w) ==
  \/ /\ deque[w] # <<>>
     /\ runs' = [runs EXCEPT ![w] = Head(deque[w])]
     /\ deque' = [deque EXCEPT ![w] = Tail(@)]
     /\ UNCHANGED run
  \/ /\ deque[w] = <<>> /\ run # <<>> /\ LockFree
     /\ runs' = [runs EXCEPT ![w] = Head(run)]
     /\ run' = Tail(run)
     /\ UNCHANGED deque
  \/ /\ deque[w] = <<>> /\ run = <<>>
     /\ \E v \in Workers \ {w} :
          /\ deque[v] # <<>>
          /\ runs' = [runs EXCEPT ![w] = Head(deque[v])]
          /\ deque' = [deque EXCEPT ![v] = Tail(@)]
     /\ UNCHANGED run

Pick(w) ==
  /\ Moves(w, "pick", "on")
  /\ Take(w)
  /\ UNCHANGED <<setup, group, inbox, sleeping, onfd, parked, clients, todo, fpc, turns>>

HaveReady == run # <<>> \/ \E v \in Workers : deque[v] # <<>>

FindNothing(w) ==
  /\ Moves(w, "pick", "idle")
  /\ ~HaveReady
  /\ UNCHANGED <<setup, group, queues, clients, runs, todo, fpc, turns>>

\* A fiber spawns another, which counts as in flight before it is queued.
TakesOneMore(w) == Len(deque[w]) <= Room
HasRoom(w) == Len(deque[w]) < Room
PutOnDeque(w, f) ==
  IF HasRoom(w)
  THEN deque' = [deque EXCEPT ![w] = Append(@, f)] /\ UNCHANGED run
  ELSE LockFree /\ run' = Append(run, f) /\ UNCHANGED deque

SpawnHere(w, f) ==
  /\ wpc[w] = "on"
  /\ fpc[f] = "unborn"
  /\ fpc' = [fpc EXCEPT ![f] = "ready"]
  /\ inflight' = inflight + 1
  /\ PutOnDeque(w, f)
  /\ UNCHANGED <<setup, closed, polling, lock, inbox, sleeping, onfd, parked, clients, wpc, runs,
                 todo, turns>>

\* A fiber leaves the worker with a request where to put it once it is switched
\* out; until then nobody else may find it.
ListedAtOnce(f, how) ==
  /\ sleeping' = IF how = "sleep" THEN sleeping \cup {f} ELSE sleeping
  /\ parked' = IF how = "park" THEN parked \cup {f} ELSE parked
ListedLater(f, how) == UNCHANGED <<sleeping, parked>>

SwitchOut(w) ==
  /\ Moves(w, "on", "switch")
  /\ LET f == runs[w]
     IN /\ turns[f] < MaxTurns
        /\ turns' = [turns EXCEPT ![f] = @ + 1]
        /\ \E how \in {"yield", "sleep", "fd", "park"} :
             /\ fpc' = [fpc EXCEPT ![f] = how]
             /\ ListedLater(f, how)
  /\ UNCHANGED <<setup, group, deque, run, inbox, onfd, clients, runs, todo>>

Walking == {w \in Workers : wpc[w] = "walk"}

Finalize(w) ==
  /\ Moves(w, "switch", "top")
  /\ LET f == runs[w]
     IN /\ fpc' = [fpc EXCEPT ![f] = "ready"]
        /\ \/ /\ fpc[f] = "yield"
              /\ PutOnDeque(w, f)
              /\ UNCHANGED <<sleeping, onfd, parked>>
           \/ /\ fpc[f] = "sleep"
              /\ LockFree
              /\ sleeping' = sleeping \cup {f}
              /\ UNCHANGED <<deque, run, onfd, parked>>
           \/ /\ fpc[f] = "fd"
              /\ LockFree
              /\ WalksAlone => Walking = {}
              /\ onfd' = onfd \cup {f}
              /\ UNCHANGED <<deque, run, sleeping, parked>>
           \/ /\ fpc[f] = "park"
              /\ parked' = parked \cup {f}
              /\ UNCHANGED <<deque, run, sleeping, onfd>>
  /\ runs' = [runs EXCEPT ![w] = None]
  /\ UNCHANGED <<setup, group, inbox, clients, todo, turns>>

SettledNever == inflight
Settled == inflight - 1

Finish(w) ==
  /\ Moves(w, "on", "top")
  /\ fpc' = [fpc EXCEPT ![runs[w]] = "done"]
  /\ inflight' = Settled
  /\ runs' = [runs EXCEPT ![w] = None]
  /\ UNCHANGED <<setup, closed, polling, lock, queues, clients, todo, turns>>

\* Closed, and nothing in flight, asleep or waiting for a descriptor.
DrainedUncounted == closed /\ sleeping = {} /\ onfd = {}
Drained == closed /\ inflight = 0 /\ sleeping = {} /\ onfd = {}

\* Under the lock: once more for a ready fiber, then out, or polling for all, or
\* waiting for the worker that does.
PollsRegardless == TRUE
Polls == ~polling

Idle(w) ==
  /\ LockFree
  /\ wpc[w] = "idle"
  /\ IF HaveReady
     THEN wpc' = [wpc EXCEPT ![w] = "top"] /\ UNCHANGED polling
     ELSE IF Drained
     THEN wpc' = [wpc EXCEPT ![w] = "leave"] /\ UNCHANGED polling
     ELSE IF Polls
     THEN wpc' = [wpc EXCEPT ![w] = "epoll"] /\ polling' = TRUE
     ELSE wpc' = [wpc EXCEPT ![w] = "cvwait"] /\ UNCHANGED polling
  /\ UNCHANGED <<setup, closed, inflight, lock, queues, clients, runs, todo, fpc, turns>>

CvWaitEnds(w) ==
  /\ LockFree
  /\ Moves(w, "cvwait", "top")
  /\ UNCHANGED <<setup, group, queues, clients, runs, todo, fpc, turns>>

\* epoll_wait returns with any descriptors, and their waiters are looked up in the
\* list under the lock.
EpollReturns(w) ==
  /\ LockFree
  /\ Moves(w, "epoll", "walk")
  /\ lock' = w
  /\ \E ready \in SUBSET onfd : todo' = [todo EXCEPT ![w] = ready]
  /\ UNCHANGED <<setup, closed, inflight, polling, queues, clients, runs, fpc, turns>>

\* __maka_ready_enqueue ends with an unlock of its own, which here lets go of the
\* lock that the walk took.
WakeListed(w, f) ==
  /\ wpc[w] = "walk"
  /\ f \in todo[w]
  /\ lock \in {w, None}
  /\ todo' = [todo EXCEPT ![w] = @ \ {f}]
  /\ onfd' = onfd \ {f}
  /\ IF HasRoom(w)
     THEN deque' = [deque EXCEPT ![w] = Append(@, f)] /\ UNCHANGED run
     ELSE run' = Append(run, f) /\ UNCHANGED deque
  /\ lock' = None
  /\ UNCHANGED <<setup, closed, inflight, polling, inbox, sleeping, parked, clients, wpc, runs, fpc,
                 turns>>

\* An unlock of a mutex that one does not hold does nothing.
WalkEnds(w) ==
  /\ Moves(w, "walk", "walked")
  /\ todo[w] = {}
  /\ lock' = IF lock = w THEN None ELSE lock
  /\ UNCHANGED <<setup, closed, inflight, polling, queues, clients, runs, todo, fpc, turns>>

GivesBackKeeping == polling
GivesBack == FALSE
StopPolling(w) ==
  /\ LockFree
  /\ Moves(w, "walked", "top")
  /\ polling' = GivesBack
  /\ UNCHANGED <<setup, closed, inflight, lock, queues, clients, runs, todo, fpc, turns>>

-----------------------------------------------------------------------------
(***************************************************************************)
(* The thread that owns the pool, and one that wakes fibers of it.         *)
(***************************************************************************)
\* spawn_on waits for the scheduler; a closed pool fails the fiber.
SpawnFails(f) ==
  /\ client = "idle"
  /\ poolclosed
  /\ fpc[f] = "unborn"
  /\ fpc' = [fpc EXCEPT ![f] = "done"]
  /\ UNCHANGED <<setup, group, queues, clients, wpc, runs, todo, turns>>

SpawnOn(f) ==
  /\ client = "idle"
  /\ ~poolclosed /\ sched # "none"
  /\ fpc[f] = "unborn"
  /\ fpc' = [fpc EXCEPT ![f] = "posted"]
  /\ client' = "post"
  /\ inflight' = inflight + 1
  /\ UNCHANGED <<setup, closed, polling, lock, queues, waking, poolclosed, wpc, runs, todo, turns>>

\* Into the inbox with a reference to the scheduler, which is dropped afterwards.
Post(f) ==
  /\ refs' = refs + 1
  /\ inbox' = <<f>> \o inbox

PostSpawned(f) ==
  /\ client = "post"
  /\ fpc[f] = "posted"
  /\ Post(f)
  /\ fpc' = [fpc EXCEPT ![f] = "ready"]
  /\ client' = "unref"
  /\ UNCHANGED <<started, creating, sched, group, deque, run, sleeping, onfd, parked, waking,
                 poolclosed, wpc, runs, todo, turns>>

DropAfterSpawn ==
  /\ client = "unref"
  /\ Unref
  /\ client' = "idle"
  /\ UNCHANGED <<started, creating, group, queues, waking, poolclosed, wpc, runs, todo, fpc, turns>>

PostWoken(f) ==
  /\ waking = None
  /\ f \in parked
  /\ parked' = parked \ {f}
  /\ Post(f)
  /\ waking' = f
  /\ UNCHANGED <<started, creating, sched, group, deque, run, sleeping, onfd, client, poolclosed, wpc,
                 runs, todo, fpc, turns>>

DropAfterWake ==
  /\ waking # None
  /\ Unref
  /\ waking' = None
  /\ UNCHANGED <<started, creating, group, queues, client, poolclosed, wpc, runs, todo, fpc, turns>>

\* pool_free: closed for spawn_on, then for the workers, who are joined.
Free ==
  /\ client = "idle"
  /\ poolclosed' = TRUE
  /\ client' = "close"
  /\ UNCHANGED <<setup, group, queues, waking, wpc, runs, todo, fpc, turns>>

CloseGroup ==
  /\ client = "close"
  /\ IF started = {}
     THEN UNCHANGED closed
     ELSE /\ sched # "none"
          /\ LockFree
          /\ closed' = TRUE
  /\ client' = "ping"
  /\ UNCHANGED <<setup, inflight, polling, lock, queues, waking, poolclosed, wpc, runs, todo, fpc,
                 turns>>

\* The wake pipe's descriptor is read from the scheduler after its lock is released,
\* when the workers may have left; the byte changes nothing that is modelled.
PingWorkers ==
  /\ client = "ping"
  /\ client' = "join"
  /\ UNCHANGED <<setup, group, queues, waking, poolclosed, wpc, runs, todo, fpc, turns>>

JoinWorkers ==
  /\ client = "join"
  /\ \A w \in started : wpc[w] = "gone"
  /\ client' = "freed"
  /\ UNCHANGED <<setup, group, queues, waking, poolclosed, wpc, runs, todo, fpc, turns>>

-----------------------------------------------------------------------------
WorkerStep(w) ==
  \/ BeginCreate(w) \/ Publish(w) \/ FindScheduler(w) \/ Attach(w) \/ Exit(w)
  \/ Drain(w) \/ Pick(w) \/ FindNothing(w) \/ SwitchOut(w) \/ Finalize(w) \/ Finish(w)
  \/ Idle(w) \/ CvWaitEnds(w) \/ EpollReturns(w) \/ WalkEnds(w) \/ StopPolling(w)
  \/ \E f \in Fibers : WakeListed(w, f)

ClientStep ==
  \/ DropAfterSpawn \/ CloseGroup \/ PingWorkers \/ JoinWorkers
  \/ \E f \in Fibers : PostSpawned(f)

WakerStep == DropAfterWake \/ \E f \in Fibers : PostWoken(f)

Next ==
  \/ \E w \in Workers : WorkerStep(w) \/ \E f \in Fibers : SpawnHere(w, f)
  \/ ClientStep \/ WakerStep
  \/ \E f \in Fibers : SpawnOn(f) \/ SpawnFails(f)
  \/ Free

Spec == Init /\ [][Next]_vars

\* Threads run and get the lock in turn, waits are bounded, fibers end or switch out,
\* whoever holds a parked fiber's wake gives it; time passes and descriptors become
\* ready.
Fairness ==
  /\ \A w \in Workers : SF_vars(WorkerStep(w))
  /\ SF_vars(ClientStep) /\ WF_vars(WakerStep)
  /\ SF_vars(\E w \in Workers : Drain(w) /\ sleeping' = {})
  /\ SF_vars(\E w \in Workers : EpollReturns(w) /\ todo'[w] = onfd)

FairSpec == Spec /\ Fairness

-----------------------------------------------------------------------------
(***************************************************************************)
(* Properties.                                                             *)
(***************************************************************************)
\* Every variable has its type, and no deque holds more than fits.
TypeOK ==
  /\ started \subseteq Workers /\ creating \in BOOLEAN
  /\ sched \in {"none", "live", "freed"} /\ refs \in Int
  /\ {poolclosed, closed, polling} \subseteq BOOLEAN
  /\ inflight \in Int /\ lock \in Workers \cup {None}
  /\ wpc \in [Workers -> Attached \cup {"never", "start", "create", "attach", "gone"}]
  /\ deque \in [Workers -> Seq(Fibers)] /\ \A w \in Workers : Len(deque[w]) <= Room
  /\ {run, inbox} \subseteq Seq(Fibers)
  /\ UNION {sleeping, onfd, parked} \subseteq Fibers
  /\ runs \in [Workers -> Fibers \cup {None}] /\ todo \in [Workers -> SUBSET Fibers]
  /\ fpc \in [Fibers -> {"unborn", "posted", "ready", "yield", "sleep", "fd", "park", "done"}]
  /\ turns \in [Fibers -> 0..MaxTurns]
  /\ client \in {"idle", "post", "unref", "close", "ping", "join", "freed"}
  /\ waking \in Fibers \cup {None}

\* A fiber that was accepted and has not ended is in exactly one place: on one
\* worker, in one queue, on one list.  Two workers never run it.  (And every
\* variable has its type.)
Times(f, s) == Cardinality({i \in DOMAIN s : s[i] = f})
Places(f) ==
  Times(f, run) + Times(f, inbox)
  + Cardinality({w \in Workers : runs[w] = f})
  + Cardinality({at \in Workers \X (1..Room) :
                   at[2] \in DOMAIN deque[at[1]] /\ deque[at[1]][at[2]] = f})
  + Cardinality({l \in {1, 2, 3} : f \in <<sleeping, onfd, parked>>[l]})

InOnePlace ==
  /\ TypeOK
  /\ \A f \in Fibers : Places(f) = (IF fpc[f] \in {"unborn", "posted", "done"} THEN 0 ELSE 1)

\* At most one worker polls, and the flag says whether one does.
OnePoller ==
  Cardinality({w \in Workers : wpc[w] \in {"epoll", "walk", "walked"}}) = (IF polling THEN 1 ELSE 0)

\* No worker leaves, and nothing is freed, before every accepted fiber has ended.
NoneLeftBehind ==
  (\E w \in Workers : wpc[w] \in {"leave", "gone"}) =>
    \A f \in Fibers : fpc[f] \in {"unborn", "done"}

\* The references are those of the attached workers and of the two threads that post,
\* and the scheduler is freed with the last of them: while one is left it lives.
RefsMatchHolders ==
  /\ refs = Cardinality({w \in Workers : wpc[w] \in Attached})
              + (IF client = "unref" THEN 1 ELSE 0) + (IF waking # None THEN 1 ELSE 0)
  /\ sched = "live" <=> refs > 0

\* What the code says of it: the last worker's exit frees it.
FreedByTheLastWorker == sched = "freed" => \A w \in started : wpc[w] = "gone"

\* Every fiber that was accepted ends: none is spawned twice, and a time comes when
\* none is left.
EveryFiberEnds ==
  (\E f \in Fibers : fpc[f] \notin {"unborn", "done"}) ~> (\A f \in Fibers : fpc[f] \in {"unborn", "done"})

\* pool_free returns, unless a worker comes to attach when the others have freed the
\* scheduler.
Late(w) == sched = "freed" /\ wpc[w] \in {"start", "attach"}
FreeReturns == client = "close" ~> (client = "freed" \/ \E w \in Workers : Late(w))
=============================================================================
