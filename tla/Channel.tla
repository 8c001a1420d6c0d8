------------------------------ MODULE Channel ------------------------------
(***************************************************************************)
(* The byte channel, and under it the lone scheduler: one home thread whose *)
(* anchor (its own C stack) and fibers take turns, and other threads that  *)
(* use the channel with them.  A fiber that finds the channel empty parks; *)
(* whoever wakes it puts it into the home's own queues or, from another    *)
(* thread, into the home's inbox.  The home looks into the inbox only when *)
(* its scheduler loop runs; the anchor enters the loop when it has to wait *)
(* and sees work in the home's own queues.                                 *)
(*                                                                         *)
(* One action is one critical section under the channel's mutex, or one    *)
(* turn of the loop between two accesses to what other threads see.        *)
(***************************************************************************)
EXTENDS Integers, Sequences, FiniteSets, SequencesExt

CONSTANTS
  Fibers, Threads,  \* fibers of the home, and other threads
  Anchor,           \* the home thread's own stack
  None,
  Homes,            \* the kinds of home: "main", and a "worker" of spawn_pool
  Capacity,         \* of the home's ring
  MaxSends,         \* bound of the model: items accepted
  MaxCalls,         \* bound of the model: operations each client on the home begins
  ThreadCalls       \* bound of the model: and each of the other threads

ASSUME CapacityAssumption == Capacity \in Nat \ {0}
ASSUME BoundsAssumption == {MaxSends, MaxCalls, ThreadCalls} \subseteq Nat
ASSUME HomesAssumption == Homes \subseteq {"main", "worker"}
ASSUME ClientsAssumption ==
  /\ IsFiniteSet(Fibers) /\ IsFiniteSet(Threads)
  /\ Fibers \cap Threads = {} /\ Anchor \notin Fibers \cup Threads
  /\ None \notin Fibers \cup Threads

Clients == Fibers \cup Threads \cup {Anchor}

VARIABLES
  queue, sent, closed, got,   \* the channel's items, as in ChannelQueue
  waiters,    \* threads in the condition wait
  inflight,   \* inflight_parkers
  parked,     \* fiber_waiters, the latest first
  freed,      \* destroy is over
  home,       \* the kind of the home thread
  ring,       \* the home's own deque
  global,     \* the group's queue: what does not fit the ring, or was in the inbox
  inbox,      \* remote_wake_head, the latest first
  pipe,       \* a byte is in the wake pipe
  inq,        \* in_queue of each fiber
  sleeping,   \* fibers on the timer list
  onfd,       \* fibers that wait for a descriptor
  intake,     \* the queue of fibers for the background workers
  at,         \* where the home is: a client runs ("on"), or a place in the loop
  cur,        \* the client that runs on the home, or was the last to
  joining,    \* maka_join_target: the fiber the anchor joins
  pc,         \* where each client is
  hold,       \* the fibers a client has taken off the list and must enqueue
  calls       \* how many operations each client has begun

channel == <<queue, sent, closed, got, waiters, inflight, parked, freed>>
queues == <<ring, global, inbox, pipe, inq, sleeping, onfd, intake>>
loop == <<at, cur, joining>>
vars == <<channel, queues, home, loop, pc, hold, calls>>

PC == {"unborn", "idle", "recv", "block", "waiting", "woken", "wake", "wakeall",
       "post", "ping", "dwake", "dpost", "dping", "drain", "dwait", "poll",
       "jwait", "nap", "intake", "done"}

\* What runs on the home thread; what a client on it does is local to it.
Local(a) == a \in Fibers \cup {Anchor}
Runs(a) == a \in Threads \/ (at = "on" /\ cur = a)

At(label) == {a \in Clients : pc[a] = label}
Destroying == freed \/ \E a \in Clients : pc[a] \in {"dwake", "dpost", "dping", "drain", "dwait"}

\* The anchor sees work: __maka_have_ready, a sleeper or a descriptor waiter.
HomeWork == ring # <<>> \/ global # <<>> \/ sleeping # {} \/ onfd # {}

\* The predicate of the park protocol and of the condition wait.
MustWait == queue = <<>> /\ ~closed

Init ==
  /\ queue = <<>> /\ sent = 0 /\ closed = FALSE /\ got = [a \in Clients |-> <<>>]
  /\ waiters = 0 /\ inflight = 0 /\ parked = <<>> /\ freed = FALSE
  /\ home \in Homes
  /\ ring = <<>> /\ global = <<>> /\ inbox = <<>> /\ pipe = FALSE
  /\ inq = [f \in Fibers |-> FALSE]
  /\ sleeping = {} /\ onfd = {} /\ intake = <<>>
  /\ at = "on" /\ cur = Anchor /\ joining = None
  /\ pc = [a \in Clients |-> IF a \in Fibers THEN "unborn"
                              ELSE IF a = Anchor /\ home = "worker" THEN "intake"
                              ELSE "idle"]
  /\ hold = [a \in Clients |-> <<>>]
  /\ calls = [a \in Clients |-> 0]

\* Client a begins an operation, or goes on with it at the given place.  Nobody
\* begins one once destroy was called, and who comes back to a channel that was
\* freed stops there: what it does with the memory is not modelled.
Begins(a) ==
  /\ pc[a] = "idle" /\ ~Destroying
  /\ calls[a] < (IF Local(a) THEN MaxCalls ELSE ThreadCalls)
  /\ calls' = [calls EXCEPT ![a] = @ + 1]

GoesOn(a, label) == pc[a] = label /\ ~freed /\ UNCHANGED calls

Goto(a, label) == pc' = [pc EXCEPT ![a] = label]

\* From the places given, one thread in the condition wait is woken, or none is.
SignalOne(places) ==
  IF At("waiting") = {} THEN pc' = places
  ELSE \E t \in At("waiting") : pc' = [places EXCEPT ![t] = "woken"]

\* The places, with those at one label moved to another.
Moved(places, from, to) ==
  [a \in Clients |-> IF places[a] = from THEN to ELSE places[a]]

\* __maka_ready_enqueue on the home thread: into the ring, or when that is full
\* into the group's queue; never a fiber that is queued already.
Enqueued(f) == inq[f]

RingTakesOneMore == Len(ring) <= Capacity
RingHasRoom == Len(ring) < Capacity

EnqueueLocal(f) ==
  IF Enqueued(f)
  THEN UNCHANGED <<ring, global, inq>>
  ELSE /\ inq' = [inq EXCEPT ![f] = TRUE]
       /\ IF RingHasRoom
          THEN ring' = Append(ring, f) /\ UNCHANGED global
          ELSE global' = Append(global, f) /\ UNCHANGED ring

\* A turn of the loop empties the pipe and then the inbox: a wake that comes
\* between the two leaves its byte.
InboxFirst == <<"inbox", "pipe">>
DrainOrder == <<"pipe", "inbox">>
Top == DrainOrder[1]
AfterDraining(place) == IF place = DrainOrder[1] THEN DrainOrder[2] ELSE "pick"

-----------------------------------------------------------------------------
(***************************************************************************)
(* The channel.                                                            *)
(***************************************************************************)
\* A closed channel refuses the item; else a thread is signalled in the same
\* critical section, and a fiber is woken in a second one.
Send(a) ==
  /\ Runs(a)
  /\ Begins(a)
  /\ IF closed
     THEN UNCHANGED <<queue, sent, pc>>
     ELSE /\ sent < MaxSends
          /\ sent' = sent + 1
          /\ queue' = Append(queue, sent + 1)
          /\ SignalOne([pc EXCEPT ![a] = "wake"])
  /\ UNCHANGED <<closed, got, waiters, inflight, parked, freed, queues, home, loop, hold>>

\* Client a has the first item, or the zero of a closed and empty channel.
TakesOrGivesUp(a) ==
  IF queue # <<>>
  THEN /\ queue' = Tail(queue)
       /\ got' = [got EXCEPT ![a] = Append(@, Head(queue))]
  ELSE /\ got' = [got EXCEPT ![a] = Append(@, 0)]
       /\ UNCHANGED queue

Receive(a) ==
  /\ Runs(a)
  /\ Begins(a) \/ GoesOn(a, "recv")
  /\ ~MustWait
  /\ TakesOrGivesUp(a)
  /\ Goto(a, "idle")
  /\ UNCHANGED <<sent, closed, waiters, inflight, parked, freed, queues, home, loop, hold>>

\* A fiber announces itself and switches out, to come back to the same place.
ParkFiber(f) ==
  /\ f \in Fibers
  /\ Runs(f)
  /\ Begins(f) \/ GoesOn(f, "recv")
  /\ MustWait
  /\ inflight' = inflight + 1
  /\ Goto(f, "recv")
  /\ at' = "park"
  /\ UNCHANGED <<queue, sent, closed, got, waiters, parked, freed, queues, home, cur, joining, hold>>

\* The anchor drives the scheduler if there is work, and else waits like a thread.
WaitOutside(a) ==
  /\ a \notin Fibers
  /\ Runs(a)
  /\ Begins(a) \/ GoesOn(a, "recv")
  /\ MustWait
  /\ IF a = Anchor /\ HomeWork
     THEN Goto(a, "recv") /\ at' = Top
     ELSE Goto(a, "block") /\ UNCHANGED at
  /\ UNCHANGED <<channel, queues, home, cur, joining, hold>>

\* A signal of drained_cv reaches destroy when c holds.
SignalsNobody(c, places) == pc' = places
SignalDrained(c, places) == pc' = IF c THEN Moved(places, "dwait", "dwake") ELSE places

Block(a) ==
  /\ Runs(a)
  /\ pc[a] = "block" /\ ~freed
  /\ IF MustWait
     THEN /\ waiters' = waiters + 1
          /\ Goto(a, "waiting")
          /\ UNCHANGED <<queue, got>>
     ELSE /\ TakesOrGivesUp(a)
          /\ SignalDrained(waiters = 0, [pc EXCEPT ![a] = "idle"])
          /\ UNCHANGED waiters
  /\ UNCHANGED <<sent, closed, inflight, parked, freed, queues, home, loop, hold, calls>>

\* Out of the condition wait the item is taken under the mutex that is held
\* already: a destroy that waits for this thread may free the channel after it.
WaitsAgainOnce == FALSE
WaitsAgain == MustWait

Wakes(a) ==
  /\ pc[a] = "woken"
  /\ IF WaitsAgain
     THEN /\ Goto(a, "waiting")
          /\ UNCHANGED <<queue, got, waiters>>
     ELSE /\ TakesOrGivesUp(a)
          /\ waiters' = waiters - 1
          /\ SignalDrained(waiters = 1, [pc EXCEPT ![a] = "idle"])
  /\ UNCHANGED <<sent, closed, inflight, parked, freed, queues, home, loop, hold, calls>>

SpuriousWakeup(a) ==
  /\ pc[a] = "waiting"
  /\ Goto(a, "woken")
  /\ UNCHANGED <<channel, queues, home, loop, hold, calls>>

TryReceive(a) ==
  /\ Runs(a)
  /\ Begins(a)
  /\ queue # <<>>
  /\ TakesOrGivesUp(a)
  /\ UNCHANGED <<sent, closed, waiters, inflight, parked, freed, queues, home, loop, pc, hold>>

Close(a) ==
  /\ Runs(a)
  /\ Begins(a)
  /\ closed' = TRUE
  /\ pc' = Moved([pc EXCEPT ![a] = "wakeall"], "waiting", "woken")
  /\ UNCHANGED <<queue, sent, got, waiters, inflight, parked, freed, queues, home, loop, hold>>

\* __maka_bchan_wake takes one fiber, or all, off the list and enqueues them
\* afterwards, outside the mutex.
WakeFibers(a) ==
  /\ Runs(a)
  /\ pc[a] \in {"wake", "wakeall", "dwake"} /\ ~freed
  /\ LET n == IF pc[a] = "wake" /\ parked # <<>> THEN 1 ELSE Len(parked)
     IN /\ hold' = [hold EXCEPT ![a] = SubSeq(parked, 1, n)]
        /\ parked' = SubSeq(parked, n + 1, Len(parked))
        /\ Goto(a, CASE pc[a] = "dwake" -> IF n = 0 THEN "drain" ELSE "dpost"
                     [] OTHER -> IF n = 0 THEN "idle" ELSE "post")
  /\ UNCHANGED <<queue, sent, closed, got, waiters, inflight, freed, queues, home, loop, calls>>

\* Where client a is when the rest of its list is rest.
AfterPost(a, rest) ==
  IF pc[a] \in {"dpost", "dping"}
  THEN IF rest = <<>> THEN "drain" ELSE "dpost"
  ELSE IF rest = <<>> THEN "idle" ELSE "post"

\* One fiber into the home's queues, or from another thread into its inbox; the
\* wake byte follows after the inbox is unlocked.
Post(a) ==
  /\ Runs(a)
  /\ pc[a] \in {"post", "dpost"}
  /\ hold' = [hold EXCEPT ![a] = Tail(@)]
  /\ LET f == Head(hold[a])
     IN IF Local(a)
        THEN /\ EnqueueLocal(f)
             /\ Goto(a, AfterPost(a, hold'[a]))
             /\ UNCHANGED inbox
        ELSE /\ inq' = [inq EXCEPT ![f] = TRUE]
             /\ inbox' = IF Enqueued(f) THEN inbox ELSE <<f>> \o inbox
             /\ Goto(a, IF pc[a] = "post" THEN "ping" ELSE "dping")
             /\ UNCHANGED <<ring, global>>
  /\ UNCHANGED <<channel, pipe, sleeping, onfd, intake, home, loop, calls>>

Ping(a) ==
  /\ pc[a] \in {"ping", "dping"}
  /\ pipe' = TRUE
  /\ Goto(a, AfterPost(a, hold[a]))
  /\ UNCHANGED <<channel, ring, global, inbox, inq, sleeping, onfd, intake, home, loop, hold, calls>>

-----------------------------------------------------------------------------
(***************************************************************************)
(* destroy: closes, empties, wakes everybody, waits for those it counts.   *)
(* It may be called with others inside the channel, in any place.          *)
(***************************************************************************)
Destroy(a) ==
  /\ Runs(a)
  /\ Begins(a)
  /\ closed' = TRUE
  /\ queue' = <<>>
  /\ pc' = Moved([pc EXCEPT ![a] = "dwake"], "waiting", "woken")
  /\ UNCHANGED <<sent, got, waiters, inflight, parked, freed, queues, home, loop, hold>>

DrainedForgetsWaiters == inflight = 0 /\ parked = <<>>
Drained == waiters = 0 /\ inflight = 0 /\ parked = <<>>

Drain(a) ==
  /\ Runs(a)
  /\ pc[a] = "drain"
  /\ IF Drained
     THEN freed' = TRUE /\ Goto(a, "idle")
     ELSE Goto(a, "dwait") /\ UNCHANGED freed
  /\ UNCHANGED <<queue, sent, closed, got, waiters, inflight, parked, queues, home, loop, hold, calls>>

-----------------------------------------------------------------------------
(***************************************************************************)
(* What else fibers and the anchor do.                                     *)
(***************************************************************************)
\* spawn on the main thread, spawn_pool to a background worker.
Spawn(a, f) ==
  /\ Runs(a)
  /\ pc[a] = "idle"
  /\ pc[f] = "unborn"
  /\ IF home = "main"
     THEN /\ Local(a)
          /\ EnqueueLocal(f)
          /\ UNCHANGED intake
     ELSE /\ intake' = Append(intake, f)
          /\ UNCHANGED <<ring, global, inq>>
  /\ Goto(f, "idle")
  /\ UNCHANGED <<channel, inbox, pipe, sleeping, onfd, home, loop, hold, calls>>

\* A background worker takes a fiber from the common queue and drives its own
\* scheduler until that has nothing to do.
Adopt ==
  /\ Runs(Anchor)
  /\ pc[Anchor] = "intake"
  /\ intake # <<>>
  /\ EnqueueLocal(Head(intake))
  /\ intake' = Tail(intake)
  /\ at' = Top
  /\ UNCHANGED <<channel, inbox, pipe, sleeping, onfd, home, cur, joining, pc, hold, calls>>

\* yield, sleep and wait_fd leave it to the loop to put the fiber on its list.
SwitchOut(f) ==
  /\ Runs(f)
  /\ pc[f] = "idle"
  /\ at' \in {"yield", "sleep", "fd"}
  /\ UNCHANGED <<channel, queues, home, cur, joining, pc, hold, calls>>

Finish(f) ==
  /\ Runs(f)
  /\ pc[f] = "idle"
  /\ Goto(f, "done")
  /\ at' = Top
  /\ UNCHANGED <<channel, queues, home, cur, joining, hold, calls>>

\* join of an own fiber that is on a list it looks through runs the loop until
\* the fiber is done; without any work on the home it is a condition wait, which
\* nothing ends, for only the home could run the fiber; else the anchor looks now
\* and then, and runs the loop when it sees work.
Listed(f) == f \in Range(global) \cup sleeping \cup onfd

Join(f) ==
  /\ Runs(Anchor)
  /\ Begins(Anchor)
  /\ home = "main"
  /\ pc[f] \notin {"unborn", "done"}
  /\ joining' = f
  /\ IF ~HomeWork THEN Goto(Anchor, "jwait") /\ UNCHANGED at
     ELSE IF Listed(f) THEN at' = Top /\ UNCHANGED pc
     ELSE Goto(Anchor, "poll") /\ UNCHANGED at
  /\ UNCHANGED <<channel, queues, home, cur, hold>>

PollTurn ==
  /\ Runs(Anchor)
  /\ pc[Anchor] = "poll"
  /\ IF pc[joining] = "done"
     THEN Goto(Anchor, "idle") /\ joining' = None /\ UNCHANGED at
     ELSE HomeWork /\ at' = Top /\ UNCHANGED <<pc, joining>>
  /\ UNCHANGED <<channel, queues, home, cur, hold, calls>>

\* sleep on the anchor runs the loop while it sees work there.
Nap ==
  /\ Runs(Anchor)
  /\ Begins(Anchor) \/ (pc[Anchor] = "nap" /\ UNCHANGED calls)
  /\ IF HomeWork
     THEN Goto(Anchor, "nap") /\ at' = Top
     ELSE Goto(Anchor, "idle") /\ UNCHANGED at
  /\ UNCHANGED <<channel, queues, home, cur, joining, hold>>

NapIsOver ==
  /\ Runs(Anchor)
  /\ pc[Anchor] = "nap"
  /\ Goto(Anchor, "idle")
  /\ UNCHANGED <<channel, queues, home, loop, hold, calls>>

-----------------------------------------------------------------------------
(***************************************************************************)
(* The scheduler loop of the home thread.                                  *)
(***************************************************************************)
EmptyPipe ==
  /\ at = "pipe"
  /\ pipe' = FALSE
  /\ at' = AfterDraining("pipe")
  /\ UNCHANGED <<channel, ring, global, inbox, inq, sleeping, onfd, intake, home, cur, joining,
                 pc, hold, calls>>

\* What comes from the inbox stays marked as queued.
InboxUnmarks == [f \in Fibers |-> inq[f] /\ f \notin Range(inbox)]
InboxKeepsMarks == inq

EmptyInbox ==
  /\ at = "inbox"
  /\ global' = global \o Reverse(inbox)
  /\ inq' = InboxKeepsMarks
  /\ inbox' = <<>>
  /\ at' = AfterDraining("inbox")
  /\ UNCHANGED <<channel, ring, pipe, sleeping, onfd, intake, home, cur, joining, pc, hold,
                 calls>>

\* Timers go off between two turns.
Expire(f) ==
  /\ at = "pick"
  /\ f \in sleeping
  /\ sleeping' = sleeping \ {f}
  /\ inq' = [inq EXCEPT ![f] = TRUE]
  /\ global' = Append(global, f)
  /\ UNCHANGED <<channel, ring, inbox, pipe, onfd, intake, home, loop, pc, hold, calls>>

\* The awaited fiber is done: back to the anchor's join.
JoinTargetDone == joining # None /\ pc[Anchor] # "poll" /\ pc[joining] = "done"

BackToJoin ==
  /\ at = "pick"
  /\ JoinTargetDone
  /\ joining' = None
  /\ at' = "on" /\ cur' = Anchor
  /\ UNCHANGED <<channel, queues, home, pc, hold, calls>>

PickFrom == IF ring # <<>> THEN ring ELSE global

Pick ==
  /\ at = "pick"
  /\ ~JoinTargetDone
  /\ PickFrom # <<>>
  /\ IF ring # <<>> THEN ring' = Tail(ring) /\ UNCHANGED global
                    ELSE global' = Tail(global) /\ UNCHANGED ring
  /\ inq' = [inq EXCEPT ![Head(PickFrom)] = FALSE]
  /\ cur' = Head(PickFrom)
  /\ at' = "on"
  /\ UNCHANGED <<channel, inbox, pipe, sleeping, onfd, intake, home, joining, pc, hold, calls>>

\* Nothing is ready.  With descriptor waiters the loop blocks in epoll_wait, else
\* it sleeps until a timer goes off, looks for the awaited fiber again, or hands
\* back to the anchor.
NothingReady == at = "pick" /\ ~JoinTargetDone /\ PickFrom = <<>>

Idle ==
  /\ NothingReady
  /\ IF onfd # {} THEN at' = "epoll" /\ UNCHANGED cur
     ELSE IF sleeping # {} \/ (joining # None /\ pc[Anchor] # "poll") THEN at' = Top /\ UNCHANGED cur
     ELSE at' = "on" /\ cur' = Anchor
  /\ UNCHANGED <<channel, queues, home, joining, pc, hold, calls>>

\* epoll_wait returns for the wake pipe or a timer, or with descriptors that are
\* ready; the deadline of a sleep on the anchor ends the wait for it.
EpollReturns ==
  /\ at = "epoll"
  /\ pipe \/ sleeping # {}
  /\ at' = Top
  /\ UNCHANGED <<channel, queues, home, cur, joining, pc, hold, calls>>

DescriptorReady(f) ==
  /\ at = "epoll"
  /\ f \in onfd
  /\ onfd' = onfd \ {f}
  /\ EnqueueLocal(f)
  /\ at' = Top
  /\ UNCHANGED <<channel, inbox, pipe, sleeping, intake, home, cur, joining, pc, hold, calls>>

AnchorDeadline ==
  /\ at = "epoll" \/ (NothingReady /\ sleeping # {})
  /\ pc[Anchor] = "nap"
  /\ at' = "on" /\ cur' = Anchor
  /\ UNCHANGED <<channel, queues, home, joining, pc, hold, calls>>

\* Once the fiber is switched out: on the channel's list if it must still wait.
ParksUntested == TRUE
Parks == MustWait

FinalizePark ==
  /\ at = "park"
  /\ IF Parks
     THEN parked' = <<cur>> \o parked /\ UNCHANGED <<ring, global, inq>>
     ELSE EnqueueLocal(cur) /\ UNCHANGED parked
  /\ inflight' = inflight - 1
  /\ SignalDrained(inflight = 1, pc)
  /\ at' = Top
  /\ UNCHANGED <<queue, sent, closed, got, waiters, freed, inbox, pipe, sleeping, onfd, intake, home,
                 cur, joining, hold, calls>>

FinalizeOther ==
  /\ at \in {"yield", "sleep", "fd"}
  /\ sleeping' = IF at = "sleep" THEN sleeping \cup {cur} ELSE sleeping
  /\ onfd' = IF at = "fd" THEN onfd \cup {cur} ELSE onfd
  /\ IF at = "yield" THEN EnqueueLocal(cur) ELSE UNCHANGED <<ring, global, inq>>
  /\ at' = Top
  /\ UNCHANGED <<channel, inbox, pipe, intake, home, cur, joining, pc, hold, calls>>

-----------------------------------------------------------------------------
\* What a client must do once it is in an operation.
Step(a) ==
  \/ GoesOn(a, "recv") /\ (Receive(a) \/ ParkFiber(a) \/ WaitOutside(a))
  \/ Block(a) \/ Wakes(a) \/ WakeFibers(a) \/ Post(a) \/ Ping(a) \/ Drain(a)

Calls(a) ==
  \/ Send(a) \/ Receive(a) \/ WaitOutside(a) \/ TryReceive(a) \/ Close(a) \/ Destroy(a)

FiberCalls(f) == ParkFiber(f) \/ SwitchOut(f) \/ Finish(f)

AnchorStep == Adopt \/ PollTurn \/ (pc[Anchor] = "nap" /\ Nap)

Loop ==
  \/ EmptyPipe \/ EmptyInbox \/ BackToJoin \/ Pick \/ Idle \/ EpollReturns
  \/ FinalizePark \/ FinalizeOther
  \/ \E f \in Fibers : Expire(f)

Next ==
  \/ \E a \in Clients : Calls(a) \/ Step(a)
  \/ \E f \in Fibers : FiberCalls(f) \/ Join(f) \/ DescriptorReady(f)
  \/ \E a \in Clients, f \in Fibers : Spawn(a, f)
  \/ \E a \in Clients : SpuriousWakeup(a)
  \/ AnchorStep \/ Nap \/ NapIsOver \/ AnchorDeadline
  \/ Loop

Spec == Init /\ [][Next]_vars

\* The home thread makes progress: its loop, and whoever runs on it as far as it
\* is in an operation; a fiber gets to its next operation or its end.  Time
\* passes.  Nothing is asked of descriptors, nor of the anchor between operations.
HomeStep ==
  \/ Loop \/ AnchorStep
  \/ \E a \in Fibers \cup {Anchor} : Step(a)
  \/ \E f \in Fibers : Calls(f) \/ FiberCalls(f)

Fairness ==
  /\ WF_vars(HomeStep)
  /\ \A t \in Threads : WF_vars(Step(t))
  /\ \A f \in Fibers : SF_vars(Expire(f))

FairSpec == Spec /\ Fairness

-----------------------------------------------------------------------------
(***************************************************************************)
(* Properties.                                                             *)
(***************************************************************************)
\* Every variable has its type; the ring holds no more than fits, and the
\* counters of those who wait are the numbers of clients that do.
TypeOK ==
  /\ queue \in Seq(1..MaxSends) /\ sent \in 0..MaxSends /\ closed \in BOOLEAN
  /\ got \in [Clients -> Seq(0..MaxSends)]
  /\ waiters = Cardinality(At("waiting") \cup At("woken"))
  /\ inflight = (IF at = "park" THEN 1 ELSE 0)
  /\ freed \in BOOLEAN /\ home \in Homes /\ pipe \in BOOLEAN
  /\ Len(ring) <= Capacity
  /\ {ring, global, inbox, parked, intake} \subseteq Seq(Fibers)
  /\ inq \in [Fibers -> BOOLEAN]
  /\ sleeping \subseteq Fibers /\ onfd \subseteq Fibers
  /\ at \in {"on", "pipe", "inbox", "pick", "epoll", "park", "yield", "sleep", "fd"}
  /\ cur \in Fibers \cup {Anchor} /\ joining \in Fibers \cup {None}
  /\ pc \in [Clients -> PC] /\ hold \in [Clients -> Seq(Fibers)]
  /\ calls \in [Clients -> Nat]

\* A fiber that has begun and not ended runs, or is in exactly one place where
\* somebody will find it: a queue (and then in_queue is set), a list, or the hands
\* of the client that wakes it.  (And every variable has its type.)
Running == IF at \in {"on", "park", "yield", "sleep", "fd"} THEN {cur} \cap Fibers ELSE {}

Times(f, s) == Cardinality({i \in DOMAIN s : s[i] = f})
In(f, S) == IF f \in S THEN 1 ELSE 0

Places(f) == Times(f, ring) + Times(f, global) + Times(f, inbox)

Holders(f) == {a \in Clients : f \in Range(hold[a])}
Elsewhere(f) ==
  Times(f, parked) + Times(f, intake) + In(f, sleeping) + In(f, onfd) + In(f, Running)
  + Cardinality(Holders(f))

InOnePlace ==
  /\ TypeOK
  /\ \A f \in Fibers :
       /\ Places(f) = (IF inq[f] THEN 1 ELSE 0)
       /\ Places(f) + Elsewhere(f) = (IF pc[f] \in {"unborn", "done"} THEN 0 ELSE 1)

\* Send signals a thread and wakes a fiber, each for an item that either may find
\* gone: as long as somebody is parked or waits, every item has a wake or a woken
\* client on its way, and a closed channel has nobody parked without one.
OnTheWay ==
  At("wake") \cup {f \in Fibers : pc[f] = "recv" /\ f \notin Range(parked)}

NoLostWakeup ==
  /\ parked # <<>> => /\ Len(queue) <= Cardinality(OnTheWay)
                      /\ closed => At("wakeall") \cup At("dwake") # {}
  /\ At("waiting") # {} => Len(queue) <= Cardinality(At("woken")) /\ ~closed

\* What the code says of destroy: it wakes every parked fiber, they see the channel
\* closed and return, and only then it is freed: no fiber that parked, and no thread
\* that waited, is left inside recv.
ParkedHaveReturned ==
  freed => At("waiting") \cup At("woken") = {} /\ At("recv") \cap Fibers = {}

\* The home blocks in epoll_wait only with nothing to run, and hears of what comes:
\* whatever is in the inbox has its byte in the wake pipe, the byte is on its way, or
\* the loop, having emptied the pipe, is about to look.
HomeHearsWakes ==
  /\ at = "epoll" => ring = <<>> /\ global = <<>> /\ onfd # {}
  /\ inbox # <<>> => pipe \/ at = "inbox" \/ At("ping") \cup At("dping") # {}

\* A destroy that waits for drained_cv is told: somebody is left who signals it, a
\* thread that was woken or a fiber that is being parked.
DestroyerIsTold == At("dwait") # {} => At("woken") # {} \/ at = "park"

\* A wake gets through all the way: from the operation to the receiver it is for,
\* and from another thread to the home that runs the receiver.
WakesGetThrough == NoLostWakeup /\ HomeHearsWakes

\* destroy, called in whatever state, outlasts those it counts: once the channel is
\* freed no thread is in its condition wait or on the way out of it, no fiber is
\* announced, being parked or parked, and whoever destroyed it is through.
CountedHaveLeft ==
  freed => /\ At("waiting") \cup At("woken") = {}
           /\ at # "park" /\ parked = <<>>
           /\ At("dwake") \cup At("dwait") \cup At("drain") = {}

\* destroy goes on when the last of them has left: not before, and it is told.
DestroyOutlastsUsers == CountedHaveLeft /\ DestroyerIsTold

\* Items come out in the order they went in, once, and zeros of a closed and empty
\* channel only: recv, try_recv, send, close and destroy act like one step each.
Queue == INSTANCE ChannelQueue
ImplementsQueue == Queue!Spec

\* A wake from another thread is not lost while the home drives its scheduler: the
\* fiber leaves the inbox, or the home is back with its anchor.  (Or whoever runs
\* there is about to touch a channel that was freed.)
Stopped == freed /\ at = "on" /\ pc[cur] \in {"recv", "block", "wake", "wakeall"}

Delivered ==
  \A f \in Fibers :
    f \in Range(inbox) ~> f \notin Range(inbox) \/ (at = "on" /\ cur = Anchor) \/ Stopped

\* Destroy gets to its end whatever waits there.
DestroyReturns == At("dwait") # {} ~> freed
=============================================================================
