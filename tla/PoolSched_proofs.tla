-------------------------- MODULE PoolSched_proofs --------------------------
(***************************************************************************)
(* Proofs about PoolSched for any number of workers, fibers and turns: one *)
(* worker polls, every fiber is in one place, nobody leaves while a fiber  *)
(* is in flight, and the scheduler lives as long as it has holders.        *)
(***************************************************************************)
EXTENDS PoolSched, FiniteSetTheorems, SequenceTheorems, TLAPS

-----------------------------------------------------------------------------
(***************************************************************************)
(* How often a fiber is in a sequence.                                     *)
(***************************************************************************)
\* Two finite sets that are in one-to-one correspondence have as many elements.
LEMMA Matched ==
  ASSUME NEW S, NEW T, IsFiniteSet(S), NEW m \in [S -> T],
         \A a, b \in S : m[a] = m[b] => a = b,
         \A y \in T : \E a \in S : m[a] = y
  PROVE  IsFiniteSet(T) /\ Cardinality(T) = Cardinality(S)
<1>1. m \in Bijection(S, T)
  BY DEF Bijection, Injection, Surjection, IsInjective
<1>2. ExistsBijection(S, T)
  BY <1>1 DEF ExistsBijection
<1> QED
  BY <1>2, FS_Bijection

\* Where f is in the sequence s.
Spots(f, s) == {i \in DOMAIN s : s[i] = f}

LEMMA SpotsFinite ==
  ASSUME NEW A, NEW s \in Seq(A), NEW f
  PROVE  IsFiniteSet(Spots(f, s)) /\ Times(f, s) \in Nat /\ Times(f, s) = Cardinality(Spots(f, s))
         /\ (Times(f, s) = 0 <=> \A i \in DOMAIN s : s[i] # f)
<1>1. Len(s) \in Nat /\ DOMAIN s = 1 .. Len(s)
  BY LenProperties
<1>2. IsFiniteSet(1 .. Len(s))
  BY <1>1, FS_Interval
<1>3. IsFiniteSet(Spots(f, s))
  BY <1>1, <1>2, FS_Subset DEF Spots
<1>4. Times(f, s) = Cardinality(Spots(f, s))
  BY DEF Times, Spots
<1>5. Cardinality(Spots(f, s)) \in Nat
  BY <1>3, FS_CardinalityType
<1>6. Cardinality(Spots(f, s)) = 0 <=> Spots(f, s) = {}
  BY <1>3, FS_EmptySet
<1> QED
  BY <1>3, <1>4, <1>5, <1>6 DEF Spots

LEMMA TimesEmpty == \A f : Times(f, <<>>) = 0
<1> SUFFICES ASSUME NEW f PROVE Times(f, <<>>) = 0
  OBVIOUS
<1>1. {i \in DOMAIN << >> : << >>[i] = f} = {}
  OBVIOUS
<1> QED
  BY <1>1, FS_EmptySet DEF Times

LEMMA TimesConcat ==
  ASSUME NEW A, NEW s \in Seq(A), NEW u \in Seq(A), NEW f
  PROVE  Times(f, s \o u) = Times(f, s) + Times(f, u)
<1> DEFINE P == Spots(f, s)
           Q == Spots(f, u)
           R == {i \in (Len(s) + 1) .. (Len(s) + Len(u)) : u[i - Len(s)] = f}
<1>1. /\ Len(s) \in Nat /\ Len(u) \in Nat /\ DOMAIN s = 1 .. Len(s) /\ DOMAIN u = 1 .. Len(u)
      /\ s \o u \in Seq(A) /\ Len(s \o u) = Len(s) + Len(u)
      /\ DOMAIN (s \o u) = 1 .. Len(s) + Len(u)
  BY LenProperties, ConcatProperties
<1>2. \A i \in 1 .. Len(s) + Len(u) : (s \o u)[i] = IF i <= Len(s) THEN s[i] ELSE u[i - Len(s)]
  BY ConcatProperties
<1>3. Spots(f, s \o u) = P \cup R
  BY <1>1, <1>2 DEF Spots
<1>4. P \cap R = {}
  BY <1>1 DEF Spots
<1>5. IsFiniteSet(P) /\ IsFiniteSet(Q) /\ Cardinality(P) \in Nat /\ Cardinality(Q) \in Nat
  BY SpotsFinite
<1>6. IsFiniteSet(R) /\ Cardinality(R) = Cardinality(Q)
  <2> DEFINE m == [i \in Q |-> i + Len(s)]
  <2>1. m \in [Q -> R]
    BY <1>1 DEF Spots
  <2>2. \A a, b \in Q : m[a] = m[b] => a = b
    BY <1>1 DEF Spots
  <2>3. ASSUME NEW y \in R PROVE \E a \in Q : m[a] = y
    <3>1. y - Len(s) \in Q
      BY <1>1 DEF Spots
    <3> QED
      BY <1>1, <3>1
  <2> HIDE DEF m, R, Q
  <2> QED
    BY <1>5, <2>1, <2>2, <2>3, Matched
<1>7. Cardinality(P \cap R) = 0
  BY <1>4, FS_EmptySet
<1>8. Cardinality(P \cup R) = Cardinality(P) + Cardinality(Q)
  <2> HIDE DEF P, Q, R
  <2>1. Cardinality(P \cup R) = Cardinality(P) + Cardinality(R) - Cardinality(P \cap R)
    BY <1>5, <1>6, FS_Union
  <2> QED
    BY <1>5, <1>6, <1>7, <2>1
<1> QED
  BY <1>1, <1>3, <1>8, SpotsFinite

LEMMA TimesOne == \A f, g : Times(f, <<g>>) = IF g = f THEN 1 ELSE 0
<1> SUFFICES ASSUME NEW f, NEW g PROVE Times(f, <<g>>) = IF g = f THEN 1 ELSE 0
  OBVIOUS
<1>1. Times(f, <<g>>) = Cardinality({i \in {1} : <<g>>[i] = f})
  BY DEF Times
<1>2. CASE g = f
  <2>1. {i \in {1} : <<g>>[i] = f} = {1}
    BY <1>2
  <2> QED
    BY <1>1, <1>2, <2>1, FS_Singleton
<1>3. CASE g # f
  <2>1. {i \in {1} : <<g>>[i] = f} = {}
    BY <1>3
  <2> QED
    BY <1>1, <1>3, <2>1, FS_EmptySet
<1> QED
  BY <1>2, <1>3

LEMMA TimesAppend ==
  ASSUME NEW A, NEW s \in Seq(A), NEW g \in A, NEW f
  PROVE  Times(f, Append(s, g)) = Times(f, s) + (IF g = f THEN 1 ELSE 0)
<1>1. Append(s, g) = s \o <<g>> /\ <<g>> \in Seq(A)
  BY AppendIsConcat
<1>2. Times(f, s \o <<g>>) = Times(f, s) + Times(f, <<g>>)
  BY <1>1, TimesConcat
<1>3. Times(f, <<g>>) = IF g = f THEN 1 ELSE 0
  BY TimesOne
<1> QED
  BY <1>1, <1>2, <1>3

LEMMA TimesTail ==
  ASSUME NEW A, NEW s \in Seq(A), s # <<>>, NEW f
  PROVE  Times(f, s) = Times(f, Tail(s)) + (IF Head(s) = f THEN 1 ELSE 0)
<1>1. s = <<Head(s)>> \o Tail(s) /\ <<Head(s)>> \in Seq(A) /\ Tail(s) \in Seq(A)
  BY HeadTailProperties, ConcatProperties, SeqEqual
<1>2. Times(f, s) = Times(f, <<Head(s)>>) + Times(f, Tail(s))
  BY <1>1, TimesConcat
<1>3. Times(f, <<Head(s)>>) = IF Head(s) = f THEN 1 ELSE 0
  BY TimesOne
<1>4. Times(f, Tail(s)) \in Nat
  BY <1>1, SpotsFinite
<1> QED
  BY <1>1, <1>2, <1>3, <1>4

LEMMA TimesReverse ==
  ASSUME NEW A, NEW s \in Seq(A), NEW f
  PROVE  Reverse(s) \in Seq(A) /\ Times(f, Reverse(s)) = Times(f, s)
<1>1. Len(s) \in Nat /\ DOMAIN s = 1 .. Len(s) /\ s \in [1 .. Len(s) -> A]
  BY LenProperties
<1>2. Reverse(s) \in [1 .. Len(s) -> A] /\ Reverse(s) \in Seq(A) /\ DOMAIN Reverse(s) = 1 .. Len(s)
  <2>1. Reverse(s) \in [1 .. Len(s) -> A]
    BY <1>1 DEF Reverse
  <2> QED
    BY <1>1, <2>1, IsASeq
<1> DEFINE P == Spots(f, s)
           R == Spots(f, Reverse(s))
           m == [i \in P |-> Len(s) - i + 1]
<1>3. m \in [P -> R]
  BY <1>1, <1>2 DEF Spots, Reverse
<1>4. \A a, b \in P : m[a] = m[b] => a = b
  BY <1>1 DEF Spots
<1>5. ASSUME NEW y \in R PROVE \E a \in P : m[a] = y
  <2>1. Len(s) - y + 1 \in P
    BY <1>1, <1>2 DEF Spots, Reverse
  <2> QED
    BY <1>1, <1>2, <2>1 DEF Spots
<1>6. IsFiniteSet(P)
  BY SpotsFinite
<1>7. Cardinality(R) = Cardinality(P)
  <2> HIDE DEF m, P, R
  <2> QED
    BY <1>3, <1>4, <1>5, <1>6, Matched
<1> QED
  BY <1>2, <1>7, SpotsFinite

LEMMA TimesSetToSeq ==
  ASSUME NEW S, IsFiniteSet(S), NEW f
  PROVE  SetToSeq(S) \in Seq(S) /\ Times(f, SetToSeq(S)) = IF f \in S THEN 1 ELSE 0
<1> DEFINE n == Cardinality(S)
           q == SetToSeq(S)
<1>1. n \in Nat /\ ExistsBijection(1 .. n, S)
  BY FS_CardinalityType
<1>2. PICK h : h \in Bijection(1 .. n, S)
  BY <1>1 DEF ExistsBijection
<1>3. h \in [1 .. n -> S] /\ IsInjective(h)
  BY <1>2 DEF Bijection, Injection
<1>4. q \in [1 .. n -> S] /\ IsInjective(q)
  BY <1>3 DEF SetToSeq
<1>5. q \in Injection(1 .. n, S)
  BY <1>4 DEF Injection
<1>6. IsFiniteSet(1 .. n) /\ Cardinality(1 .. n) = n
  BY <1>1, FS_Interval
<1>7. q \in Surjection(1 .. n, S)
  BY <1>5, <1>6, FS_Injection
<1>8. q \in Seq(S)
  BY <1>1, <1>4, IsASeq
<1>9. DOMAIN q = 1 .. n
  BY <1>4
<1>10. CASE f \in S
  <2>1. PICK j \in 1 .. n : q[j] = f
    BY <1>7, <1>10 DEF Surjection
  <2>2. {i \in DOMAIN q : q[i] = f} = {j}
    BY <1>4, <1>9, <2>1 DEF IsInjective
  <2> QED
    BY <1>8, <1>10, <2>2, FS_Singleton DEF Times
<1>11. CASE f \notin S
  <2>1. {i \in DOMAIN q : q[i] = f} = {}
    BY <1>4, <1>9, <1>11
  <2> QED
    BY <1>8, <1>11, <2>1, FS_EmptySet DEF Times
<1> QED
  BY <1>10, <1>11
-----------------------------------------------------------------------------
(***************************************************************************)
(* The invariant, with the worker that polls named rather than counted.    *)
(***************************************************************************)
PollPlaces == {"epoll", "walk", "walked"}

PollInv ==
  /\ wpc = [w \in Workers |-> wpc[w]]
  /\ polling \in BOOLEAN
  /\ polling => \E p \in Workers : \A w \in Workers : wpc[w] \in PollPlaces <=> w = p
  /\ ~polling => \A w \in Workers : wpc[w] \notin PollPlaces

LEMMA InitPollInv == Init => PollInv
BY DEF Init, PollInv, PollPlaces

\* A step that leaves the flag alone and moves one worker within the places from
\* which it polls, or within the others.
LEMMA SamePoller ==
  ASSUME PollInv, UNCHANGED polling, NEW v \in Workers, NEW to,
         wpc' = [wpc EXCEPT ![v] = to],
         to \in PollPlaces <=> wpc[v] \in PollPlaces
  PROVE  PollInv'
<1>1. wpc' = [w \in Workers |-> wpc'[w]]
  BY DEF PollInv
<1>2. \A w \in Workers : wpc'[w] \in PollPlaces <=> wpc[w] \in PollPlaces
  BY DEF PollInv
<1> QED
  BY <1>1, <1>2 DEF PollInv

\* A step that moves nobody and leaves the flag alone.
LEMMA StillPoller ==
  ASSUME PollInv, UNCHANGED <<wpc, polling>>
  PROVE  PollInv'
BY DEF PollInv

\* A worker starts to poll, when nobody does.
LEMMA BecomesPoller ==
  ASSUME PollInv, ~polling, polling' = TRUE, NEW v \in Workers,
         wpc' = [wpc EXCEPT ![v] = "epoll"]
  PROVE  PollInv'
<1>1. \A w \in Workers : wpc'[w] \in PollPlaces <=> w = v
  BY DEF PollInv, PollPlaces
<1> QED
  BY <1>1 DEF PollInv

\* The worker that polls goes back to the top of its loop.
LEMMA CeasesToPoll ==
  ASSUME PollInv, polling' = FALSE, NEW v \in Workers, wpc[v] = "walked",
         wpc' = [wpc EXCEPT ![v] = "top"]
  PROVE  PollInv'
<1>1. polling
  BY DEF PollInv, PollPlaces
<1>2. \A w \in Workers : wpc[w] \in PollPlaces <=> w = v
  BY <1>1 DEF PollInv, PollPlaces
<1>3. \A w \in Workers : wpc'[w] \notin PollPlaces
  BY <1>2 DEF PollInv, PollPlaces
<1> QED
  BY <1>3 DEF PollInv

-----------------------------------------------------------------------------
(***************************************************************************)
(* Every step of a worker.                                                 *)
(***************************************************************************)
LEMMA WorkerStepPollInv ==
  ASSUME PollInv, NEW w \in Workers, WorkerStep(w)
  PROVE  PollInv'
<1> USE DEF Moves, PollPlaces, group
<1>1. CASE BeginCreate(w) \/ Publish(w) \/ FindScheduler(w) \/ Attach(w) \/ Exit(w)
  BY <1>1, SamePoller DEF BeginCreate, Publish, FindScheduler, Attach, Exit
<1>2. CASE Drain(w) \/ Pick(w) \/ FindNothing(w)
  BY <1>2, SamePoller DEF Drain, Pick, FindNothing
<1>3. CASE SwitchOut(w) \/ Finalize(w) \/ Finish(w)
  BY <1>3, SamePoller DEF SwitchOut, Finalize, Finish
<1>4. CASE Idle(w)
  <2>1. CASE HaveReady
    BY <1>4, <2>1, SamePoller DEF Idle
  <2>2. CASE ~HaveReady /\ Drained
    BY <1>4, <2>2, SamePoller DEF Idle
  <2>3. CASE ~HaveReady /\ ~Drained /\ Polls
    BY <1>4, <2>3, BecomesPoller DEF Idle, Polls
  <2>4. CASE ~HaveReady /\ ~Drained /\ ~Polls
    BY <1>4, <2>4, SamePoller DEF Idle
  <2> QED
    BY <2>1, <2>2, <2>3, <2>4
<1>5. CASE CvWaitEnds(w)
  BY <1>5, SamePoller DEF CvWaitEnds
<1>6. CASE EpollReturns(w) \/ WalkEnds(w)
  BY <1>6, SamePoller DEF EpollReturns, WalkEnds
<1>7. CASE StopPolling(w)
  BY <1>7, CeasesToPoll DEF StopPolling, GivesBack
<1>8. CASE \E f \in Fibers : WakeListed(w, f)
  BY <1>8, StillPoller DEF WakeListed
<1> QED
  BY <1>1, <1>2, <1>3, <1>4, <1>5, <1>6, <1>7, <1>8 DEF WorkerStep

LEMMA NextPollInv == PollInv /\ [Next]_vars => PollInv'
<1> SUFFICES ASSUME PollInv, [Next]_vars PROVE PollInv'
  OBVIOUS
<1> USE DEF group
<1>1. CASE \E w \in Workers : WorkerStep(w)
  BY <1>1, WorkerStepPollInv
<1>2. CASE \E w \in Workers, f \in Fibers : SpawnHere(w, f)
  BY <1>2, StillPoller DEF SpawnHere
<1>3. CASE ClientStep
  BY <1>3, StillPoller
     DEF ClientStep, DropAfterSpawn, CloseGroup, PingWorkers, JoinWorkers, PostSpawned
<1>4. CASE WakerStep
  BY <1>4, StillPoller DEF WakerStep, DropAfterWake, PostWoken
<1>5. CASE (\E f \in Fibers : SpawnOn(f) \/ SpawnFails(f)) \/ Free
  BY <1>5, StillPoller DEF SpawnOn, SpawnFails, Free
<1>6. CASE UNCHANGED vars
  BY <1>6, StillPoller DEF vars
<1> QED
  BY <1>1, <1>2, <1>3, <1>4, <1>5, <1>6 DEF Next

LEMMA PollInvImpliesOnePoller == PollInv => OnePoller
<1> SUFFICES ASSUME PollInv PROVE OnePoller
  OBVIOUS
<1> DEFINE P == {w \in Workers : wpc[w] \in {"epoll", "walk", "walked"}}
<1>1. CASE polling
  <2>1. PICK p \in Workers : \A w \in Workers : wpc[w] \in PollPlaces <=> w = p
    BY <1>1 DEF PollInv
  <2>2. P = {p}
    BY <2>1 DEF PollPlaces
  <2>3. Cardinality(P) = 1
    BY <2>2, FS_Singleton
  <2> QED
    BY <1>1, <2>3 DEF OnePoller
<1>2. CASE ~polling
  <2>1. P = {}
    BY <1>2 DEF PollInv, PollPlaces
  <2>2. Cardinality(P) = 0
    BY <2>1, FS_EmptySet
  <2> QED
    BY <1>2, <2>2 DEF OnePoller
<1> QED
  BY <1>1, <1>2

\* At most one worker of a pool is in epoll_wait or walks the descriptor list, and
\* pool->polling is set exactly while one is, whenever the pool is freed.
THEOREM AlwaysOnePoller == Spec => []OnePoller
<1>1. Init => PollInv
  BY InitPollInv
<1>2. PollInv /\ [Next]_vars => PollInv'
  BY NextPollInv
<1>3. PollInv => OnePoller
  BY PollInvImpliesOnePoller
<1> QED
  BY <1>1, <1>2, <1>3, PTL DEF Spec

-----------------------------------------------------------------------------
(***************************************************************************)
(* Where every fiber is.                                                   *)
(***************************************************************************)
WPC == Attached \cup {"never", "start", "create", "attach", "gone"}
FPC == {"unborn", "posted", "ready", "yield", "sleep", "fd", "park", "done"}
Clients == {"idle", "post", "unref", "close", "ping", "join", "freed"}

\* The types, one variable at a time.
ControlTyped ==
  /\ started \subseteq Workers /\ creating \in BOOLEAN
  /\ sched \in {"none", "live", "freed"} /\ refs \in Int
  /\ poolclosed \in BOOLEAN /\ closed \in BOOLEAN /\ polling \in BOOLEAN
  /\ inflight \in Int /\ lock \in Workers \cup {None}
  /\ wpc \in [Workers -> WPC]
  /\ runs \in [Workers -> Fibers \cup {None}] /\ todo \in [Workers -> SUBSET Fibers]
  /\ fpc \in [Fibers -> FPC] /\ turns \in [Fibers -> 0 .. MaxTurns]
  /\ client \in Clients /\ waking \in Fibers \cup {None}

QueuesTyped ==
  /\ deque \in [Workers -> Seq(Fibers)] /\ \A w \in Workers : Len(deque[w]) <= Room
  /\ run \in Seq(Fibers) /\ inbox \in Seq(Fibers)
  /\ sleeping \subseteq Fibers /\ onfd \subseteq Fibers /\ parked \subseteq Fibers

Typed == ControlTyped /\ QueuesTyped

\* A fiber that was accepted and has not ended.
Alive(f) == fpc[f] \notin {"unborn", "posted", "done"}

\* What a worker has in its hands, by its place; only a walk has descriptors to do.
HandsKnown ==
  \A w \in Workers :
    /\ wpc[w] \in {"on", "switch"} <=> runs[w] # None
    /\ todo[w] \subseteq onfd
    /\ wpc[w] # "walk" => todo[w] = {}

AllPlaced == \A f \in Fibers : Places(f) = IF Alive(f) THEN 1 ELSE 0

PlaceInv == Typed /\ PollInv /\ HandsKnown /\ AllPlaced

-----------------------------------------------------------------------------
Pending == {f \in Fibers : fpc[f] \notin {"unborn", "done"}}

\* The fibers in flight are counted, and nobody leaves before the count is zero.
CountKnown ==
  /\ inflight = Cardinality(Pending)
  /\ closed => client \in {"ping", "join", "freed"}
  /\ (\E w \in Workers : wpc[w] \in {"leave", "gone"}) => closed /\ Pending = {}

LeaveInv == PlaceInv /\ CountKnown

-----------------------------------------------------------------------------
Holders == {w \in Workers : wpc[w] \in Attached}

\* Before the scheduler is published nobody has anything of it.
SetupKnown ==
  /\ \A w \in Workers : wpc[w] = "never" <=> w \notin started
  /\ \A v, w \in Workers : wpc[v] = "create" /\ wpc[w] = "create" => v = w
  /\ creating <=> sched # "none" \/ \E w \in Workers : wpc[w] = "create"
  /\ sched = "none" =>
       /\ \A w \in Workers : wpc[w] \in {"never", "start", "create"}
       /\ Pending = {} /\ client # "unref" /\ waking = None
  /\ sched # "none" =>
       /\ \A w \in Workers : wpc[w] # "create"
       /\ \E w \in Workers : wpc[w] \in Attached \cup {"gone"}

RefsInv == LeaveInv /\ SetupKnown /\ RefsMatchHolders

-----------------------------------------------------------------------------
(***************************************************************************)
(* The places of a fiber, counted one by one.                              *)
(***************************************************************************)
In(f, S) == IF f \in S THEN 1 ELSE 0
Is(f, g) == IF f = g THEN 1 ELSE 0

On(f) == {w \in Workers : runs[w] = f}
Spread(dq, f) == {at \in Workers \X (1 .. Room) : at[2] \in DOMAIN dq[at[1]] /\ dq[at[1]][at[2]] = f}

InQueues(f) == Times(f, run) + Cardinality(Spread(deque, f))
InLists(f) == In(f, sleeping) + In(f, onfd) + In(f, parked)

LEMMA TypedIsTypeOK == Typed <=> TypeOK
BY DEF Typed, ControlTyped, QueuesTyped, TypeOK, WPC, FPC, Clients

LEMMA ThreeLists ==
  ASSUME NEW f
  PROVE  Cardinality({l \in {1, 2, 3} : f \in <<sleeping, onfd, parked>>[l]}) = InLists(f)
<1> DEFINE A == IF f \in sleeping THEN {1} ELSE {}
           B == IF f \in onfd THEN A \cup {2} ELSE A
           C == IF f \in parked THEN B \cup {3} ELSE B
<1>1. {l \in {1, 2, 3} : f \in <<sleeping, onfd, parked>>[l]} = C
  OBVIOUS
<1>2. IsFiniteSet(A) /\ Cardinality(A) = In(f, sleeping) /\ 2 \notin A /\ 3 \notin A
  <2>1. CASE f \in sleeping
    BY <2>1, FS_Singleton DEF In
  <2>2. CASE f \notin sleeping
    BY <2>2, FS_EmptySet DEF In
  <2> QED
    BY <2>1, <2>2
<1>3. IsFiniteSet(B) /\ Cardinality(B) = In(f, sleeping) + In(f, onfd) /\ 3 \notin B
  <2>1. IsFiniteSet(A \cup {2}) /\ Cardinality(A \cup {2}) = Cardinality(A) + 1
    BY <1>2, FS_AddElement
  <2> QED
    BY <1>2, <2>1 DEF In
<1>4. Cardinality(C) = In(f, sleeping) + In(f, onfd) + In(f, parked)
  <2>1. Cardinality(B \cup {3}) = Cardinality(B) + 1
    BY <1>3, FS_AddElement
  <2> QED
    BY <1>3, <2>1 DEF In
<1> QED
  BY <1>1, <1>4 DEF InLists

LEMMA OnFinite ==
  \A f : IsFiniteSet(On(f)) /\ Cardinality(On(f)) \in Nat
<1> SUFFICES ASSUME NEW f PROVE IsFiniteSet(On(f)) /\ Cardinality(On(f)) \in Nat
  OBVIOUS
<1>1. On(f) \subseteq Workers
  BY DEF On
<1>2. IsFiniteSet(On(f))
  BY <1>1, ActorsAssumption, FS_Subset
<1> QED
  BY <1>2, FS_CardinalityType

LEMMA SpreadFinite ==
  \A dq, f : IsFiniteSet(Spread(dq, f)) /\ Cardinality(Spread(dq, f)) \in Nat
<1> SUFFICES ASSUME NEW dq, NEW f
             PROVE  IsFiniteSet(Spread(dq, f)) /\ Cardinality(Spread(dq, f)) \in Nat
  OBVIOUS
<1>1. IsFiniteSet(1 .. Room)
  BY RoomAssumption, FS_Interval
<1>2. IsFiniteSet(Workers \X (1 .. Room))
  BY <1>1, ActorsAssumption, FS_Product
<1>3. Spread(dq, f) \subseteq Workers \X (1 .. Room)
  BY DEF Spread
<1>4. IsFiniteSet(Spread(dq, f))
  BY <1>2, <1>3, FS_Subset
<1> QED
  BY <1>4, FS_CardinalityType

LEMMA PlacesAre ==
  ASSUME QueuesTyped, NEW f
  PROVE  /\ Places(f) = InQueues(f) + Times(f, inbox) + Cardinality(On(f)) + InLists(f)
         /\ Times(f, run) \in Nat /\ Times(f, inbox) \in Nat
         /\ Cardinality(Spread(deque, f)) \in Nat
         /\ InQueues(f) \in Nat /\ InLists(f) \in Nat /\ Cardinality(On(f)) \in Nat
         /\ \A S : In(f, S) \in Nat
<1>1. Times(f, run) \in Nat /\ Times(f, inbox) \in Nat
  BY SpotsFinite DEF QueuesTyped
<1>2. Cardinality(Spread(deque, f)) \in Nat /\ Cardinality(On(f)) \in Nat
  BY SpreadFinite, OnFinite
<1>3. InQueues(f) \in Nat /\ InLists(f) \in Nat /\ \A S : In(f, S) \in Nat
  BY <1>1, <1>2 DEF InQueues, InLists, In
<1>4. Places(f) = Times(f, run) + Times(f, inbox) + Cardinality(On(f))
                    + Cardinality(Spread(deque, f)) + InLists(f)
  BY ThreeLists DEF Places, On, Spread
<1> QED
  BY <1>1, <1>2, <1>3, <1>4 DEF InQueues

Deques(dq) == dq \in [Workers -> Seq(Fibers)] /\ \A v \in Workers : Len(dq[v]) <= Room
Replaces(dr, dq, w, e) == dr = [dq EXCEPT ![w] = e]

\* One deque is replaced by another sequence that fits.
LEMMA SpreadExcept ==
  ASSUME NEW dq, Deques(dq), NEW w \in Workers, NEW e \in Seq(Fibers), Len(e) <= Room,
         NEW dr, Replaces(dr, dq, w, e), NEW f
  PROVE  Cardinality(Spread(dr, f)) + Times(f, dq[w])
           = Cardinality(Spread(dq, f)) + Times(f, e)
<1> DEFINE Own(s) == {at \in {w} \X (1 .. Room) : at[2] \in DOMAIN s /\ s[at[2]] = f}
           Rest == {at \in (Workers \ {w}) \X (1 .. Room) :
                      at[2] \in DOMAIN dq[at[1]] /\ dq[at[1]][at[2]] = f}
<1>1. Spread(dq, f) = Rest \cup Own(dq[w])
  BY DEF Spread
<1>2. Spread(dr, f) = Rest \cup Own(e)
  BY DEF Spread, Deques, Replaces
<1>3. ASSUME NEW s \in Seq(Fibers), Len(s) <= Room
      PROVE  IsFiniteSet(Own(s)) /\ Cardinality(Own(s)) = Times(f, s) /\ Rest \cap Own(s) = {}
  <2> DEFINE m == [i \in Spots(f, s) |-> <<w, i>>]
  <2>1. DOMAIN s = 1 .. Len(s) /\ Len(s) \in Nat
    BY LenProperties
  <2>2. m \in [Spots(f, s) -> Own(s)]
    BY <1>3, <2>1, RoomAssumption DEF Spots
  <2>3. \A a, b \in Spots(f, s) : m[a] = m[b] => a = b
    OBVIOUS
  <2>4. \A y \in Own(s) : \E a \in Spots(f, s) : m[a] = y
    <3> SUFFICES ASSUME NEW y \in Own(s) PROVE \E a \in Spots(f, s) : m[a] = y
      OBVIOUS
    <3>1. y = <<w, y[2]>> /\ y[2] \in Spots(f, s)
      BY DEF Spots
    <3> QED
      BY <3>1
  <2>5. IsFiniteSet(Spots(f, s)) /\ Cardinality(Spots(f, s)) = Times(f, s)
    BY SpotsFinite
  <2> DEFINE S == Spots(f, s)
             T == Own(s)
  <2>6. IsFiniteSet(T) /\ Cardinality(T) = Cardinality(S)
    <3>1. m \in [S -> T] /\ IsFiniteSet(S)
      BY <2>2, <2>5
    <3>2. \A a, b \in S : m[a] = m[b] => a = b
      BY <2>3
    <3>3. \A y \in T : \E a \in S : m[a] = y
      BY <2>4
    <3> HIDE DEF m, S, T
    <3> QED
      BY <3>1, <3>2, <3>3, Matched
  <2>7. Rest \cap Own(s) = {}
    OBVIOUS
  <2> QED
    BY <2>5, <2>6, <2>7
<1>4. IsFiniteSet(Rest) /\ Cardinality(Rest) \in Nat
  <2>1. Rest \subseteq Spread(dq, f)
    BY <1>1
  <2>2. IsFiniteSet(Rest)
    BY <2>1, SpreadFinite, FS_Subset
  <2> QED
    BY <2>2, FS_CardinalityType
<1>5. ASSUME NEW s \in Seq(Fibers), Len(s) <= Room
      PROVE  Cardinality(Rest \cup Own(s)) = Cardinality(Rest) + Times(f, s)
  <2>1. IsFiniteSet(Own(s)) /\ Cardinality(Own(s)) = Times(f, s) /\ Rest \cap Own(s) = {}
    BY <1>3, <1>5
  <2>2. Cardinality(Rest \cup Own(s)) = Cardinality(Rest) + Cardinality(Own(s)) - Cardinality(Rest \cap Own(s))
    <3> HIDE DEF Rest, Own
    <3> QED
      BY <1>4, <2>1, FS_Union
  <2>3. Cardinality(Rest \cap Own(s)) = 0
    BY <2>1, FS_EmptySet
  <2>4. Times(f, s) \in Nat
    BY SpotsFinite
  <2> HIDE DEF Rest, Own
  <2> QED
    BY <1>4, <2>1, <2>2, <2>3, <2>4
<1>6. dq[w] \in Seq(Fibers) /\ Len(dq[w]) <= Room
  BY DEF Deques
<1>7. Times(f, dq[w]) \in Nat /\ Times(f, e) \in Nat
  BY <1>6, SpotsFinite
<1>8. Cardinality(Spread(dq, f)) = Cardinality(Rest) + Times(f, dq[w])
  <2>1. Cardinality(Rest \cup Own(dq[w])) = Cardinality(Rest) + Times(f, dq[w])
    BY <1>5, <1>6
  <2> QED
    BY <1>1, <2>1
<1>9. Cardinality(Spread(dr, f)) = Cardinality(Rest) + Times(f, e)
  BY <1>2, <1>5
<1> HIDE DEF Rest, Own
<1> QED
  BY <1>4, <1>7, <1>8, <1>9

\* A worker takes another fiber in its hands, or none.
LEMMA OnExcept ==
  ASSUME runs \in [Workers -> Fibers \cup {None}], NEW w \in Workers, NEW x,
         runs' = [runs EXCEPT ![w] = x], NEW f
  PROVE  Cardinality(On(f))' + Is(runs[w], f) = Cardinality(On(f)) + Is(x, f)
<1>1. On(f)' = IF x = f THEN On(f) \cup {w} ELSE On(f) \ {w}
  BY DEF On
<1>2. w \in On(f) <=> runs[w] = f
  BY DEF On
<1>3. Cardinality(On(f) \cup {w}) = IF w \in On(f) THEN Cardinality(On(f)) ELSE Cardinality(On(f)) + 1
  BY OnFinite, FS_AddElement
<1>4. Cardinality(On(f) \ {w}) = IF w \in On(f) THEN Cardinality(On(f)) - 1 ELSE Cardinality(On(f))
  BY OnFinite, FS_RemoveElement
<1>5. Cardinality(On(f)) \in Nat
  BY OnFinite
<1> QED
  BY <1>1, <1>2, <1>3, <1>4, <1>5 DEF Is

-----------------------------------------------------------------------------
(***************************************************************************)
(* What a step does to the queues.                                         *)
(***************************************************************************)
Tally(f) == InQueues(f) + Times(f, inbox) + Cardinality(On(f)) + InLists(f)

\* A fiber is put onto a worker's deque, or into the shared queue when that is full.
LEMMA PutPlaces ==
  ASSUME QueuesTyped, NEW w \in Workers, NEW g \in Fibers,
         \/ /\ HasRoom(w)
            /\ deque' = [deque EXCEPT ![w] = Append(@, g)] /\ UNCHANGED run
         \/ run' = Append(run, g) /\ UNCHANGED deque
  PROVE  /\ deque' \in [Workers -> Seq(Fibers)] /\ \A v \in Workers : Len(deque'[v]) <= Room
         /\ run' \in Seq(Fibers)
         /\ \A f \in Fibers : InQueues(f)' = InQueues(f) + Is(g, f)
<1>1. CASE HasRoom(w) /\ deque' = [deque EXCEPT ![w] = Append(@, g)] /\ UNCHANGED run
  <2> DEFINE e == Append(deque[w], g)
  <2>1. e \in Seq(Fibers) /\ Len(e) = Len(deque[w]) + 1 /\ Len(deque[w]) \in Nat
    BY DEF QueuesTyped
  <2>2. Len(e) <= Room
    BY <1>1, <2>1, RoomAssumption DEF HasRoom
  <2>3. deque' = [deque EXCEPT ![w] = e]
    BY <1>1
  <2>4. deque' \in [Workers -> Seq(Fibers)] /\ \A v \in Workers : Len(deque'[v]) <= Room
    BY <2>1, <2>2, <2>3 DEF QueuesTyped
  <2>5. ASSUME NEW f \in Fibers PROVE InQueues(f)' = InQueues(f) + Is(g, f)
    <3>1. Cardinality(Spread(deque', f)) + Times(f, deque[w])
            = Cardinality(Spread(deque, f)) + Times(f, e)
      <4>1. Deques(deque)
        BY DEF QueuesTyped, Deques
      <4>2. Replaces(deque', deque, w, e)
        BY <2>3 DEF Replaces
      <4> HIDE DEF e
      <4> QED
        BY <2>1, <2>2, <4>1, <4>2, SpreadExcept
    <3>2. Times(f, e) = Times(f, deque[w]) + Is(g, f)
      BY TimesAppend DEF QueuesTyped, Is
    <3>3. Times(f, deque[w]) \in Nat /\ Times(f, run) \in Nat
      BY SpotsFinite DEF QueuesTyped
    <3>4. Cardinality(Spread(deque, f)) \in Nat /\ Cardinality(Spread(deque', f)) \in Nat
      BY SpreadFinite
    <3>5. Is(g, f) \in Nat
      BY DEF Is
    <3>6. InQueues(f)' = Times(f, run) + Cardinality(Spread(deque', f))
      BY <1>1 DEF InQueues, Times, Spread
    <3> QED
      BY <3>1, <3>2, <3>3, <3>4, <3>5, <3>6 DEF InQueues
  <2> QED
    BY <1>1, <2>4, <2>5 DEF QueuesTyped
<1>2. CASE run' = Append(run, g) /\ UNCHANGED deque
  <2>1. run' \in Seq(Fibers)
    BY <1>2 DEF QueuesTyped
  <2>2. ASSUME NEW f \in Fibers PROVE InQueues(f)' = InQueues(f) + Is(g, f)
    <3>1. Times(f, run') = Times(f, run) + Is(g, f)
      BY <1>2, TimesAppend DEF QueuesTyped, Is
    <3>2. Times(f, run) \in Nat /\ Cardinality(Spread(deque, f)) \in Nat /\ Is(g, f) \in Nat
      BY SpotsFinite, SpreadFinite DEF QueuesTyped, Is
    <3>3. InQueues(f)' = Times(f, run') + Cardinality(Spread(deque, f))
      BY <1>2 DEF InQueues, Times, Spread
    <3> QED
      BY <3>1, <3>2, <3>3 DEF InQueues
  <2> QED
    BY <1>2, <2>1, <2>2 DEF QueuesTyped
<1> QED
  BY <1>1, <1>2

\* The first fiber of some deque, or of the shared queue, goes to a worker.
LEMMA TakePlaces ==
  ASSUME QueuesTyped, NEW w \in Workers, Take(w)
  PROVE  /\ deque' \in [Workers -> Seq(Fibers)] /\ \A v \in Workers : Len(deque'[v]) <= Room
         /\ run' \in Seq(Fibers)
         /\ \E g \in Fibers : /\ runs' = [runs EXCEPT ![w] = g]
                              /\ \A f \in Fibers : InQueues(f) = InQueues(f)' + Is(g, f)
<1>1. ASSUME NEW v \in Workers, deque[v] # <<>>, runs' = [runs EXCEPT ![w] = Head(deque[v])],
             deque' = [deque EXCEPT ![v] = Tail(@)], UNCHANGED run
      PROVE  /\ deque' \in [Workers -> Seq(Fibers)] /\ \A x \in Workers : Len(deque'[x]) <= Room
             /\ run' \in Seq(Fibers)
             /\ \E g \in Fibers : /\ runs' = [runs EXCEPT ![w] = g]
                                  /\ \A f \in Fibers : InQueues(f) = InQueues(f)' + Is(g, f)
  <2> DEFINE e == Tail(deque[v])
  <2>1. Head(deque[v]) \in Fibers /\ e \in Seq(Fibers) /\ Len(e) = Len(deque[v]) - 1
    BY <1>1 DEF QueuesTyped
  <2>2. Len(e) <= Room /\ Len(deque[v]) \in Nat
    BY <2>1, RoomAssumption DEF QueuesTyped
  <2>3. deque' = [deque EXCEPT ![v] = e]
    BY <1>1
  <2>4. deque' \in [Workers -> Seq(Fibers)] /\ \A x \in Workers : Len(deque'[x]) <= Room
    BY <2>1, <2>2, <2>3 DEF QueuesTyped
  <2>5. ASSUME NEW f \in Fibers PROVE InQueues(f) = InQueues(f)' + Is(Head(deque[v]), f)
    <3>1. Cardinality(Spread(deque', f)) + Times(f, deque[v])
            = Cardinality(Spread(deque, f)) + Times(f, e)
      <4> HIDE DEF e
      <4>1. Deques(deque)
        BY DEF QueuesTyped, Deques
      <4>2. e \in Seq(Fibers) /\ Len(e) <= Room
        BY <2>1, <2>2
      <4>3. Replaces(deque', deque, v, e)
        BY <2>3 DEF Replaces
      <4> QED
        BY <4>1, <4>2, <4>3, SpreadExcept
    <3>2. Times(f, deque[v]) = Times(f, e) + Is(Head(deque[v]), f)
      BY <1>1, TimesTail DEF QueuesTyped, Is
    <3>3. Times(f, e) \in Nat /\ Times(f, run) \in Nat
      BY <2>1, SpotsFinite DEF QueuesTyped
    <3>4. Cardinality(Spread(deque, f)) \in Nat /\ Cardinality(Spread(deque', f)) \in Nat
      BY SpreadFinite
    <3>5. Is(Head(deque[v]), f) \in Nat
      BY DEF Is
    <3>6. InQueues(f)' = Times(f, run) + Cardinality(Spread(deque', f))
      BY <1>1 DEF InQueues, Times, Spread
    <3> QED
      BY <3>1, <3>2, <3>3, <3>4, <3>5, <3>6 DEF InQueues
  <2> QED
    BY <1>1, <2>1, <2>4, <2>5 DEF QueuesTyped
<1>2. CASE run # <<>> /\ runs' = [runs EXCEPT ![w] = Head(run)] /\ run' = Tail(run) /\ UNCHANGED deque
  <2>1. Head(run) \in Fibers /\ run' \in Seq(Fibers)
    BY <1>2 DEF QueuesTyped
  <2>2. ASSUME NEW f \in Fibers PROVE InQueues(f) = InQueues(f)' + Is(Head(run), f)
    <3>1. Times(f, run) = Times(f, run') + Is(Head(run), f)
      BY <1>2, TimesTail DEF QueuesTyped, Is
    <3>2. Times(f, run') \in Nat /\ Cardinality(Spread(deque, f)) \in Nat /\ Is(Head(run), f) \in Nat
      BY <2>1, SpotsFinite, SpreadFinite DEF Is
    <3>3. InQueues(f)' = Times(f, run') + Cardinality(Spread(deque, f))
      BY <1>2 DEF InQueues, Times, Spread
    <3> QED
      BY <3>1, <3>2, <3>3 DEF InQueues
  <2> QED
    BY <1>2, <2>1, <2>2 DEF QueuesTyped
<1> QED
  BY <1>1, <1>2 DEF Take

\* The inbox and the timers that went off end up in the shared queue.
LEMMA DrainPlaces ==
  ASSUME QueuesTyped, NEW late \in SUBSET sleeping, UNCHANGED <<deque, onfd, parked>>,
         inbox' = <<>>, sleeping' = sleeping \ late,
         run' = run \o Reverse(inbox) \o SetToSeq(late)
  PROVE  /\ run' \in Seq(Fibers)
         /\ \A f \in Fibers : InQueues(f)' + Times(f, inbox)' + InLists(f)'
                                = InQueues(f) + Times(f, inbox) + InLists(f)
<1>1. IsFiniteSet(late) /\ late \subseteq Fibers
  BY ActorsAssumption, FS_Subset DEF QueuesTyped
<1>2. Reverse(inbox) \in Seq(Fibers)
  BY TimesReverse DEF QueuesTyped
<1>3. SetToSeq(late) \in Seq(Fibers)
  <2>1. SetToSeq(late) \in Seq(late)
    BY <1>1, TimesSetToSeq
  <2> QED
    BY <1>1, <2>1, SeqMonotonic
<1>4. run \o Reverse(inbox) \in Seq(Fibers) /\ run' \in Seq(Fibers)
  BY <1>2, <1>3, ConcatProperties DEF QueuesTyped
<1>5. ASSUME NEW f \in Fibers
      PROVE  InQueues(f)' + Times(f, inbox)' + InLists(f)' = InQueues(f) + Times(f, inbox) + InLists(f)
  <2>1. Times(f, run') = Times(f, run \o Reverse(inbox)) + Times(f, SetToSeq(late))
    BY <1>3, <1>4, TimesConcat
  <2>2. Times(f, run \o Reverse(inbox)) = Times(f, run) + Times(f, Reverse(inbox))
    BY <1>2, TimesConcat DEF QueuesTyped
  <2>3. Times(f, Reverse(inbox)) = Times(f, inbox)
    BY TimesReverse DEF QueuesTyped
  <2>4. Times(f, SetToSeq(late)) = In(f, late)
    BY <1>1, TimesSetToSeq DEF In
  <2>5. Times(f, inbox)' = 0
    BY TimesEmpty DEF Times
  <2>6. In(f, sleeping') + In(f, late) = In(f, sleeping)
    BY DEF In
  <2>7. InQueues(f)' = Times(f, run') + Cardinality(Spread(deque, f))
    BY DEF InQueues, Times, Spread
  <2>8. InLists(f)' = In(f, sleeping') + In(f, onfd) + In(f, parked)
    BY DEF InLists, In
  <2>9. /\ Times(f, run) \in Nat /\ Times(f, inbox) \in Nat /\ Cardinality(Spread(deque, f)) \in Nat
        /\ In(f, sleeping) \in Nat /\ In(f, sleeping') \in Nat /\ In(f, late) \in Nat
        /\ In(f, onfd) \in Nat /\ In(f, parked) \in Nat
    BY PlacesAre
  <2>10. InQueues(f) = Times(f, run) + Cardinality(Spread(deque, f))
    BY DEF InQueues
  <2>11. InLists(f) = In(f, sleeping) + In(f, onfd) + In(f, parked)
    BY DEF InLists
  <2>12. Times(f, run') = Times(f, run) + Times(f, inbox) + In(f, late)
    BY <2>1, <2>2, <2>3, <2>4
  <2>13. InQueues(f)' = InQueues(f) + Times(f, inbox) + In(f, late)
    BY <2>7, <2>9, <2>10, <2>12
  <2>14. InLists(f)' + In(f, late) = InLists(f) /\ InLists(f)' \in Nat
    BY SMTT(30), <2>6, <2>8, <2>9, <2>11
  <2>15. InQueues(f) \in Nat /\ InLists(f) \in Nat
    BY PlacesAre
  <2> QED
    BY SMTT(30), <2>5, <2>9, <2>13, <2>14, <2>15
<1> QED
  BY <1>4, <1>5

\* A fiber is put in front of the inbox.
LEMMA PostPlaces ==
  ASSUME QueuesTyped, NEW g \in Fibers, inbox' = <<g>> \o inbox
  PROVE  inbox' \in Seq(Fibers) /\ \A f \in Fibers : Times(f, inbox)' = Times(f, inbox) + Is(g, f)
<1>1. <<g>> \in Seq(Fibers)
  OBVIOUS
<1>2. inbox' \in Seq(Fibers)
  BY <1>1, ConcatProperties DEF QueuesTyped
<1>3. ASSUME NEW f \in Fibers PROVE Times(f, inbox)' = Times(f, inbox) + Is(g, f)
  <2>1. Times(f, inbox') = Times(f, <<g>>) + Times(f, inbox)
    BY <1>1, TimesConcat DEF QueuesTyped
  <2>2. Times(f, <<g>>) = Is(g, f)
    BY TimesOne DEF Is
  <2>3. Times(f, inbox)' = Times(f, inbox')
    BY DEF Times
  <2>4. Times(f, inbox) \in Nat /\ Is(g, f) \in Nat
    BY SpotsFinite DEF QueuesTyped, Is
  <2> QED
    BY <2>1, <2>2, <2>3, <2>4
<1> QED
  BY <1>2, <1>3

Lives(f) == IF Alive(f) THEN 1 ELSE 0

Counts == \A f \in Fibers : Places(f) = Tally(f) /\ Tally(f) \in Nat

LEMMA TypedCounts == QueuesTyped => Counts
BY PlacesAre DEF Tally, Counts

LEMMA TypedCountsNext == QueuesTyped' => Counts'
BY TypedCounts, PTL

\* A fiber gains a place when it comes to life, and loses one when it ends.
LEMMA PlacesFollow ==
  ASSUME QueuesTyped, QueuesTyped', AllPlaced,
         \A f \in Fibers : Tally(f)' + Lives(f) = Tally(f) + Lives(f)'
  PROVE  AllPlaced'
<1>1. \A f \in Fibers : Places(f) = Tally(f) /\ Tally(f) \in Nat
  BY TypedCounts DEF Counts
<1>2. \A f \in Fibers : Places(f)' = Tally(f)' /\ Tally(f)' \in Nat
  BY TypedCountsNext DEF Counts
<1>3. \A f \in Fibers : Lives(f)' \in Nat /\ (Alive(f)' => Lives(f)' = 1) /\ (~Alive(f)' => Lives(f)' = 0)
  BY DEF Lives
<1>4. \A f \in Fibers : Places(f) = Lives(f) /\ Lives(f) \in Nat
  BY DEF AllPlaced, Lives
<1>5. \A f \in Fibers : Places(f)' = Lives(f)'
  BY <1>1, <1>2, <1>3, <1>4
<1> QED
  BY <1>3, <1>5 DEF AllPlaced

\* Nothing moves.
LEMMA StillPlaced ==
  ASSUME QueuesTyped, AllPlaced, UNCHANGED <<queues, runs>>,
         \A f \in Fibers : Alive(f)' <=> Alive(f)
  PROVE  QueuesTyped' /\ AllPlaced'
<1>1. QueuesTyped'
  BY DEF QueuesTyped, queues
<1>2. \A f \in Fibers : Places(f)' = Places(f)
  BY DEF Places, Times, queues
<1> QED
  BY <1>1, <1>2 DEF AllPlaced

Parts ==
  \A f \in Fibers : /\ InQueues(f) \in Nat /\ Times(f, inbox) \in Nat
                    /\ Cardinality(On(f)) \in Nat /\ InLists(f) \in Nat
                    /\ In(f, sleeping) \in Nat /\ In(f, onfd) \in Nat /\ In(f, parked) \in Nat
                    /\ InLists(f) = In(f, sleeping) + In(f, onfd) + In(f, parked)

LEMMA TypedParts == QueuesTyped => Parts
BY PlacesAre DEF Parts, InLists

LEMMA TypedPartsNext == QueuesTyped' => Parts'
BY TypedParts, PTL

LEMMA IsNat == \A g, f : Is(g, f) \in Nat /\ (Is(g, f) = 1 <=> g = f) /\ (Is(g, f) = 0 <=> g # f)
BY DEF Is

\* What joins a set, and what leaves it.
LEMMA Joins ==
  ASSUME NEW S, NEW g, g \notin S
  PROVE  \A f : In(f, S \cup {g}) = In(f, S) + Is(g, f)
BY DEF In, Is

LEMMA Leaves ==
  ASSUME NEW S, NEW g, g \in S
  PROVE  \A f : In(f, S) = In(f, S \ {g}) + Is(g, f)
BY DEF In, Is

\* The fiber that a worker has in its hands is nowhere else.
LEMMA HeldAlone ==
  ASSUME Typed, AllPlaced, NEW w \in Workers, runs[w] # None
  PROVE  /\ runs[w] \in Fibers /\ Alive(runs[w])
         /\ runs[w] \notin sleeping /\ runs[w] \notin onfd /\ runs[w] \notin parked
<1> DEFINE f == runs[w]
<1>1. f \in Fibers
  BY DEF Typed, ControlTyped
<1>2. Places(f) = Tally(f) /\ Places(f) = IF Alive(f) THEN 1 ELSE 0
  BY <1>1, TypedCounts DEF Counts, AllPlaced, Typed
<1>3. /\ InQueues(f) \in Nat /\ Times(f, inbox) \in Nat
      /\ Cardinality(On(f)) \in Nat /\ InLists(f) \in Nat
      /\ In(f, sleeping) \in Nat /\ In(f, onfd) \in Nat /\ In(f, parked) \in Nat
      /\ InLists(f) = In(f, sleeping) + In(f, onfd) + In(f, parked)
  BY <1>1, TypedParts DEF Parts, Typed
<1>4. w \in On(f)
  BY DEF On
<1>5. Cardinality(On(f)) # 0
  BY <1>4, OnFinite, FS_EmptySet
<1>6. Tally(f) = InQueues(f) + Times(f, inbox) + Cardinality(On(f)) + InLists(f)
  BY DEF Tally
<1> HIDE DEF f
<1>7. Tally(f) >= 1 /\ InLists(f) <= Tally(f) - 1
  BY <1>3, <1>5, <1>6
<1>8. Alive(f) /\ Tally(f) = 1
  BY <1>2, <1>7
<1>9. InLists(f) = 0
  BY <1>3, <1>7, <1>8
<1>10. In(f, sleeping) = 0 /\ In(f, onfd) = 0 /\ In(f, parked) = 0
  BY <1>3, <1>9
<1> QED
  BY <1>1, <1>8, <1>10 DEF In, f

-----------------------------------------------------------------------------
(***************************************************************************)
(* Every step keeps every fiber in its place.                              *)
(***************************************************************************)
LEMMA DrainPlaced ==
  ASSUME Typed, HandsKnown, AllPlaced, NEW w \in Workers, Drain(w)
  PROVE  QueuesTyped' /\ AllPlaced'
<1>1. PICK late \in SUBSET sleeping : /\ sleeping' = sleeping \ late
                                      /\ run' = run \o Reverse(inbox) \o SetToSeq(late)
  BY DEF Drain
<1>2. UNCHANGED <<deque, onfd, parked, runs, fpc>> /\ inbox' = <<>> /\ QueuesTyped
  BY DEF Drain, Typed
<1>3. /\ run' \in Seq(Fibers)
      /\ \A f \in Fibers : InQueues(f)' + Times(f, inbox)' + InLists(f)'
                             = InQueues(f) + Times(f, inbox) + InLists(f)
  BY <1>1, <1>2, DrainPlaces
<1>4. QueuesTyped'
  BY <1>1, <1>2, <1>3, EmptySeq DEF QueuesTyped
<1>5. \A f \in Fibers : Cardinality(On(f))' = Cardinality(On(f)) /\ Lives(f)' = Lives(f)
  BY <1>2 DEF On, Lives, Alive
<1>6. ASSUME NEW f \in Fibers PROVE Tally(f)' = Tally(f)
  <2>1. /\ InQueues(f) \in Nat /\ Times(f, inbox) \in Nat /\ InLists(f) \in Nat
        /\ InQueues(f)' \in Nat /\ Times(f, inbox)' \in Nat /\ InLists(f)' \in Nat
        /\ Cardinality(On(f)) \in Nat
    BY <1>2, <1>4, TypedParts, TypedPartsNext DEF Parts
  <2>2. Tally(f)' = InQueues(f)' + Times(f, inbox)' + Cardinality(On(f))' + InLists(f)'
    BY DEF Tally
  <2>3. Tally(f) = InQueues(f) + Times(f, inbox) + Cardinality(On(f)) + InLists(f)
    BY DEF Tally
  <2>4. InQueues(f)' + Times(f, inbox)' + InLists(f)' = InQueues(f) + Times(f, inbox) + InLists(f)
    BY <1>3
  <2>5. Cardinality(On(f))' = Cardinality(On(f))
    BY <1>5
  <2> QED
    BY <2>1, <2>2, <2>3, <2>4, <2>5
<1> QED
  BY <1>2, <1>4, <1>5, <1>6, PlacesFollow

LEMMA PickPlaced ==
  ASSUME Typed, HandsKnown, AllPlaced, NEW w \in Workers, Pick(w)
  PROVE  QueuesTyped' /\ AllPlaced'
<1>1. Take(w) /\ UNCHANGED <<inbox, sleeping, onfd, parked, fpc>> /\ QueuesTyped
  BY DEF Pick, Typed
<1>2. runs[w] = None /\ runs \in [Workers -> Fibers \cup {None}]
  BY DEF Pick, Moves, HandsKnown, Typed, ControlTyped
<1>3. /\ deque' \in [Workers -> Seq(Fibers)] /\ \A v \in Workers : Len(deque'[v]) <= Room
      /\ run' \in Seq(Fibers)
      /\ \E g \in Fibers : /\ runs' = [runs EXCEPT ![w] = g]
                           /\ \A f \in Fibers : InQueues(f) = InQueues(f)' + Is(g, f)
  BY <1>1, TakePlaces
<1>4. PICK g \in Fibers : /\ runs' = [runs EXCEPT ![w] = g]
                          /\ \A f \in Fibers : InQueues(f) = InQueues(f)' + Is(g, f)
  BY <1>3
<1>5. QueuesTyped'
  BY <1>1, <1>3 DEF QueuesTyped
<1>6. ASSUME NEW f \in Fibers
      PROVE  Cardinality(On(f))' + Is(None, f) = Cardinality(On(f)) + Is(g, f)
  <2>1. Cardinality(On(f))' + Is(runs[w], f) = Cardinality(On(f)) + Is(g, f)
    BY <1>2, <1>4, OnExcept
  <2> QED
    BY <1>2, <2>1
<1>7. \A f \in Fibers : Is(None, f) = 0
  BY ActorsAssumption DEF Is
<1>8. \A f \in Fibers : InLists(f)' = InLists(f) /\ Times(f, inbox)' = Times(f, inbox) /\ Lives(f)' = Lives(f)
  BY <1>1 DEF InLists, In, Times, Lives, Alive
<1>9. \A f \in Fibers : Tally(f)' = Tally(f)
  BY <1>1, <1>4, <1>5, <1>6, <1>7, <1>8, TypedParts, TypedPartsNext, IsNat DEF Tally, Parts
<1> QED
  BY <1>1, <1>5, <1>8, <1>9, PlacesFollow

LEMMA SpawnHerePlaced ==
  ASSUME Typed, HandsKnown, AllPlaced, NEW w \in Workers, NEW g \in Fibers, SpawnHere(w, g)
  PROVE  QueuesTyped' /\ AllPlaced'
<1>1. /\ UNCHANGED <<inbox, sleeping, onfd, parked, runs>> /\ QueuesTyped
      /\ fpc' = [fpc EXCEPT ![g] = "ready"] /\ fpc[g] = "unborn" /\ fpc \in [Fibers -> FPC]
  BY DEF SpawnHere, Typed, ControlTyped
<1>2. /\ deque' \in [Workers -> Seq(Fibers)] /\ \A v \in Workers : Len(deque'[v]) <= Room
      /\ run' \in Seq(Fibers)
      /\ \A f \in Fibers : InQueues(f)' = InQueues(f) + Is(g, f)
  BY <1>1, PutPlaces DEF SpawnHere, PutOnDeque
<1>3. QueuesTyped'
  BY <1>1, <1>2 DEF QueuesTyped
<1>4. \A f \in Fibers : /\ InLists(f)' = InLists(f) /\ Times(f, inbox)' = Times(f, inbox)
                        /\ Cardinality(On(f))' = Cardinality(On(f))
  BY <1>1 DEF InLists, In, Times, On
<1>5. \A f \in Fibers : Lives(f)' = Lives(f) + Is(g, f) /\ Lives(f) \in Nat
  BY <1>1 DEF Lives, Alive, Is
<1>6. ASSUME NEW f \in Fibers PROVE Tally(f)' + Lives(f) = Tally(f) + Lives(f)'
  <2>1. /\ InQueues(f) \in Nat /\ Times(f, inbox) \in Nat /\ InLists(f) \in Nat
        /\ Cardinality(On(f)) \in Nat /\ Is(g, f) \in Nat /\ Lives(f) \in Nat
    BY <1>1, <1>5, TypedParts, IsNat DEF Parts
  <2>2. Tally(f)' = InQueues(f) + Is(g, f) + Times(f, inbox) + Cardinality(On(f)) + InLists(f)
    BY <1>2, <1>4 DEF Tally
  <2> QED
    BY <1>5, <2>1, <2>2 DEF Tally
<1> QED
  BY <1>1, <1>3, <1>6, PlacesFollow

LEMMA SwitchOutPlaced ==
  ASSUME Typed, HandsKnown, AllPlaced, NEW w \in Workers, SwitchOut(w)
  PROVE  QueuesTyped' /\ AllPlaced'
<1>1. runs[w] # None
  BY DEF SwitchOut, Moves, HandsKnown
<1>2. runs[w] \in Fibers /\ Alive(runs[w])
  BY <1>1, HeldAlone
<1>3. UNCHANGED <<queues, runs>>
  BY DEF SwitchOut, ListedLater, queues
<1>4. PICK how \in {"yield", "sleep", "fd", "park"} : fpc' = [fpc EXCEPT ![runs[w]] = how]
  BY DEF SwitchOut
<1>5. \A f \in Fibers : Alive(f)' <=> Alive(f)
  BY <1>2, <1>4 DEF Alive, Typed, ControlTyped
<1> QED
  BY <1>3, <1>5, StillPlaced DEF Typed

LEMMA FinalizePlaced ==
  ASSUME Typed, HandsKnown, AllPlaced, NEW w \in Workers, Finalize(w)
  PROVE  QueuesTyped' /\ AllPlaced'
<1> DEFINE g == runs[w]
<1>1. g # None
  BY DEF Finalize, Moves, HandsKnown
<1>2. g \in Fibers /\ Alive(g) /\ g \notin sleeping /\ g \notin onfd /\ g \notin parked
  BY <1>1, HeldAlone
<1>3. /\ runs' = [runs EXCEPT ![w] = None] /\ UNCHANGED inbox /\ QueuesTyped
      /\ runs \in [Workers -> Fibers \cup {None}] /\ fpc' = [fpc EXCEPT ![g] = "ready"]
      /\ fpc \in [Fibers -> FPC]
  BY DEF Finalize, Typed, ControlTyped
<1>4. \A f \in Fibers : Lives(f)' = Lives(f) /\ Times(f, inbox)' = Times(f, inbox)
  BY <1>2, <1>3 DEF Lives, Alive, Times
<1>5. \A f \in Fibers : Cardinality(On(f))' + Is(g, f) = Cardinality(On(f)) + Is(None, f)
  BY <1>3, OnExcept
<1>6. \A f \in Fibers : Is(None, f) = 0
  BY ActorsAssumption DEF Is
<1>7. /\ QueuesTyped'
      /\ \A f \in Fibers : InQueues(f)' + InLists(f)' = InQueues(f) + InLists(f) + Is(g, f)
  <2>1. CASE PutOnDeque(w, g) /\ UNCHANGED <<sleeping, onfd, parked>>
    <3>1. /\ deque' \in [Workers -> Seq(Fibers)] /\ \A v \in Workers : Len(deque'[v]) <= Room
          /\ run' \in Seq(Fibers)
          /\ \A f \in Fibers : InQueues(f)' = InQueues(f) + Is(g, f)
      BY <1>2, <1>3, <2>1, PutPlaces DEF PutOnDeque
    <3>2. QueuesTyped'
      BY <1>3, <2>1, <3>1 DEF QueuesTyped
    <3>3. \A f \in Fibers : InLists(f)' = InLists(f)
      BY <2>1 DEF InLists, In
    <3> HIDE DEF g
    <3> QED
      BY <1>3, <3>1, <3>2, <3>3, TypedParts, IsNat DEF Parts
  <2>2. ASSUME UNCHANGED <<deque, run>>, sleeping' \subseteq Fibers, onfd' \subseteq Fibers,
               parked' \subseteq Fibers,
               \A f \in Fibers : In(f, sleeping') + In(f, onfd') + In(f, parked') = InLists(f) + Is(g, f)
        PROVE  /\ QueuesTyped'
               /\ \A f \in Fibers : InQueues(f)' + InLists(f)' = InQueues(f) + InLists(f) + Is(g, f)
    <3>1. QueuesTyped'
      BY <1>3, <2>2 DEF QueuesTyped
    <3>2. \A f \in Fibers : InQueues(f)' = InQueues(f)
      BY <2>2 DEF InQueues, Times, Spread
    <3>3. \A f \in Fibers : InLists(f)' = InLists(f) + Is(g, f)
      BY <2>2 DEF InLists, In
    <3> HIDE DEF g
    <3> QED
      BY <1>3, <3>1, <3>2, <3>3, TypedParts, IsNat DEF Parts
  <2>3. CASE sleeping' = sleeping \cup {g} /\ UNCHANGED <<deque, run, onfd, parked>>
    <3>1. \A f \in Fibers : In(f, sleeping') = In(f, sleeping) + Is(g, f)
      BY <1>2, <2>3, Joins
    <3>2. \A f \in Fibers : In(f, sleeping') + In(f, onfd') + In(f, parked') = InLists(f) + Is(g, f)
      <4> SUFFICES ASSUME NEW f \in Fibers
                   PROVE  In(f, sleeping') + In(f, onfd') + In(f, parked') = InLists(f) + Is(g, f)
        OBVIOUS
      <4>1. /\ In(f, sleeping) \in Nat /\ In(f, onfd) \in Nat /\ In(f, parked) \in Nat /\ Is(g, f) \in Nat
            /\ InLists(f) = In(f, sleeping) + In(f, onfd) + In(f, parked)
        BY <1>3, TypedParts, IsNat DEF Parts
      <4>2. /\ In(f, sleeping') = In(f, sleeping) + Is(g, f)
            /\ In(f, onfd') = In(f, onfd) /\ In(f, parked') = In(f, parked)
        BY <2>3, <3>1
      <4> HIDE DEF g
      <4> QED
        BY <4>1, <4>2
    <3> QED
      BY <1>2, <1>3, <2>2, <2>3, <3>2 DEF QueuesTyped
  <2>4. CASE onfd' = onfd \cup {g} /\ UNCHANGED <<deque, run, sleeping, parked>>
    <3>1. \A f \in Fibers : In(f, onfd') = In(f, onfd) + Is(g, f)
      BY <1>2, <2>4, Joins
    <3>2. \A f \in Fibers : In(f, sleeping') + In(f, onfd') + In(f, parked') = InLists(f) + Is(g, f)
      <4> SUFFICES ASSUME NEW f \in Fibers
                   PROVE  In(f, sleeping') + In(f, onfd') + In(f, parked') = InLists(f) + Is(g, f)
        OBVIOUS
      <4>1. /\ In(f, sleeping) \in Nat /\ In(f, onfd) \in Nat /\ In(f, parked) \in Nat /\ Is(g, f) \in Nat
            /\ InLists(f) = In(f, sleeping) + In(f, onfd) + In(f, parked)
        BY <1>3, TypedParts, IsNat DEF Parts
      <4>2. /\ In(f, onfd') = In(f, onfd) + Is(g, f)
            /\ In(f, sleeping') = In(f, sleeping) /\ In(f, parked') = In(f, parked)
        BY <2>4, <3>1
      <4> HIDE DEF g
      <4> QED
        BY <4>1, <4>2
    <3> QED
      BY <1>2, <1>3, <2>2, <2>4, <3>2 DEF QueuesTyped
  <2>5. CASE parked' = parked \cup {g} /\ UNCHANGED <<deque, run, sleeping, onfd>>
    <3>1. \A f \in Fibers : In(f, parked') = In(f, parked) + Is(g, f)
      BY <1>2, <2>5, Joins
    <3>2. \A f \in Fibers : In(f, sleeping') + In(f, onfd') + In(f, parked') = InLists(f) + Is(g, f)
      <4> SUFFICES ASSUME NEW f \in Fibers
                   PROVE  In(f, sleeping') + In(f, onfd') + In(f, parked') = InLists(f) + Is(g, f)
        OBVIOUS
      <4>1. /\ In(f, sleeping) \in Nat /\ In(f, onfd) \in Nat /\ In(f, parked) \in Nat /\ Is(g, f) \in Nat
            /\ InLists(f) = In(f, sleeping) + In(f, onfd) + In(f, parked)
        BY <1>3, TypedParts, IsNat DEF Parts
      <4>2. /\ In(f, parked') = In(f, parked) + Is(g, f)
            /\ In(f, sleeping') = In(f, sleeping) /\ In(f, onfd') = In(f, onfd)
        BY <2>5, <3>1
      <4> HIDE DEF g
      <4> QED
        BY <4>1, <4>2
    <3> QED
      BY <1>2, <1>3, <2>2, <2>5, <3>2 DEF QueuesTyped
  <2> QED
    BY <2>1, <2>3, <2>4, <2>5 DEF Finalize
<1>8. ASSUME NEW f \in Fibers PROVE Tally(f)' = Tally(f)
  <2>1. /\ InQueues(f) \in Nat /\ Times(f, inbox) \in Nat /\ InLists(f) \in Nat
        /\ InQueues(f)' \in Nat /\ InLists(f)' \in Nat
        /\ Cardinality(On(f)) \in Nat /\ Cardinality(On(f))' \in Nat /\ Is(g, f) \in Nat
    BY <1>3, <1>7, TypedParts, TypedPartsNext, IsNat DEF Parts
  <2>2. Tally(f)' = InQueues(f)' + Times(f, inbox) + Cardinality(On(f))' + InLists(f)'
    BY <1>4 DEF Tally
  <2>3. Tally(f) = InQueues(f) + Times(f, inbox) + Cardinality(On(f)) + InLists(f)
    BY DEF Tally
  <2>4. InQueues(f)' + InLists(f)' = InQueues(f) + InLists(f) + Is(g, f)
    BY <1>7
  <2>5. Cardinality(On(f))' + Is(g, f) = Cardinality(On(f))
    BY <1>5, <1>6, <2>1
  <2> HIDE DEF g
  <2> QED
    BY <2>1, <2>2, <2>3, <2>4, <2>5
<1> QED
  BY <1>3, <1>4, <1>7, <1>8, PlacesFollow

LEMMA FinishPlaced ==
  ASSUME Typed, HandsKnown, AllPlaced, NEW w \in Workers, Finish(w)
  PROVE  QueuesTyped' /\ AllPlaced'
<1> DEFINE g == runs[w]
<1>1. g # None
  BY DEF Finish, Moves, HandsKnown
<1>2. g \in Fibers /\ Alive(g)
  BY <1>1, HeldAlone
<1>3. /\ runs' = [runs EXCEPT ![w] = None] /\ UNCHANGED queues /\ QueuesTyped
      /\ runs \in [Workers -> Fibers \cup {None}] /\ fpc' = [fpc EXCEPT ![g] = "done"]
      /\ fpc \in [Fibers -> FPC]
  BY DEF Finish, Typed, ControlTyped
<1>4. QueuesTyped'
  BY <1>3 DEF QueuesTyped, queues
<1>5. \A f \in Fibers : Lives(f) = Lives(f)' + Is(g, f)
  BY <1>2, <1>3 DEF Lives, Alive, Is
<1>6. \A f \in Fibers : Cardinality(On(f))' + Is(g, f) = Cardinality(On(f)) + Is(None, f)
  BY <1>3, OnExcept
<1>7. ASSUME NEW f \in Fibers PROVE Tally(f)' + Lives(f) = Tally(f) + Lives(f)'
  <2>1. /\ InQueues(f) \in Nat /\ Times(f, inbox) \in Nat /\ InLists(f) \in Nat
        /\ Cardinality(On(f)) \in Nat /\ Cardinality(On(f))' \in Nat /\ Is(g, f) \in Nat
    BY <1>3, <1>4, TypedParts, TypedPartsNext, IsNat DEF Parts
  <2>2. Tally(f)' = InQueues(f) + Times(f, inbox) + Cardinality(On(f))' + InLists(f)
    BY <1>3 DEF Tally, InQueues, InLists, In, Times, Spread, queues
  <2>3. Tally(f) = InQueues(f) + Times(f, inbox) + Cardinality(On(f)) + InLists(f)
    BY DEF Tally
  <2>4. Is(None, f) = 0
    BY ActorsAssumption DEF Is
  <2>5. Cardinality(On(f))' + Is(g, f) = Cardinality(On(f))
    BY <1>6, <2>1, <2>4
  <2>6. Lives(f) = Lives(f)' + Is(g, f) /\ Lives(f)' \in Nat
    BY <1>5 DEF Lives
  <2> HIDE DEF g
  <2> QED
    BY <2>1, <2>2, <2>3, <2>5, <2>6
<1> QED
  BY <1>3, <1>4, <1>7, PlacesFollow

LEMMA WakeListedPlaced ==
  ASSUME Typed, HandsKnown, AllPlaced, NEW w \in Workers, NEW g \in Fibers, WakeListed(w, g)
  PROVE  QueuesTyped' /\ AllPlaced'
<1>1. g \in onfd /\ onfd' = onfd \ {g} /\ UNCHANGED <<inbox, sleeping, parked, runs, fpc>> /\ QueuesTyped
  BY DEF WakeListed, HandsKnown, Typed
<1>2. /\ deque' \in [Workers -> Seq(Fibers)] /\ \A v \in Workers : Len(deque'[v]) <= Room
      /\ run' \in Seq(Fibers)
      /\ \A f \in Fibers : InQueues(f)' = InQueues(f) + Is(g, f)
  BY <1>1, PutPlaces DEF WakeListed
<1>3. QueuesTyped'
  BY <1>1, <1>2 DEF QueuesTyped
<1>4. \A f \in Fibers : In(f, onfd) = In(f, onfd') + Is(g, f)
  BY <1>1, Leaves
<1>5. \A f \in Fibers : Lives(f)' = Lives(f)
  BY <1>1 DEF Lives, Alive
<1>6. ASSUME NEW f \in Fibers PROVE Tally(f)' = Tally(f)
  <2>1. /\ InQueues(f) \in Nat /\ Times(f, inbox) \in Nat /\ Cardinality(On(f)) \in Nat
        /\ Is(g, f) \in Nat /\ In(f, sleeping) \in Nat /\ In(f, onfd) \in Nat /\ In(f, parked) \in Nat
        /\ InLists(f) = In(f, sleeping) + In(f, onfd) + In(f, parked)
    BY <1>1, TypedParts, IsNat DEF Parts
  <2>2. Tally(f)' = InQueues(f)' + Times(f, inbox) + Cardinality(On(f)) + InLists(f)'
    BY <1>1 DEF Tally, Times, On
  <2>3. InLists(f)' = In(f, sleeping) + In(f, onfd') + In(f, parked) /\ In(f, onfd') \in Nat
    BY <1>1 DEF InLists, In
  <2>4. InQueues(f)' = InQueues(f) + Is(g, f) /\ In(f, onfd) = In(f, onfd') + Is(g, f)
    BY <1>2, <1>4
  <2>5. Tally(f) = InQueues(f) + Times(f, inbox) + Cardinality(On(f)) + InLists(f)
    BY DEF Tally
  <2> QED
    BY <2>1, <2>2, <2>3, <2>4, <2>5
<1> QED
  BY <1>1, <1>3, <1>5, <1>6, PlacesFollow

LEMMA PostSpawnedPlaced ==
  ASSUME Typed, HandsKnown, AllPlaced, NEW g \in Fibers, PostSpawned(g)
  PROVE  QueuesTyped' /\ AllPlaced'
<1>1. /\ inbox' = <<g>> \o inbox /\ UNCHANGED <<deque, run, sleeping, onfd, parked, runs>> /\ QueuesTyped
      /\ fpc' = [fpc EXCEPT ![g] = "ready"] /\ fpc[g] = "posted" /\ fpc \in [Fibers -> FPC]
  BY DEF PostSpawned, Post, Typed, ControlTyped
<1>2. inbox' \in Seq(Fibers) /\ \A f \in Fibers : Times(f, inbox)' = Times(f, inbox) + Is(g, f)
  BY <1>1, PostPlaces
<1>3. QueuesTyped'
  BY <1>1, <1>2 DEF QueuesTyped
<1>4. \A f \in Fibers : Lives(f)' = Lives(f) + Is(g, f)
  BY <1>1 DEF Lives, Alive, Is
<1>5. ASSUME NEW f \in Fibers PROVE Tally(f)' + Lives(f) = Tally(f) + Lives(f)'
  <2>1. /\ InQueues(f) \in Nat /\ Times(f, inbox) \in Nat /\ InLists(f) \in Nat
        /\ Cardinality(On(f)) \in Nat /\ Is(g, f) \in Nat /\ Lives(f) \in Nat
    BY <1>1, TypedParts, IsNat DEF Parts, Lives
  <2>2. Tally(f)' = InQueues(f) + Times(f, inbox)' + Cardinality(On(f)) + InLists(f)
    BY <1>1 DEF Tally, InQueues, InLists, In, On, Times, Spread
  <2>3. Times(f, inbox)' = Times(f, inbox) + Is(g, f) /\ Lives(f)' = Lives(f) + Is(g, f)
    BY <1>2, <1>4
  <2>4. Tally(f) = InQueues(f) + Times(f, inbox) + Cardinality(On(f)) + InLists(f)
    BY DEF Tally
  <2> QED
    BY <2>1, <2>2, <2>3, <2>4
<1> QED
  BY <1>1, <1>3, <1>5, PlacesFollow

LEMMA PostWokenPlaced ==
  ASSUME Typed, HandsKnown, AllPlaced, NEW g \in Fibers, PostWoken(g)
  PROVE  QueuesTyped' /\ AllPlaced'
<1>1. /\ inbox' = <<g>> \o inbox /\ g \in parked /\ parked' = parked \ {g}
      /\ UNCHANGED <<deque, run, sleeping, onfd, runs, fpc>> /\ QueuesTyped
  BY DEF PostWoken, Post, Typed
<1>2. inbox' \in Seq(Fibers) /\ \A f \in Fibers : Times(f, inbox)' = Times(f, inbox) + Is(g, f)
  BY <1>1, PostPlaces
<1>3. QueuesTyped'
  BY <1>1, <1>2 DEF QueuesTyped
<1>4. \A f \in Fibers : In(f, parked) = In(f, parked') + Is(g, f)
  BY <1>1, Leaves
<1>5. \A f \in Fibers : Lives(f)' = Lives(f)
  BY <1>1 DEF Lives, Alive
<1>6. ASSUME NEW f \in Fibers PROVE Tally(f)' = Tally(f)
  <2>1. /\ InQueues(f) \in Nat /\ Times(f, inbox) \in Nat /\ Cardinality(On(f)) \in Nat
        /\ Is(g, f) \in Nat /\ In(f, sleeping) \in Nat /\ In(f, onfd) \in Nat /\ In(f, parked) \in Nat
        /\ InLists(f) = In(f, sleeping) + In(f, onfd) + In(f, parked)
    BY <1>1, TypedParts, IsNat DEF Parts
  <2>2. Tally(f)' = InQueues(f) + Times(f, inbox)' + Cardinality(On(f)) + InLists(f)'
    BY <1>1 DEF Tally, InQueues, On, Times, Spread
  <2>3. InLists(f)' = In(f, sleeping) + In(f, onfd) + In(f, parked') /\ In(f, parked') \in Nat
    BY <1>1 DEF InLists, In
  <2>4. Times(f, inbox)' = Times(f, inbox) + Is(g, f) /\ In(f, parked) = In(f, parked') + Is(g, f)
    BY <1>2, <1>4
  <2>5. Tally(f) = InQueues(f) + Times(f, inbox) + Cardinality(On(f)) + InLists(f)
    BY DEF Tally
  <2> QED
    BY <2>1, <2>2, <2>3, <2>4, <2>5
<1> QED
  BY <1>1, <1>3, <1>5, <1>6, PlacesFollow

\* A worker of a pool does not run, queue or list a fiber in any other step.
Quiet(w) ==
  \/ BeginCreate(w) \/ Publish(w) \/ FindScheduler(w) \/ Attach(w) \/ Exit(w)
  \/ FindNothing(w) \/ Idle(w) \/ CvWaitEnds(w) \/ EpollReturns(w) \/ WalkEnds(w) \/ StopPolling(w)

LEMMA QuietUnchanged ==
  ASSUME NEW w \in Workers, Quiet(w)
  PROVE  UNCHANGED <<queues, runs, fpc, turns, started, closed, inflight, clients>>
BY DEF Quiet, BeginCreate, Publish, FindScheduler, Attach, Exit, FindNothing, Idle, CvWaitEnds,
       EpollReturns, WalkEnds, StopPolling, setup, group

\* The steps of whoever is not a worker.
Outside ==
  \/ DropAfterSpawn \/ CloseGroup \/ PingWorkers \/ JoinWorkers \/ DropAfterWake \/ Free
  \/ \E f \in Fibers : PostSpawned(f) \/ PostWoken(f) \/ SpawnOn(f) \/ SpawnFails(f)

LEMMA OutsideUnchanged ==
  ASSUME Outside
  PROVE  UNCHANGED <<wpc, runs, todo, turns, onfd, started, creating, polling, lock, deque, run, sleeping>>
BY DEF Outside, DropAfterSpawn, CloseGroup, PingWorkers, JoinWorkers, DropAfterWake, Free, PostSpawned,
       PostWoken, SpawnOn, SpawnFails, setup, group, queues

\* Every step is one of these.
LEMMA NextCases ==
  ASSUME [Next]_vars
  PROVE  \/ \E w \in Workers :
              \/ Quiet(w) \/ Drain(w) \/ Pick(w) \/ SwitchOut(w) \/ Finalize(w) \/ Finish(w)
              \/ \E f \in Fibers : WakeListed(w, f) \/ SpawnHere(w, f)
         \/ Outside
         \/ UNCHANGED vars
BY DEF Next, WorkerStep, ClientStep, WakerStep, Quiet, Outside

LEMMA NextPlaced ==
  ASSUME Typed, HandsKnown, AllPlaced, [Next]_vars
  PROVE  QueuesTyped' /\ AllPlaced'
<1>1. ASSUME NEW w \in Workers, Quiet(w) PROVE QueuesTyped' /\ AllPlaced'
  BY <1>1, QuietUnchanged, StillPlaced DEF Typed, Alive
<1>2. ASSUME NEW w \in Workers, Drain(w) \/ Pick(w) \/ SwitchOut(w) \/ Finalize(w) \/ Finish(w)
      PROVE  QueuesTyped' /\ AllPlaced'
  BY <1>2, DrainPlaced, PickPlaced, SwitchOutPlaced, FinalizePlaced, FinishPlaced
<1>3. ASSUME NEW w \in Workers, NEW f \in Fibers, WakeListed(w, f) \/ SpawnHere(w, f)
      PROVE  QueuesTyped' /\ AllPlaced'
  BY <1>3, WakeListedPlaced, SpawnHerePlaced
<1>4. CASE Outside
  <2>1. CASE \E f \in Fibers : PostSpawned(f) \/ PostWoken(f)
    BY <2>1, PostSpawnedPlaced, PostWokenPlaced
  <2>2. CASE DropAfterSpawn \/ CloseGroup \/ PingWorkers \/ JoinWorkers \/ DropAfterWake \/ Free
    <3>1. UNCHANGED <<queues, runs, fpc>>
      BY <2>2 DEF DropAfterSpawn, CloseGroup, PingWorkers, JoinWorkers, DropAfterWake, Free
    <3> QED
      BY <3>1, StillPlaced DEF Typed, Alive
  <2>3. CASE \E f \in Fibers : SpawnOn(f) \/ SpawnFails(f)
    <3>1. UNCHANGED <<queues, runs>>
      BY <2>3 DEF SpawnOn, SpawnFails
    <3>2. \A f \in Fibers : Alive(f)' <=> Alive(f)
      BY <2>3 DEF SpawnOn, SpawnFails, Alive, Typed, ControlTyped
    <3> QED
      BY <3>1, <3>2, StillPlaced DEF Typed
  <2> QED
    BY <1>4, <2>1, <2>2, <2>3 DEF Outside
<1>5. CASE UNCHANGED vars
  BY <1>5, StillPlaced DEF vars, Typed, Alive
<1> QED
  BY <1>1, <1>2, <1>3, <1>4, <1>5, NextCases

LEMMA NextControlTyped ==
  ASSUME Typed, HandsKnown, [Next]_vars
  PROVE  ControlTyped'
<1> USE DEF WPC, FPC, Clients, Attached
<1>1. ASSUME NEW w \in Workers, Quiet(w) PROVE ControlTyped'
  <2>1. /\ UNCHANGED <<runs, fpc, turns, started, closed, inflight, clients>>
        /\ wpc' \in [Workers -> WPC]
    <3>1. wpc' \in [Workers -> WPC]
      BY <1>1
         DEF Typed, ControlTyped, Quiet, BeginCreate, Publish, FindScheduler, Attach, Exit, FindNothing,
             Idle, CvWaitEnds, EpollReturns, WalkEnds, StopPolling, Moves
    <3> QED
      BY <1>1, <3>1, QuietUnchanged
  <2>2. CASE ~Idle(w) /\ ~EpollReturns(w)
    <3>1. creating' \in BOOLEAN
      BY <1>1, <2>2
         DEF Typed, ControlTyped, Quiet, BeginCreate, Publish, FindScheduler, Attach, Exit, FindNothing,
             CvWaitEnds, WalkEnds, StopPolling, setup
    <3>2. polling' \in BOOLEAN
      BY <1>1, <2>2
         DEF Typed, ControlTyped, Quiet, BeginCreate, Publish, FindScheduler, Attach, Exit, FindNothing,
             CvWaitEnds, WalkEnds, StopPolling, GivesBack, group
    <3>3. lock' \in Workers \cup {None} /\ todo' = todo
      BY <1>1, <2>2
         DEF Typed, ControlTyped, Quiet, BeginCreate, Publish, FindScheduler, Attach, Exit, FindNothing,
             CvWaitEnds, WalkEnds, StopPolling, group
    <3>4. sched' \in {"none", "live", "freed"} /\ refs' \in Int
      <4>1. CASE Exit(w)
        BY <4>1 DEF Typed, ControlTyped, Exit, Unref
      <4>2. CASE ~Exit(w)
        BY <1>1, <2>2, <4>2
           DEF Typed, ControlTyped, Quiet, BeginCreate, Publish, FindScheduler, Attach, FindNothing,
               CvWaitEnds, WalkEnds, StopPolling, setup
      <4> QED
        BY <4>1, <4>2
    <3> QED
      BY <2>1, <3>1, <3>2, <3>3, <3>4 DEF Typed, ControlTyped, clients
  <2>3. CASE Idle(w)
    <3>1. \/ wpc' = [wpc EXCEPT ![w] = "top"] /\ UNCHANGED polling
          \/ wpc' = [wpc EXCEPT ![w] = "leave"] /\ UNCHANGED polling
          \/ wpc' = [wpc EXCEPT ![w] = "epoll"] /\ polling' = TRUE
          \/ wpc' = [wpc EXCEPT ![w] = "cvwait"] /\ UNCHANGED polling
      BY <2>3 DEF Idle
    <3>2. UNCHANGED <<setup, closed, inflight, lock, clients, runs, todo, fpc, turns>>
      BY <2>3 DEF Idle
    <3>3. {"top", "leave", "epoll", "cvwait"} \subseteq WPC
      BY DEF WPC
    <3>4. wpc' \in [Workers -> WPC] /\ polling' \in BOOLEAN
      BY <3>1, <3>3 DEF Typed, ControlTyped
    <3> QED
      BY <3>2, <3>4 DEF Typed, ControlTyped, setup, clients
  <2>4. CASE EpollReturns(w)
    BY <2>4 DEF Typed, ControlTyped, QueuesTyped, EpollReturns, Moves, group, setup, clients
  <2> QED
    BY <2>2, <2>3, <2>4
<1>2. ASSUME NEW w \in Workers, Drain(w) PROVE ControlTyped'
  BY <1>2 DEF Typed, ControlTyped, Drain, Moves, group, setup, clients
<1>3. ASSUME NEW w \in Workers, Pick(w) PROVE ControlTyped'
  <2>1. PICK g \in Fibers : runs' = [runs EXCEPT ![w] = g]
    BY <1>3, TakePlaces DEF Typed, Pick
  <2> QED
    BY <1>3, <2>1 DEF Typed, ControlTyped, Pick, Moves, group, setup, clients
<1>4. ASSUME NEW w \in Workers, SwitchOut(w) \/ Finalize(w) \/ Finish(w) PROVE ControlTyped'
  <2>1. runs[w] \in Fibers
    BY <1>4 DEF Typed, ControlTyped, HandsKnown, SwitchOut, Finalize, Finish, Moves
  <2>2. CASE SwitchOut(w)
    <3>1. turns' \in [Fibers -> 0 .. MaxTurns]
      BY <2>1, <2>2, TurnsAssumption DEF Typed, ControlTyped, SwitchOut
    <3> QED
      BY <2>1, <2>2, <3>1 DEF Typed, ControlTyped, SwitchOut, Moves, group, setup, clients
  <2>3. CASE Finalize(w)
    BY <2>1, <2>3 DEF Typed, ControlTyped, Finalize, Moves, group, setup, clients
  <2>4. CASE Finish(w)
    BY <2>1, <2>4 DEF Typed, ControlTyped, Finish, Settled, Moves, group, setup, clients
  <2> QED
    BY <1>4, <2>2, <2>3, <2>4
<1>5. ASSUME NEW w \in Workers, NEW f \in Fibers, WakeListed(w, f) \/ SpawnHere(w, f) PROVE ControlTyped'
  BY SMTT(30), <1>5 DEF Typed, ControlTyped, WakeListed, SpawnHere, group, setup, clients
<1>6. CASE Outside
  <2>1. CASE DropAfterSpawn \/ CloseGroup \/ PingWorkers \/ JoinWorkers \/ DropAfterWake \/ Free
    <3>1. UNCHANGED <<started, creating, polling, lock, wpc, runs, todo, turns>>
      BY <1>6, OutsideUnchanged
    <3>2. UNCHANGED <<inflight, fpc>>
      BY <2>1 DEF DropAfterSpawn, CloseGroup, PingWorkers, JoinWorkers, DropAfterWake, Free, group
    <3>3. poolclosed' \in BOOLEAN /\ closed' \in BOOLEAN
      BY <2>1
         DEF Typed, ControlTyped, DropAfterSpawn, CloseGroup, PingWorkers, JoinWorkers, DropAfterWake, Free,
             group
    <3>5. sched' \in {"none", "live", "freed"} /\ refs' \in Int
      BY <2>1
         DEF Typed, ControlTyped, DropAfterSpawn, CloseGroup, PingWorkers, JoinWorkers, DropAfterWake, Free,
             Unref, setup
    <3>4. client' \in Clients /\ waking' \in Fibers \cup {None}
      BY <2>1
         DEF Typed, ControlTyped, DropAfterSpawn, CloseGroup, PingWorkers, JoinWorkers, DropAfterWake, Free
    <3> QED
      BY <3>1, <3>2, <3>3, <3>4, <3>5 DEF Typed, ControlTyped
  <2>2. CASE \E f \in Fibers : PostSpawned(f) \/ PostWoken(f)
    BY <2>2 DEF Typed, ControlTyped, PostSpawned, PostWoken, Post, group, setup, clients
  <2>3. CASE \E f \in Fibers : SpawnOn(f) \/ SpawnFails(f)
    BY <2>3 DEF Typed, ControlTyped, SpawnOn, SpawnFails, group, setup, clients
  <2> QED
    BY <1>6, <2>1, <2>2, <2>3 DEF Outside
<1>7. CASE UNCHANGED vars
  BY <1>7 DEF Typed, ControlTyped, vars, group, setup, clients
<1> QED
  BY <1>1, <1>2, <1>3, <1>4, <1>5, <1>6, <1>7, NextCases

\* A worker comes to hold a fiber, or none, and goes to a place that fits.
LEMMA NextHandsKnown ==
  ASSUME Typed, HandsKnown, PollInv, [Next]_vars
  PROVE  HandsKnown'
<1>1. ASSUME NEW w \in Workers, Quiet(w) PROVE HandsKnown'
  <2>1. CASE ~EpollReturns(w)
    BY <1>1, <2>1
       DEF Typed, ControlTyped, HandsKnown, Quiet, BeginCreate, Publish, FindScheduler, Attach, Exit,
           FindNothing, Idle, CvWaitEnds, WalkEnds, StopPolling, Moves, queues
  <2>2. CASE EpollReturns(w)
    BY <2>2 DEF Typed, ControlTyped, HandsKnown, EpollReturns, Moves, queues
  <2> QED
    BY <2>1, <2>2
<1>2. ASSUME NEW w \in Workers, Drain(w) PROVE HandsKnown'
  BY <1>2 DEF Typed, ControlTyped, HandsKnown, Drain, Moves
<1>3. ASSUME NEW w \in Workers, Pick(w) PROVE HandsKnown'
  <2>1. PICK g \in Fibers : runs' = [runs EXCEPT ![w] = g]
    BY <1>3, TakePlaces DEF Typed, Pick
  <2> QED
    BY <1>3, <2>1, ActorsAssumption DEF Typed, ControlTyped, HandsKnown, Pick, Moves
<1>4. ASSUME NEW w \in Workers, SwitchOut(w) PROVE HandsKnown'
  BY <1>4 DEF Typed, ControlTyped, HandsKnown, SwitchOut, Moves
<1>5. ASSUME NEW w \in Workers, Finalize(w) PROVE HandsKnown'
  <2>1. onfd \subseteq onfd' /\ UNCHANGED todo /\ runs' = [runs EXCEPT ![w] = None]
        /\ wpc[w] = "switch" /\ wpc' = [wpc EXCEPT ![w] = "top"]
    BY <1>5 DEF Finalize, Moves
  <2> QED
    BY <2>1 DEF Typed, ControlTyped, HandsKnown
<1>6. ASSUME NEW w \in Workers, Finish(w) PROVE HandsKnown'
  BY <1>6 DEF Typed, ControlTyped, HandsKnown, Finish, Moves, queues
<1>7. ASSUME NEW w \in Workers, NEW f \in Fibers, WakeListed(w, f) PROVE HandsKnown'
  <2>1. \A v \in Workers \ {w} : wpc[v] # "walk"
    BY <1>7 DEF WakeListed, PollInv, PollPlaces
  <2>2. \A v \in Workers \ {w} : todo[v] = {}
    BY <2>1 DEF HandsKnown
  <2> QED
    BY <1>7, <2>2 DEF Typed, ControlTyped, HandsKnown, WakeListed
<1>8. ASSUME NEW w \in Workers, NEW f \in Fibers, SpawnHere(w, f) PROVE HandsKnown'
  BY <1>8 DEF HandsKnown, SpawnHere
<1>9. CASE Outside
  BY <1>9, OutsideUnchanged DEF HandsKnown
<1>10. CASE UNCHANGED vars
  BY <1>10 DEF HandsKnown, vars, queues
<1> QED
  BY <1>1, <1>2, <1>3, <1>4, <1>5, <1>6, <1>7, <1>8, <1>9, <1>10, NextCases

LEMMA InitPlaceInv == Init => PlaceInv
<1> SUFFICES ASSUME Init PROVE PlaceInv
  OBVIOUS
<1>1. ControlTyped
  <2>1. wpc \in [Workers -> WPC] /\ fpc \in [Fibers -> FPC] /\ client \in Clients
    BY DEF Init, WPC, FPC, Clients
  <2>2. turns \in [Fibers -> 0 .. MaxTurns]
    BY TurnsAssumption DEF Init
  <2>3. /\ started \subseteq Workers /\ sched \in {"none", "live", "freed"} /\ refs \in Int
        /\ inflight \in Int /\ lock \in Workers \cup {None}
    BY DEF Init
  <2>5. creating \in BOOLEAN /\ closed \in BOOLEAN /\ polling \in BOOLEAN
    BY DEF Init
  <2>6. poolclosed \in BOOLEAN
    BY Zenon DEF Init
  <2>4. /\ runs \in [Workers -> Fibers \cup {None}] /\ todo \in [Workers -> SUBSET Fibers]
        /\ waking \in Fibers \cup {None}
    BY DEF Init
  <2> QED
    BY <2>1, <2>2, <2>3, <2>4, <2>5, <2>6 DEF ControlTyped
<1>2. QueuesTyped
  BY RoomAssumption DEF Init, QueuesTyped
<1>3. HandsKnown
  BY DEF Init, HandsKnown
<1>4. ASSUME NEW f \in Fibers PROVE Places(f) = 0 /\ ~Alive(f)
  <2>1. Times(f, run) = 0 /\ Times(f, inbox) = 0
    BY TimesEmpty DEF Init
  <2>2. Spread(deque, f) = {}
    BY DEF Init, Spread
  <2>3. On(f) = {}
    BY ActorsAssumption DEF Init, On
  <2>4. InLists(f) = 0
    BY DEF Init, InLists, In
  <2>5. Tally(f) = 0
    BY <2>1, <2>2, <2>3, <2>4, FS_EmptySet DEF Tally, InQueues
  <2> QED
    BY <1>2, <2>5, TypedCounts DEF Counts, Init, Alive
<1> QED
  BY <1>1, <1>2, <1>3, <1>4, InitPollInv DEF PlaceInv, Typed, AllPlaced

LEMMA NextPlaceInv == PlaceInv /\ [Next]_vars => PlaceInv'
BY NextPlaced, NextControlTyped, NextHandsKnown, NextPollInv DEF PlaceInv, Typed

\* A fiber that was spawned and has not ended is in exactly one place, however the
\* workers take, steal, park, poll and post: no two workers ever run the same
\* maka_fiber_t, and none drops out of every queue.
THEOREM AlwaysInOnePlace == Spec => []InOnePlace
<1>1. PlaceInv => InOnePlace
  BY TypedIsTypeOK DEF PlaceInv, InOnePlace, AllPlaced, Alive
<1> QED
  BY InitPlaceInv, NextPlaceInv, <1>1, PTL DEF Spec

-----------------------------------------------------------------------------
(***************************************************************************)
(* Nobody leaves while a fiber is in flight.                               *)
(***************************************************************************)
Left == \E w \in Workers : wpc[w] \in {"leave", "gone"}

LEMMA PendingFinite == IsFiniteSet(Pending) /\ Cardinality(Pending) \in Nat
<1>1. Pending \subseteq Fibers
  BY DEF Pending
<1>2. IsFiniteSet(Pending)
  BY <1>1, ActorsAssumption, FS_Subset
<1> QED
  BY <1>2, FS_CardinalityType

\* The count does not change, and whoever leaves anew may.
LEMMA CountStays ==
  ASSUME CountKnown, Pending' = Pending, UNCHANGED inflight, closed => closed',
         closed' => client' \in {"ping", "join", "freed"},
         Left' => Left \/ (closed /\ inflight = 0)
  PROVE  CountKnown'
<1>1. inflight = 0 => Pending = {}
  BY PendingFinite, FS_EmptySet DEF CountKnown
<1> QED
  BY <1>1 DEF CountKnown, Left

\* A fiber is accepted.
LEMMA CountRises ==
  ASSUME CountKnown, NEW f \in Fibers, f \notin Pending, Pending' = Pending \cup {f},
         inflight' = inflight + 1, UNCHANGED <<closed, wpc>>, ~Left,
         closed' => client' \in {"ping", "join", "freed"}
  PROVE  CountKnown'
<1>1. Cardinality(Pending \cup {f}) = Cardinality(Pending) + 1
  BY PendingFinite, FS_AddElement
<1> QED
  BY <1>1 DEF CountKnown, Left

\* What a worker holds is in flight, so nobody has left.
LEMMA HolderStays ==
  ASSUME PlaceInv, CountKnown, NEW w \in Workers, wpc[w] \in {"on", "switch"}
  PROVE  runs[w] \in Pending /\ runs[w] \in Fibers /\ Alive(runs[w]) /\ ~Left
<1>1. runs[w] # None
  BY DEF PlaceInv, HandsKnown
<1>2. runs[w] \in Fibers /\ Alive(runs[w])
  BY <1>1, HeldAlone DEF PlaceInv
<1> QED
  BY <1>2 DEF Alive, Pending, CountKnown, Left

LEMMA NextCountKnown ==
  ASSUME PlaceInv, CountKnown, [Next]_vars
  PROVE  CountKnown'
<1> USE DEF Moves
<1>1. ASSUME NEW w \in Workers, Quiet(w) PROVE CountKnown'
  <2>1. Pending' = Pending /\ UNCHANGED <<inflight, closed, client>>
    BY <1>1, QuietUnchanged DEF Pending, clients
  <2>2. CASE Exit(w)
    <3>1. Left
      BY <2>2 DEF Exit, Left
    <3> QED
      BY <2>1, <3>1, CountStays DEF CountKnown
  <2>3. CASE Idle(w)
    <3>1. Left' => Left \/ (closed /\ inflight = 0)
      BY <2>3 DEF Idle, Left, Drained, PlaceInv, Typed, ControlTyped
    <3> QED
      BY <2>1, <3>1, CountStays DEF CountKnown
  <2>4. CASE ~Exit(w) /\ ~Idle(w)
    <3>1. Left' => Left
      BY <1>1, <2>4
         DEF Left, PlaceInv, Typed, ControlTyped, Quiet, BeginCreate, Publish, FindScheduler, Attach,
             FindNothing, CvWaitEnds, EpollReturns, WalkEnds, StopPolling
    <3> QED
      BY <2>1, <3>1, CountStays DEF CountKnown
  <2> QED
    BY <2>2, <2>3, <2>4
<1>2. ASSUME NEW w \in Workers, Drain(w) \/ Pick(w) PROVE CountKnown'
  <2>1. Pending' = Pending /\ UNCHANGED <<inflight, closed, client>>
    BY <1>2 DEF Drain, Pick, Pending, group, clients
  <2>2. Left' => Left
    BY <1>2 DEF Drain, Pick, Left, PlaceInv, Typed, ControlTyped
  <2> QED
    BY <2>1, <2>2, CountStays DEF CountKnown
<1>3. ASSUME NEW w \in Workers, SwitchOut(w) \/ Finalize(w) PROVE CountKnown'
  <2>1. runs[w] \in Pending
    BY <1>3, HolderStays DEF SwitchOut, Finalize
  <2>2. PICK how \in FPC \ {"unborn", "done"} : fpc' = [fpc EXCEPT ![runs[w]] = how]
    BY <1>3 DEF SwitchOut, Finalize, FPC
  <2>3. Pending' = Pending
    BY <2>1, <2>2 DEF Pending, PlaceInv, Typed, ControlTyped
  <2>4. UNCHANGED <<inflight, closed, client>>
    BY <1>3 DEF SwitchOut, Finalize, group, clients
  <2>5. Left' => Left
    BY <1>3 DEF SwitchOut, Finalize, Left, PlaceInv, Typed, ControlTyped
  <2> QED
    BY <2>3, <2>4, <2>5, CountStays DEF CountKnown
<1>4. ASSUME NEW w \in Workers, Finish(w) PROVE CountKnown'
  <2> DEFINE f == runs[w]
  <2>1. f \in Pending /\ ~Left
    BY <1>4, HolderStays DEF Finish
  <2>2. Pending' = Pending \ {f}
    BY <1>4, <2>1 DEF Finish, Pending, PlaceInv, Typed, ControlTyped
  <2>3. Cardinality(Pending \ {f}) = Cardinality(Pending) - 1
    BY <2>1, PendingFinite, FS_RemoveElement
  <2>4. ~Left'
    BY <1>4, <2>1 DEF Finish, Left, PlaceInv, Typed, ControlTyped
  <2> QED
    BY <1>4, <2>2, <2>3, <2>4 DEF Finish, Settled, CountKnown, Left, clients
<1>5. ASSUME NEW w \in Workers, NEW f \in Fibers, WakeListed(w, f) PROVE CountKnown'
  BY <1>5, CountStays DEF WakeListed, CountKnown, Pending, Left, clients
<1>6. ASSUME NEW w \in Workers, NEW f \in Fibers, SpawnHere(w, f) PROVE CountKnown'
  <2>1. ~Left
    BY <1>6, HolderStays DEF SpawnHere
  <2>2. f \notin Pending /\ Pending' = Pending \cup {f}
    BY <1>6 DEF SpawnHere, Pending, PlaceInv, Typed, ControlTyped
  <2> QED
    BY <1>6, <2>1, <2>2, CountRises DEF SpawnHere, CountKnown, clients
<1>7. CASE Outside
  <2>1. Left' => Left
    BY <1>7, OutsideUnchanged DEF Left
  <2>2. CASE DropAfterSpawn \/ PingWorkers \/ JoinWorkers \/ DropAfterWake \/ Free
    <3>1. Pending' = Pending /\ UNCHANGED <<inflight, closed>>
      BY <2>2 DEF DropAfterSpawn, PingWorkers, JoinWorkers, DropAfterWake, Free, Pending, group
    <3>2. closed' => client' \in {"ping", "join", "freed"}
      BY <2>2, <3>1 DEF DropAfterSpawn, PingWorkers, JoinWorkers, DropAfterWake, Free, CountKnown
    <3> QED
      BY <2>1, <3>1, <3>2, CountStays
  <2>3. CASE CloseGroup
    <3>1. Pending' = Pending /\ UNCHANGED inflight /\ client' = "ping" /\ (closed => closed')
      BY <2>3 DEF CloseGroup, Pending
    <3> QED
      BY <2>1, <3>1, CountStays
  <2>4. ASSUME NEW f \in Fibers, PostSpawned(f) \/ PostWoken(f) \/ SpawnFails(f) PROVE CountKnown'
    <3>1. Pending' = Pending
      BY <2>4 DEF PostSpawned, PostWoken, SpawnFails, Pending, PlaceInv, Typed, ControlTyped
    <3>2. UNCHANGED <<inflight, closed>>
      BY <2>4 DEF PostSpawned, PostWoken, SpawnFails, group
    <3>3. closed' => client' \in {"ping", "join", "freed"}
      BY <2>4, <3>2 DEF PostSpawned, PostWoken, SpawnFails, CountKnown, clients
    <3> QED
      BY <2>1, <3>1, <3>2, <3>3, CountStays
  <2>5. ASSUME NEW f \in Fibers, SpawnOn(f) PROVE CountKnown'
    <3>1. ~closed /\ ~Left
      BY <2>5 DEF SpawnOn, CountKnown, Left
    <3>2. f \notin Pending /\ Pending' = Pending \cup {f}
      BY <2>5 DEF SpawnOn, Pending, PlaceInv, Typed, ControlTyped
    <3> QED
      BY <2>5, <3>1, <3>2, CountRises DEF SpawnOn
  <2> QED
    BY <1>7, <2>2, <2>3, <2>4, <2>5 DEF Outside
<1>8. CASE UNCHANGED vars
  BY <1>8, CountStays DEF vars, group, clients, CountKnown, Pending, Left
<1> QED
  BY <1>1, <1>2, <1>3, <1>4, <1>5, <1>6, <1>7, <1>8, NextCases

LEMMA InitLeaveInv == Init => LeaveInv
<1> SUFFICES ASSUME Init PROVE LeaveInv
  OBVIOUS
<1>1. Pending = {}
  BY DEF Init, Pending
<1>2. CountKnown
  BY <1>1, FS_EmptySet DEF Init, CountKnown
<1> QED
  BY <1>2, InitPlaceInv DEF LeaveInv

LEMMA NextLeaveInv == LeaveInv /\ [Next]_vars => LeaveInv'
BY NextPlaceInv, NextCountKnown DEF LeaveInv

\* A worker leaves the loop, and the scheduler is freed, only when every fiber that
\* was spawned has ended: the group's inflight counts each of them, a fiber that is
\* still to be posted included, and pool_free sets closed before a worker may leave.
THEOREM AlwaysNoneLeftBehind == Spec => []NoneLeftBehind
<1>1. LeaveInv => NoneLeftBehind
  BY DEF LeaveInv, CountKnown, NoneLeftBehind, Pending
<1> QED
  BY InitLeaveInv, NextLeaveInv, <1>1, PTL DEF Spec

-----------------------------------------------------------------------------
(***************************************************************************)
(* The scheduler lives as long as somebody has a reference to it.          *)
(***************************************************************************)
Posters == (IF client = "unref" THEN 1 ELSE 0) + (IF waking # None THEN 1 ELSE 0)

\* The workers that have not attached yet, and those that have left.
Apart == {"never", "start", "create", "attach", "gone"}

LEMMA HoldersFinite ==
  /\ IsFiniteSet(Holders) /\ Cardinality(Holders) \in Nat
  /\ \A w \in Holders : Cardinality(Holders) > 0
<1>1. Holders \subseteq Workers
  BY DEF Holders
<1>2. IsFiniteSet(Holders)
  BY <1>1, ActorsAssumption, FS_Subset
<1>3. Cardinality(Holders) \in Nat /\ (Cardinality(Holders) = 0 <=> Holders = {})
  BY <1>2, FS_CardinalityType, FS_EmptySet
<1> QED
  BY <1>2, <1>3

LEMMA RefsAre ==
  RefsMatchHolders <=> refs = Cardinality(Holders) + Posters /\ (sched = "live" <=> refs > 0)
<1>1. (IF client = "unref" THEN 1 ELSE 0) \in Nat /\ (IF waking # None THEN 1 ELSE 0) \in Nat
  OBVIOUS
<1> QED
  BY <1>1, HoldersFinite DEF RefsMatchHolders, Holders, Posters

LEMMA RefsAreNext ==
  (RefsMatchHolders <=> refs = Cardinality(Holders) + Posters /\ (sched = "live" <=> refs > 0))'
BY RefsAre, PTL

\* While a fiber is in flight, somebody is attached.
LEMMA InFlightLive ==
  ASSUME LeaveInv, SetupKnown, RefsMatchHolders, ~Left, sched # "none"
  PROVE  sched = "live" /\ refs > 0
<1>1. PICK w \in Workers : wpc[w] \in Attached \cup {"gone"}
  BY DEF SetupKnown
<1>2. w \in Holders
  BY <1>1 DEF Left, Holders
<1>3. Posters \in Nat
  BY DEF Posters
<1>4. Cardinality(Holders) \in Nat /\ Cardinality(Holders) > 0
  BY <1>2, HoldersFinite
<1> QED
  BY <1>3, <1>4, RefsAre

\* Nobody joins or leaves, and nobody else takes or drops a reference.
LEMMA RefsStay ==
  ASSUME RefsMatchHolders, Holders' = Holders, Posters' = Posters, UNCHANGED <<refs, sched>>
  PROVE  RefsMatchHolders'
BY RefsAre, RefsAreNext

\* One reference more, to a scheduler that lives.
LEMMA RefsRise ==
  ASSUME RefsMatchHolders, sched = "live", refs' = refs + 1, UNCHANGED sched,
         \/ Holders' = Holders /\ Posters' = Posters + 1
         \/ Posters' = Posters /\ \E w \in Workers \ Holders : Holders' = Holders \cup {w}
  PROVE  RefsMatchHolders'
<1>1. Posters \in Nat /\ Cardinality(Holders) \in Nat
  BY HoldersFinite DEF Posters
<1>2. refs = Cardinality(Holders) + Posters /\ refs > 0
  BY RefsAre
<1>3. CASE Holders' = Holders /\ Posters' = Posters + 1
  BY <1>1, <1>2, <1>3, RefsAreNext
<1>4. CASE Posters' = Posters /\ \E w \in Workers \ Holders : Holders' = Holders \cup {w}
  <2>1. PICK w \in Workers \ Holders : Holders' = Holders \cup {w}
    BY <1>4
  <2>2. Cardinality(Holders') = Cardinality(Holders) + 1
    BY <2>1, HoldersFinite, FS_AddElement
  <2> QED
    BY <1>1, <1>2, <1>4, <2>2, RefsAreNext
<1> QED
  BY <1>3, <1>4

\* One reference less, and the last frees the scheduler.
LEMMA RefsFall ==
  ASSUME RefsMatchHolders, Unref,
         \/ Holders' = Holders /\ Posters = Posters' + 1 /\ Posters' \in Nat
         \/ Posters' = Posters /\ \E w \in Holders : Holders' = Holders \ {w}
  PROVE  RefsMatchHolders'
<1>1. Posters \in Nat /\ Cardinality(Holders) \in Nat
  BY HoldersFinite DEF Posters
<1>2. refs = Cardinality(Holders) + Posters /\ (sched = "live" <=> refs > 0)
  BY RefsAre
<1>3. CASE Holders' = Holders /\ Posters = Posters' + 1 /\ Posters' \in Nat
  BY <1>1, <1>2, <1>3, RefsAreNext DEF Unref
<1>4. CASE Posters' = Posters /\ \E w \in Holders : Holders' = Holders \ {w}
  <2>1. PICK w \in Holders : Holders' = Holders \ {w}
    BY <1>4
  <2>2. Cardinality(Holders') = Cardinality(Holders) - 1 /\ Cardinality(Holders) > 0
    BY <2>1, HoldersFinite, FS_RemoveElement
  <2> QED
    BY <1>1, <1>2, <1>4, <2>2, RefsAreNext DEF Unref
<1> QED
  BY <1>3, <1>4

\* A worker moves about within the loop.
LEMMA WithinLoop ==
  ASSUME RefsInv, LeaveInv', NEW w \in Workers, NEW to \in Attached, wpc[w] \in Attached,
         wpc' = [wpc EXCEPT ![w] = to], UNCHANGED <<setup, client, waking>>
  PROVE  RefsInv'
<1>1. wpc \in [Workers -> WPC]
  BY DEF RefsInv, LeaveInv, PlaceInv, Typed, ControlTyped
<1>2. Holders' = Holders /\ Posters' = Posters
  BY <1>1 DEF Holders, Posters
<1>3. to \notin Apart /\ wpc[w] \notin Apart
  BY DEF Apart, Attached
<1>4. sched # "none"
  BY <1>3 DEF RefsInv, SetupKnown, Apart
<1>5. SetupKnown'
  BY <1>1, <1>3, <1>4 DEF RefsInv, SetupKnown, setup, Apart
<1>6. RefsMatchHolders'
  BY <1>2, RefsStay DEF RefsInv, setup
<1> QED
  BY <1>5, <1>6 DEF RefsInv

\* No worker moves, and the scheduler stays.
LEMMA WorkersStay ==
  ASSUME RefsInv, UNCHANGED <<started, creating, wpc>>, sched = "none" <=> sched' = "none",
         sched = "none" => Pending' = {} /\ client' # "unref" /\ waking' = None
  PROVE  SetupKnown' /\ Holders' = Holders
BY DEF RefsInv, SetupKnown, Holders

\* A fiber on a list is in flight.
LEMMA ParkedPending ==
  ASSUME PlaceInv, NEW f \in parked
  PROVE  f \in Fibers /\ f \in Pending
<1>1. f \in Fibers /\ QueuesTyped
  BY DEF PlaceInv, Typed, QueuesTyped
<1>2. Places(f) = Tally(f) /\ Places(f) = IF Alive(f) THEN 1 ELSE 0
  BY <1>1, TypedCounts DEF Counts, PlaceInv, AllPlaced
<1>3. /\ InQueues(f) \in Nat /\ Times(f, inbox) \in Nat /\ Cardinality(On(f)) \in Nat
      /\ In(f, sleeping) \in Nat /\ In(f, onfd) \in Nat
      /\ InLists(f) = In(f, sleeping) + In(f, onfd) + In(f, parked)
  BY <1>1, TypedParts DEF Parts
<1>4. In(f, parked) = 1
  BY DEF In
<1>5. Tally(f) = InQueues(f) + Times(f, inbox) + Cardinality(On(f)) + InLists(f)
  BY DEF Tally
<1>6. Tally(f) >= 1
  BY <1>3, <1>4, <1>5
<1>7. Alive(f)
  BY <1>2, <1>6
<1> QED
  BY <1>1, <1>7 DEF Alive, Pending

LEMMA QuietRefsInv ==
  ASSUME RefsInv, LeaveInv', NEW w \in Workers, Quiet(w)
  PROVE  RefsInv'
<1> USE DEF Moves
<1>1. wpc \in [Workers -> WPC] /\ refs \in Int
  BY DEF RefsInv, LeaveInv, PlaceInv, Typed, ControlTyped
<1>2. Posters' = Posters /\ Pending' = Pending /\ UNCHANGED <<started, clients>>
  BY QuietUnchanged DEF Posters, Pending, clients
<1>3. CASE BeginCreate(w)
  <2>1. sched = "none"
    BY <1>3 DEF BeginCreate, RefsInv, SetupKnown
  <2>2. wpc[w] = "start" /\ wpc' = [wpc EXCEPT ![w] = "create"] /\ creating' /\ UNCHANGED <<sched, refs>>
    BY <1>3 DEF BeginCreate
  <2>3. \A v \in Workers : wpc[v] # "create"
    BY <1>3 DEF BeginCreate, RefsInv, SetupKnown
  <2>4. SetupKnown'
    BY <1>1, <1>2, <2>1, <2>2, <2>3 DEF RefsInv, SetupKnown, clients
  <2>5. Holders' = Holders
    BY <1>1, <2>2 DEF Holders, Attached
  <2>6. RefsMatchHolders'
    BY <1>2, <2>2, <2>5, RefsStay DEF RefsInv
  <2> QED
    BY <2>4, <2>6 DEF RefsInv
<1>4. CASE Publish(w)
  <2>1. wpc[w] = "create" /\ wpc' = [wpc EXCEPT ![w] = "top"] /\ sched' = "live" /\ refs' = 1
        /\ UNCHANGED creating
    BY <1>4 DEF Publish
  <2>2. sched = "none" /\ creating
    BY <2>1 DEF RefsInv, SetupKnown
  <2>3. \A v \in Workers : wpc[v] \in {"never", "start", "create"} /\ (v # w => wpc[v] # "create")
    BY <2>1, <2>2 DEF RefsInv, SetupKnown
  <2>4. SetupKnown'
    BY <1>1, <1>2, <2>1, <2>2, <2>3 DEF RefsInv, SetupKnown, Attached
  <2>5. Holders' = {w}
    BY <1>1, <2>1, <2>3 DEF Holders, Attached
  <2>6. Posters = 0
    BY <2>2 DEF RefsInv, SetupKnown, Posters
  <2>7. RefsMatchHolders'
    <3>1. Cardinality(Holders') = 1
      BY <2>5, FS_Singleton
    <3>2. refs' = Cardinality(Holders') + Posters' /\ refs' > 0
      BY <1>2, <2>1, <2>6, <3>1
    <3> QED
      BY <2>1, <3>2, RefsAreNext
  <2> QED
    BY <2>4, <2>7 DEF RefsInv
<1>5. CASE FindScheduler(w)
  <2>1. wpc[w] = "start" /\ wpc' = [wpc EXCEPT ![w] = "attach"] /\ sched # "none" /\ creating
        /\ UNCHANGED <<creating, sched, refs>>
    BY <1>5 DEF FindScheduler, setup
  <2>2. SetupKnown'
    BY <1>1, <1>2, <2>1 DEF RefsInv, SetupKnown, Attached
  <2>3. Holders' = Holders
    BY <1>1, <2>1 DEF Holders, Attached
  <2>4. RefsMatchHolders'
    BY <1>2, <2>1, <2>3, RefsStay DEF RefsInv
  <2> QED
    BY <2>2, <2>4 DEF RefsInv
<1>6. CASE Attach(w)
  <2>1. wpc[w] = "attach" /\ wpc' = [wpc EXCEPT ![w] = "top"] /\ refs' = refs + 1
        /\ UNCHANGED <<creating, sched>> /\ sched = "live"
    BY <1>6 DEF Attach
  <2>2. sched # "none"
    BY <2>1
  <2>6. w \in Workers \ Holders /\ Holders' = Holders \cup {w}
    BY <1>1, <2>1 DEF Holders, Attached
  <2>7. RefsMatchHolders'
    BY <1>2, <2>1, <2>6, RefsRise DEF RefsInv
  <2>8. SetupKnown'
    BY <1>1, <1>2, <2>1, <2>2 DEF RefsInv, SetupKnown, Attached
  <2> QED
    BY <2>7, <2>8 DEF RefsInv
<1>7. CASE Exit(w)
  <2>1. wpc[w] = "leave" /\ wpc' = [wpc EXCEPT ![w] = "gone"] /\ Unref /\ UNCHANGED creating
    BY <1>7 DEF Exit
  <2>2. sched # "none"
    BY <2>1 DEF RefsInv, SetupKnown
  <2>3. sched' # "none"
    BY <2>1, <2>2 DEF Unref
  <2>4. w \in Holders /\ Holders' = Holders \ {w}
    BY <1>1, <2>1 DEF Holders, Attached
  <2>5. RefsMatchHolders'
    BY <1>2, <2>1, <2>4, RefsFall DEF RefsInv
  <2>6. SetupKnown'
    BY <1>1, <1>2, <2>1, <2>2, <2>3 DEF RefsInv, SetupKnown, Attached
  <2> QED
    BY <2>5, <2>6 DEF RefsInv
<1>8. CASE FindNothing(w) \/ Idle(w) \/ CvWaitEnds(w) \/ EpollReturns(w) \/ WalkEnds(w) \/ StopPolling(w)
  <2>1. UNCHANGED setup
    BY <1>8 DEF FindNothing, Idle, CvWaitEnds, EpollReturns, WalkEnds, StopPolling
  <2>2. wpc[w] \in Attached /\ \E to \in Attached : wpc' = [wpc EXCEPT ![w] = to]
    BY <1>8 DEF FindNothing, Idle, CvWaitEnds, EpollReturns, WalkEnds, StopPolling, Attached
  <2> QED
    BY <1>2, <2>1, <2>2, WithinLoop DEF clients
<1> QED
  BY <1>3, <1>4, <1>5, <1>6, <1>7, <1>8 DEF Quiet

LEMMA NextRefsInv ==
  ASSUME RefsInv, LeaveInv', [Next]_vars
  PROVE  RefsInv'
<1>1. ASSUME NEW w \in Workers, Quiet(w) PROVE RefsInv'
  BY <1>1, QuietRefsInv
<1>2. ASSUME NEW w \in Workers, Drain(w) \/ Pick(w) \/ SwitchOut(w) \/ Finalize(w) \/ Finish(w)
      PROVE  RefsInv'
  <2>1. UNCHANGED <<setup, clients>>
    BY <1>2 DEF Drain, Pick, SwitchOut, Finalize, Finish
  <2>2. wpc[w] \in Attached /\ \E to \in Attached : wpc' = [wpc EXCEPT ![w] = to]
    BY <1>2 DEF Drain, Pick, SwitchOut, Finalize, Finish, Moves, Attached
  <2> QED
    BY <2>1, <2>2, WithinLoop DEF clients
<1>3. ASSUME NEW w \in Workers, NEW f \in Fibers, WakeListed(w, f) \/ SpawnHere(w, f) PROVE RefsInv'
  <2>1. UNCHANGED <<setup, clients, wpc>> /\ wpc[w] \in Attached
    BY <1>3 DEF WakeListed, SpawnHere, Attached
  <2>2. wpc' = [wpc EXCEPT ![w] = wpc[w]]
    BY <2>1 DEF RefsInv, LeaveInv, PlaceInv, Typed, ControlTyped
  <2> QED
    BY <2>1, <2>2, WithinLoop DEF clients
<1>4. CASE DropAfterSpawn \/ DropAfterWake
  <2>1. UNCHANGED <<started, creating, wpc>> /\ Pending' = Pending
        /\ client' \in {client, "idle"} /\ waking' \in {waking, None} /\ Unref
    BY <1>4 DEF DropAfterSpawn, DropAfterWake, Pending
  <2>2. sched = "none" <=> sched' = "none"
    <3>1. sched # "none"
      BY <1>4 DEF DropAfterSpawn, DropAfterWake, RefsInv, SetupKnown
    <3> QED
      BY <2>1, <3>1 DEF Unref
  <2>3. SetupKnown' /\ Holders' = Holders
    <3>1. sched = "none" => Pending' = {} /\ client' # "unref" /\ waking' = None
      BY <2>1 DEF RefsInv, SetupKnown
    <3> QED
      BY <2>1, <2>2, <3>1, WorkersStay
  <2>4. Posters = Posters' + 1 /\ Posters' \in Nat
    BY <1>4 DEF DropAfterSpawn, DropAfterWake, Posters
  <2>5. RefsMatchHolders'
    BY <2>1, <2>3, <2>4, RefsFall DEF RefsInv
  <2> QED
    BY <2>3, <2>5 DEF RefsInv
<1>5. ASSUME NEW f \in Fibers, PostSpawned(f) \/ PostWoken(f) PROVE RefsInv'
  <2>1. UNCHANGED <<started, creating, wpc, sched>> /\ refs' = refs + 1
        /\ (client' = client \/ client' = "unref") /\ UNCHANGED poolclosed
    BY <1>5 DEF PostSpawned, PostWoken, Post
  <2>2. f \in Pending
    <3>1. CASE PostSpawned(f)
      BY <3>1 DEF PostSpawned, Pending
    <3>2. CASE PostWoken(f)
      BY <3>2, ParkedPending DEF PostWoken, RefsInv, LeaveInv
    <3> QED
      BY <1>5, <3>1, <3>2
  <2>3. ~Left /\ sched # "none"
    BY <2>2 DEF RefsInv, LeaveInv, CountKnown, Left, SetupKnown
  <2>4. sched = "live"
    BY <2>3, InFlightLive DEF RefsInv
  <2>5. SetupKnown' /\ Holders' = Holders
    BY <2>1, <2>3, WorkersStay
  <2>6. Posters' = Posters + 1
    BY <1>5, ActorsAssumption DEF PostSpawned, PostWoken, Posters
  <2>7. RefsMatchHolders'
    BY <2>1, <2>4, <2>5, <2>6, RefsRise DEF RefsInv
  <2> QED
    BY <2>5, <2>7 DEF RefsInv
<1>6. CASE \/ CloseGroup \/ PingWorkers \/ JoinWorkers \/ Free
           \/ \E f \in Fibers : SpawnOn(f) \/ SpawnFails(f)
  <2>1. UNCHANGED <<started, creating, wpc, sched, refs, waking>>
        /\ client # "unref" /\ client' # "unref"
    BY <1>6 DEF CloseGroup, PingWorkers, JoinWorkers, Free, SpawnOn, SpawnFails, setup, clients
  <2>2. sched = "none" => Pending' = {}
    <3>1. CASE \E f \in Fibers : SpawnFails(f)
      <4>1. Pending' = Pending
        BY <3>1 DEF SpawnFails, Pending, RefsInv, LeaveInv, PlaceInv, Typed, ControlTyped
      <4> QED
        BY <4>1 DEF RefsInv, SetupKnown
    <3>2. CASE \E f \in Fibers : SpawnOn(f)
      BY <3>2 DEF SpawnOn
    <3>3. CASE CloseGroup \/ PingWorkers \/ JoinWorkers \/ Free
      BY <3>3 DEF CloseGroup, PingWorkers, JoinWorkers, Free, Pending, RefsInv, SetupKnown
    <3> QED
      BY <1>6, <3>1, <3>2, <3>3
  <2>3. sched = "none" => waking' = None
    BY <2>1 DEF RefsInv, SetupKnown
  <2>4. SetupKnown' /\ Holders' = Holders
    BY <2>1, <2>2, <2>3, WorkersStay
  <2>5. Posters' = Posters
    BY <2>1 DEF Posters
  <2>6. RefsMatchHolders'
    BY <2>1, <2>4, <2>5, RefsStay DEF RefsInv
  <2> QED
    BY <2>4, <2>6 DEF RefsInv
<1>7. CASE UNCHANGED vars
  BY <1>7, RefsStay
     DEF vars, setup, clients, RefsInv, SetupKnown, Holders, Posters, Pending
<1> QED
  BY <1>1, <1>2, <1>3, <1>4, <1>5, <1>6, <1>7, NextCases DEF Outside

LEMMA InitRefsInv == Init => RefsInv
<1> SUFFICES ASSUME Init PROVE RefsInv
  OBVIOUS
<1>1. Holders = {} /\ Pending = {} /\ Posters = 0
  BY DEF Init, Holders, Pending, Posters, Attached
<1>2. RefsMatchHolders
  BY <1>1, FS_EmptySet, RefsAre DEF Init
<1>3. SetupKnown
  BY <1>1 DEF Init, SetupKnown
<1> QED
  BY <1>2, <1>3, InitLeaveInv DEF RefsInv

\* Whenever pool_free is called: the scheduler's refcount is the number of its
\* holders, the attached workers and whoever is posting to the inbox, and
\* __maka_sched_unref frees it with the last of them and no sooner.  A worker that has
\* not attached yet is no holder.
THEOREM RefsAlwaysMatchHolders == Spec => []RefsMatchHolders
<1>1. RefsInv /\ [Next]_vars => RefsInv'
  BY NextRefsInv, NextLeaveInv DEF RefsInv
<1>2. RefsInv => RefsMatchHolders
  BY DEF RefsInv
<1> QED
  BY InitRefsInv, <1>1, <1>2, PTL DEF Spec
=============================================================================
