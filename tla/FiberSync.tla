----------------------------- MODULE FiberSync -----------------------------
(***************************************************************************)
(* The fiber-aware Mutex, RwLock, WaitGroup and Once, and the park protocol *)
(* under them.  A fiber that must wait announces itself (inflight_parkers), *)
(* arms a park request and switches out; only then does its scheduler       *)
(* finalize the park: it tests the predicate again under the object's mutex *)
(* and pushes the fiber on the waiter list or makes it ready.  A thread     *)
(* without a scheduler waits on a condition variable.                       *)
(*                                                                          *)
(* One object of one kind; one action is one critical section under kw_mu   *)
(* or one access outside it.  A fiber that is taken off the list is ready   *)
(* at once: that its waker enqueues it a little later only delays it.       *)
(***************************************************************************)
EXTENDS Integers, Sequences, FiniteSets

CONSTANTS
  Fibers, Threads,  \* the clients: fibers, and OS threads without a scheduler
  Doers,            \* units of work that call wg_done when they end
  Kinds,            \* the kinds of object, among mutex, rwlock, waitgroup, once
  MaxCalls          \* bound of the model: calls of each client

ASSUME KindsAssumption == Kinds \subseteq {"mutex", "rwlock", "waitgroup", "once"}
ASSUME MaxCallsAssumption == MaxCalls \in Nat
ASSUME ActorsAssumption ==
  /\ IsFiniteSet(Fibers) /\ IsFiniteSet(Threads)
  /\ Fibers \cap Threads = {} /\ Fibers \cap Doers = {} /\ Threads \cap Doers = {}

Clients == Fibers \cup Threads
Actors == Clients \cup Doers

VARIABLES
  kind,
  word,       \* locked, writer, count or state
  readers,    \* of a RwLock
  waiters,    \* pth_waiters: threads in the condition wait
  inflight,   \* inflight_parkers: fibers armed and not finalized
  runner,     \* runner_in_flight of a Once
  parked,     \* fiber_waiters, the latest first
  pc,         \* where each actor is
  want,       \* the operation each client is in
  calls,      \* how many calls each client has begun
  dpc,        \* destroy: "none", "drain", "wait" or "freed"
  ended       \* history: the body of the Once has ended

counters == <<waiters, inflight, runner>>
vars == <<kind, word, readers, waiters, inflight, runner, parked, pc, want,
          calls, dpc, ended>>

PC == {"idle", "try", "slow", "armed", "parked", "ready", "waiting", "woken",
       "in", "bump", "work", "dec"}

Wants(k) ==
  CASE k = "mutex" -> {"lock"}
    [] k = "rwlock" -> {"read", "write"}
    [] k = "waitgroup" -> {"wait"}
    [] k = "once" -> {"do"}

At(label) == {a \in Actors : pc[a] = label}
ParkedSet == {parked[i] : i \in 1 .. Len(parked)}

\* The body of the Once has ended.
OnceOverWhenBegun == word # 0
OnceOver == word = 2

\* should_park, and the test of the condition waits.
Blocked(a) ==
  CASE want[a] = "write" -> word # 0 \/ readers # 0
    [] want[a] = "wait" -> word > 0
    [] want[a] = "do" -> ~OnceOver
    [] OTHER -> word # 0

\* A fiber that waits for a group looks for a count of zero before it parks.
BlockedStill(a) == IF want[a] = "wait" /\ a \in Fibers THEN word # 0 ELSE Blocked(a)

\* Only finalize's second look at the predicate keeps a fiber from parking
\* after the last wake.
ParksUntested(f) == TRUE
Parks(f) == Blocked(f)

\* What destroy waits for.
DrainedForgetsInflight == waiters = 0 /\ runner = 0
Drained == waiters = 0 /\ runner = 0 /\ inflight = 0

\* The fiber that is finalized was the last one announced.
LastParkerOffByOne == inflight = 0
LastParker == inflight = 1

\* A lock is free for one more reader or writer.
WriteFreeForgetsReaders == word = 0
WriteFree == word = 0 /\ readers = 0

\* unlock reads off the writer flag which side it is called from.
HeldByWriter == word # 0

Init ==
  /\ kind \in Kinds
  /\ word = 0
  /\ readers = 0
  /\ waiters = 0
  /\ inflight = 0
  /\ runner = 0
  /\ parked = <<>>
  /\ pc = [a \in Actors |-> "idle"]
  /\ want = [a \in Clients |-> "none"]
  /\ calls = [a \in Clients |-> 0]
  /\ dpc = "none"
  /\ ended = FALSE

Goto(a, label) == pc' = [pc EXCEPT ![a] = label]

\* From the places at: the fibers fs become ready and the threads ts wake up.
Waking(at, fs, ts) ==
  [x \in Actors |-> IF x \in fs THEN "ready" ELSE IF x \in ts THEN "woken" ELSE at[x]]

Left(a) == [pc EXCEPT ![a] = "idle"]

\* drained_cv is signalled when c holds.
SignalDrained(c) == dpc' = IF c /\ dpc = "wait" THEN "drain" ELSE dpc

-----------------------------------------------------------------------------
(***************************************************************************)
(* Entering an object, and waiting for it.                                 *)
(***************************************************************************)
Call(a) ==
  /\ pc[a] = "idle"
  /\ dpc = "none"
  /\ calls[a] < MaxCalls
  /\ calls' = [calls EXCEPT ![a] = @ + 1]
  /\ \E w \in Wants(kind) : want' = [want EXCEPT ![a] = w]
  /\ Goto(a, "try")
  /\ UNCHANGED <<kind, word, readers, counters, parked, dpc, ended>>

\* The fast path: a compare-and-swap, a load, or for a RwLock a look at both
\* words under its mutex.
TryEnter(a) ==
  /\ pc[a] = "try"
  /\ \/ /\ want[a] = "lock" /\ word = 0
        /\ word' = 1 /\ UNCHANGED readers
        /\ Goto(a, "in")
     \/ /\ want[a] = "read" /\ word = 0
        /\ readers' = readers + 1 /\ UNCHANGED word
        /\ Goto(a, "in")
     \/ /\ want[a] = "write" /\ WriteFree
        /\ word' = 1 /\ UNCHANGED readers
        /\ Goto(a, "in")
     \/ /\ want[a] = "wait" /\ ~(word > 0)
        /\ UNCHANGED <<word, readers>>
        /\ Goto(a, "idle")
     \/ /\ want[a] = "do" /\ word = 0
        /\ word' = 1 /\ UNCHANGED readers
        /\ Goto(a, "bump")
  /\ UNCHANGED <<kind, counters, parked, want, calls, dpc, ended>>

\* Under the mutex: a fiber announces itself, a thread begins to wait.
Enlist(a) ==
  /\ IF a \in Fibers
     THEN /\ inflight' = inflight + 1 /\ UNCHANGED waiters
          /\ Goto(a, "armed")
     ELSE /\ waiters' = waiters + 1 /\ UNCHANGED inflight
          /\ Goto(a, "waiting")
  /\ UNCHANGED <<kind, word, readers, runner, parked, want, calls, dpc, ended>>

\* The fast path fails; a RwLock's is under its mutex already.
TryFails(a) ==
  /\ pc[a] = "try"
  /\ IF want[a] = "do" THEN word # 0 ELSE Blocked(a)
  /\ IF want[a] \in {"read", "write"}
     THEN Enlist(a)
     ELSE /\ Goto(a, "slow")
          /\ UNCHANGED <<kind, word, readers, counters, parked, want, calls, dpc, ended>>

SlowWaits(a) ==
  /\ pc[a] = "slow"
  /\ BlockedStill(a)
  /\ Enlist(a)

\* What was awaited has happened meanwhile: once is over, a fiber leaves the
\* wait group, the others go round their loop.
SlowPasses(a) ==
  /\ pc[a] = "slow"
  /\ ~BlockedStill(a)
  /\ Goto(a, IF want[a] = "do" \/ (want[a] = "wait" /\ a \in Fibers) THEN "idle" ELSE "try")
  /\ SignalDrained(want[a] # "do" /\ a \in Threads /\ waiters = 0)
  /\ UNCHANGED <<kind, word, readers, counters, parked, want, calls, ended>>

\* The scheduler finalizes the park once the fiber is switched out.
Finalize(f) ==
  /\ pc[f] = "armed"
  /\ IF Parks(f)
     THEN parked' = <<f>> \o parked /\ Goto(f, "parked")
     ELSE UNCHANGED parked /\ Goto(f, "ready")
  /\ inflight' = inflight - 1
  /\ SignalDrained(LastParker)
  /\ UNCHANGED <<kind, word, readers, waiters, runner, want, calls, ended>>

\* A fiber that runs again tries anew; once_do just returns.
Resume(f) ==
  /\ pc[f] = "ready"
  /\ Goto(f, IF want[f] = "do" THEN "idle" ELSE "try")
  /\ UNCHANGED <<kind, word, readers, counters, parked, want, calls, dpc, ended>>

\* A thread comes out of the condition wait: all but once test there and then
\* whether they must go on waiting.
Wakes(a) ==
  /\ pc[a] = "woken"
  /\ IF want[a] # "do" /\ Blocked(a)
     THEN /\ Goto(a, "waiting")
          /\ UNCHANGED <<waiters, dpc>>
     ELSE /\ waiters' = waiters - 1
          /\ SignalDrained(waiters = 1)
          /\ Goto(a, IF want[a] = "do" THEN "slow" ELSE "try")
  /\ UNCHANGED <<kind, word, readers, inflight, runner, parked, want, calls, ended>>

SpuriousWakeup(a) ==
  /\ pc[a] = "waiting"
  /\ Goto(a, "woken")
  /\ UNCHANGED <<kind, word, readers, counters, parked, want, calls, dpc, ended>>

-----------------------------------------------------------------------------
(***************************************************************************)
(* Leaving it, which wakes others.                                         *)
(***************************************************************************)
\* maka_fmutex_unlock hands the wake to one fiber and one thread.
MutexUnlock(a) ==
  /\ pc[a] = "in"
  /\ want[a] = "lock"
  /\ word' = 0
  /\ parked' = IF parked = <<>> THEN <<>> ELSE Tail(parked)
  /\ \E ts \in SUBSET At("waiting") :
       /\ Cardinality(ts) = 1 \/ At("waiting") = {}
       /\ pc' = Waking(Left(a), IF parked = <<>> THEN {} ELSE {Head(parked)}, ts)
  /\ UNCHANGED <<kind, readers, counters, want, calls, dpc, ended>>

\* Everybody who waits is woken.
WakeAll(a) ==
  /\ pc' = Waking(Left(a), ParkedSet, At("waiting"))
  /\ parked' = <<>>

RwUnlock(a) ==
  /\ pc[a] = "in"
  /\ want[a] \in {"read", "write"}
  /\ IF HeldByWriter
     THEN word' = 0 /\ UNCHANGED readers
     ELSE readers' = readers - 1 /\ UNCHANGED word
  /\ WakeAll(a)
  /\ UNCHANGED <<kind, counters, want, calls, dpc, ended>>

\* A client adds a unit of work and lets somebody do it.
WgAdd(a, d) ==
  /\ kind = "waitgroup"
  /\ pc[a] = "idle" /\ pc[d] = "idle"
  /\ dpc = "none"
  /\ calls[a] < MaxCalls
  /\ calls' = [calls EXCEPT ![a] = @ + 1]
  /\ word' = word + 1
  /\ Goto(d, "work")
  /\ UNCHANGED <<kind, readers, counters, parked, want, dpc, ended>>

\* wg_done lowers the count first and wakes under the mutex afterwards.
LastDoneOffByOne == word <= 0
LastDone == word <= 1

WgDone(d) ==
  /\ pc[d] = "work"
  /\ word' = word - 1
  /\ Goto(d, IF LastDone THEN "dec" ELSE "idle")
  /\ UNCHANGED <<kind, readers, counters, parked, want, calls, dpc, ended>>

WgWake(d) ==
  /\ pc[d] = "dec"
  /\ WakeAll(d)
  /\ UNCHANGED <<kind, word, readers, counters, want, calls, dpc, ended>>

\* The caller that won the Once announces itself, runs the body, publishes.
OnceBump(a) ==
  /\ pc[a] = "bump"
  /\ runner' = runner + 1
  /\ Goto(a, "in")
  /\ UNCHANGED <<kind, word, readers, waiters, inflight, parked, want, calls, dpc, ended>>

OncePublish(a) ==
  /\ pc[a] = "in"
  /\ want[a] = "do"
  /\ word' = 2
  /\ ended' = TRUE
  /\ runner' = runner - 1
  /\ WakeAll(a)
  /\ SignalDrained(TRUE)
  /\ UNCHANGED <<kind, readers, waiters, inflight, want, calls>>

-----------------------------------------------------------------------------
(***************************************************************************)
(* destroy clears the predicate, wakes everybody and waits on drained_cv   *)
(* until nobody is counted any more.  It may be called with the others in  *)
(* any place, by a client outside or by one that holds the lock.           *)
(***************************************************************************)
MayDestroy(a) ==
  /\ dpc = "none"
  /\ pc[a] = "idle" \/ (pc[a] = "in" /\ want[a] # "do")

\* One turn of the loop: take over the waiter list, or wait, or free.
DestroyTurn(at, ts) ==
  /\ pc' = Waking(at, ParkedSet, ts)
  /\ parked' = <<>>
  /\ dpc' = IF parked # <<>> THEN "drain" ELSE IF Drained THEN "freed" ELSE "wait"
  /\ UNCHANGED <<kind, counters, want, calls, ended>>

Destroy(a) ==
  /\ MayDestroy(a)
  /\ word' = IF kind = "once" THEN 2 ELSE 0
  /\ readers' = 0
  /\ DestroyTurn(Left(a), At("waiting"))

DestroyLoops ==
  /\ dpc = "drain"
  /\ DestroyTurn(pc, {})
  /\ UNCHANGED <<word, readers>>

DestroyWakesUp ==
  /\ dpc = "wait"
  /\ dpc' = "drain"
  /\ UNCHANGED <<kind, word, readers, counters, parked, pc, want, calls, ended>>

-----------------------------------------------------------------------------
\* Who comes back to an object that was freed stops there: what it does with the
\* memory is not modelled.
ClientStep(a) ==
  /\ dpc # "freed"
  /\ \/ TryEnter(a) \/ TryFails(a) \/ SlowWaits(a) \/ SlowPasses(a)
     \/ Wakes(a) \/ MutexUnlock(a) \/ RwUnlock(a) \/ OnceBump(a) \/ OncePublish(a)

FiberStep(f) == Finalize(f) \/ Resume(f)

DoerStep(d) == dpc # "freed" /\ (WgDone(d) \/ WgWake(d))

Next ==
  \/ \E a \in Clients : Call(a) \/ ClientStep(a) \/ Destroy(a)
  \/ \E a \in Clients, d \in Doers : WgAdd(a, d)
  \/ \E a \in Threads : SpuriousWakeup(a)
  \/ \E f \in Fibers : FiberStep(f)
  \/ \E d \in Doers : DoerStep(d)
  \/ DestroyLoops \/ DestroyWakesUp

Spec == Init /\ [][Next]_vars

(***************************************************************************)
(* Clients run, leave what they entered, and schedulers finalize parks and *)
(* resume what is ready; work ends.  Nobody has to call anything, and no   *)
(* thread wakes up without a signal.                                       *)
(***************************************************************************)
Fairness ==
  /\ \A a \in Clients : WF_vars(ClientStep(a))
  /\ \A f \in Fibers : WF_vars(FiberStep(f))
  /\ \A d \in Doers : WF_vars(DoerStep(d))
  /\ WF_vars(DestroyLoops)

FairSpec == Spec /\ Fairness

-----------------------------------------------------------------------------
TypeOK ==
  /\ kind \in Kinds
  /\ word \in Int
  /\ readers \in Int
  /\ waiters \in Int
  /\ inflight \in Int
  /\ runner \in Nat
  /\ parked \in Seq(Fibers)
  /\ pc \in [Actors -> PC]
  /\ want \in [Clients -> {"none", "lock", "read", "write", "wait", "do"}]
  /\ calls \in [Clients -> 0 .. MaxCalls]
  /\ dpc \in {"none", "drain", "wait", "freed"}
  /\ ended \in BOOLEAN

Inside(w) == {a \in Clients : pc[a] = "in" /\ want[a] = w}

\* One holder of a Mutex, one writer or only readers of a RwLock, one runner of
\* a Once; and the words that unlock, destroy and the waiters go by say who is
\* inside, although unlock does not know which side it is called from.  destroy
\* clears the word of a lock whoever holds it: from then on this is said of a Once.
Exclusion ==
  /\ dpc = "none" =>
       /\ kind = "mutex" => word = Cardinality(Inside("lock")) /\ word <= 1
       /\ kind = "rwlock" => /\ word = Cardinality(Inside("write")) /\ word <= 1
                             /\ readers = Cardinality(Inside("read"))
                             /\ word = 0 \/ readers = 0
  /\ kind = "once" => runner = Cardinality(Inside("do")) /\ runner <= 1

\* Somebody is about to wake those who wait, or will take what is free and wake
\* them when they leave it.
OnTheWay ==
  CASE kind = "mutex" -> \E a \in Clients : pc[a] \in {"try", "slow", "armed", "ready", "woken"}
    [] kind = "waitgroup" -> \E d \in Doers : pc[d] = "dec"
    [] kind = "rwlock" -> dpc # "none" /\ \E a \in Clients : pc[a] = "in"
    [] OTHER -> FALSE

\* No wake is lost between the look at the predicate, the switch out of the
\* fiber and the finalize: whoever is parked or waits in vain has a reason to,
\* or somebody on the way.
NoLostWakeup ==
  \A a \in Clients : pc[a] \in {"parked", "waiting"} => Blocked(a) \/ OnTheWay

-----------------------------------------------------------------------------
(***************************************************************************)
(* The strengthening that makes Exclusion and NoLostWakeup inductive.      *)
(***************************************************************************)
\* Where the actors can be, by what they are and which operation they are in.
PlacesKnown ==
  /\ \A a \in Clients :
       /\ pc[a] \notin {"work", "dec"}
       /\ pc[a] # "idle" => want[a] \in Wants(kind)
       /\ pc[a] \in {"armed", "parked", "ready"} => a \in Fibers
       /\ pc[a] \in {"waiting", "woken"} => a \in Threads
       /\ pc[a] = "bump" => kind = "once"
       /\ pc[a] = "in" => kind # "waitgroup"
  /\ \A d \in Doers :
       pc[d] \in {"idle", "work", "dec"} /\ (pc[d] # "idle" => kind = "waitgroup")

\* The waiter list holds the parked fibers, each once.
ParkedKnown ==
  /\ \A f \in Fibers : pc[f] = "parked" <=> f \in ParkedSet
  /\ \A i, j \in 1 .. Len(parked) : parked[i] = parked[j] => i = j

\* Only the caller that found a Once untouched gets to run it.
OneRunner ==
  kind = "once" =>
    /\ \A a, b \in Clients :
         pc[a] \in {"bump", "in"} /\ pc[b] \in {"bump", "in"} => a = b
    /\ word = 0 => \A a \in Clients : pc[a] \notin {"bump", "in"}

IInv == TypeOK /\ PlacesKnown /\ ParkedKnown /\ OneRunner /\ Exclusion /\ NoLostWakeup

-----------------------------------------------------------------------------
\* destroy outlasts those it counts, wherever they are when it is called: no fiber
\* between announcement and finalize or on the waiter list, no thread in the condition
\* wait or on the way out of it, and no runner of the Once finds the object freed.
CountedHaveLeft ==
  dpc = "freed" => /\ At("armed") \cup At("parked") \cup At("waiting") \cup At("woken") = {}
                   /\ parked = <<>> /\ Inside("do") = {}

\* A destroy that waits for drained_cv is told: somebody is left who signals it, a
\* fiber that is being parked, a thread that has been woken or that somebody will wake,
\* or the runner of the Once.  Where destroy has torn a RwLock from its readers and
\* writers, their unlocks may take readers below zero, and its writers wait for ever.
DestroyerIsTold ==
  dpc = "wait" =>
    \/ At("armed") \cup At("woken") # {}
    \/ At("waiting") # {} /\ (At("in") # {} \/ OnTheWay)
    \/ Inside("do") # {}
    \/ readers < 0

\* destroy goes on when the last of them has left: not before, and it is told.
DestroyOutlastsUsers == CountedHaveLeft /\ DestroyerIsTold

\* What the code says elsewhere of such a wait: whoever is woken from it does not come
\* back to an object that destroy frees the instant it counts nobody.
WokenDoNotReturn ==
  dpc = "freed" => \A f \in Fibers : pc[f] = "ready" => want[f] = "do"

\* What the tests take for granted: a wait group may be destroyed when the wait has
\* found it at zero, and so no wg_done that lowered the count still needs it.
DoneIsOver == dpc = "freed" => At("dec") = {}

\* once_do returns to nobody before the body has ended, except that destroy
\* lets the late callers go.
OnceReturnsAfterBody ==
  [][\A a \in Clients :
       kind = "once" /\ pc[a] # "idle" /\ pc'[a] = "idle" /\ dpc = "none" => ended']_vars

\* Every call that waits gets through once the object is left by those inside, or
\* the object is freed under it: calls are bounded, so this says that nobody stays
\* behind, not that nobody is overtaken.  (The exception of DestroyerIsTold.)
CallsReturn ==
  \A a \in Clients : (pc[a] \notin {"idle", "in"}) ~> (pc[a] \in {"idle", "in"} \/ dpc = "freed" \/ readers < 0)

\* destroy returns, whoever is inside: the signal of drained_cv it waits for is not
\* lost (with the exception that DestroyerIsTold makes).
DestroyReturns == (dpc # "none") ~> (dpc = "freed" \/ readers < 0)
=============================================================================
