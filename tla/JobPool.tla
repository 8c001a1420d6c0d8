------------------------------ MODULE JobPool ------------------------------
(***************************************************************************)
(* The job tier of the C runtime: a pool of OS threads that run jobs to    *)
(* completion, each with a Chase-Lev deque, an idle condition variable and *)
(* a counter of pending jobs.  job() is called by threads outside the pool *)
(* (Callers) and, from inside a running job, by the workers themselves.    *)
(* One action is one access to shared memory.                              *)
(*                                                                         *)
(* A Chase-Lev deque has one producer, its owner.  The code also pushes    *)
(* onto deques of other threads: a caller outside the pool has no deque,   *)
(* and a worker whose deque is full tries the others.  Nothing keeps such  *)
(* a push from the owner's operations or from another push on that deque;  *)
(* overlapped records that it happened.                                    *)
(***************************************************************************)
EXTENDS Integers, FiniteSets

CONSTANTS
  N,            \* workers started
  Callers,      \* threads outside the pool that call job()
  MaxJobs,      \* bound of the model: calls of job() in all
  Capacity,     \* of each deque; in the code all have MAKA_WS_CAP
  NULL

ASSUME NAssumption == N \in Nat \ {0}
ASSUME CapacityAssumption == Capacity \in [0 .. N - 1 -> Nat \ {0}]
ASSUME MaxJobsAssumption == MaxJobs \in Nat

Workers == 0 .. N - 1
Actors == Workers \cup Callers
Jobs == 1 .. MaxJobs

VARIABLES
  top, bottom, buf,   \* the deques
  pending,            \* __maka_ws_pending
  pc,                 \* where each thread is
  b, t,               \* its local copies of bottom and top
  item,               \* the job it holds: taken, or being pushed
  on,                 \* the deque it works on (the victim, the target of a push)
  tries,              \* try_count of job(), -1 while a worker tries its own deque
  rr,                 \* __maka_job_rr
  issued,             \* how many jobs were issued: job numbers 1 .. issued
  dedicated,          \* jobs handed to a thread of their own
  failed,             \* jobs whose thread could not be created: is_failed is set
  ran,                \* history: how often each job's body was run
  clobbered,          \* a push wrote in front of its ring, over top and bottom
  overlapped          \* history: a push met the owner, or another push, on its deque

deques == <<top, bottom, buf>>
locals == <<b, t, item, on, tries, rr>>
ledger == <<issued, dedicated, failed, ran, clobbered, overlapped>>
vars == <<top, bottom, buf, pending, pc, b, t, item, on, tries, rr, issued, dedicated, failed, ran,
          clobbered, overlapped>>

Popping == {"pop_store", "pop_top", "pop_empty", "pop_read", "pop_cas", "pop_won", "pop_lost"}
Pushing == {"push_load", "push_write", "push_publish"}
PC == {"out", "loop", "idle", "asleep", "woken", "run", "got", "pend", "notify", "dedicate"}
      \cup Popping \cup Pushing \cup {"steal", "steal_bottom", "steal_read", "steal_cas"}

Goto(a, label) == pc' = [pc EXCEPT ![a] = label]

\* A call's copies of the counters are dead once it has returned.
Forget(a) == b' = [b EXCEPT ![a] = 0] /\ t' = [t EXCEPT ![a] = 0]

\* No room on deque d, as a pushing thread sees it.
FullOffByOne(d) == bottom[d] - top[d] > Capacity[d]
Full(d) == bottom[d] - top[d] >= Capacity[d]

\* Nothing left for the owner once it has given back one index.
PopEmptyLeavesLast(w) == top[w] >= b[w]
PopEmptyOffByOne(w) == top[w] > b[w] + 1
PopEmpty(w) == top[w] > b[w]

\* A thief's compare-and-swap of top succeeds.
StealWinsBlind(w) == TRUE
StealWins(w) == top[on[w]] = t[w]

\* An idle worker may wait.
NothingPendingUntested == TRUE
NothingPending == pending = 0

Init ==
  /\ top = [w \in Workers |-> 0]
  /\ bottom = [w \in Workers |-> 0]
  /\ buf = [w \in Workers |-> [i \in 0 .. Capacity[w] - 1 |-> NULL]]
  /\ pending = 0
  /\ pc = [a \in Actors |-> IF a \in Workers THEN "loop" ELSE "out"]
  /\ b = [a \in Actors |-> 0]
  /\ t = [a \in Actors |-> 0]
  /\ item = [a \in Actors |-> NULL]
  /\ on = [a \in Actors |-> 0]
  /\ tries = [a \in Actors |-> 0]
  /\ rr = [a \in Actors |-> 0]
  /\ issued = 0
  /\ dedicated = {}
  /\ failed = {}
  /\ ran = [j \in Jobs |-> 0]
  /\ clobbered = FALSE
  /\ overlapped = FALSE

(***************************************************************************)
(* Who is at work on a deque: its owner, or a thread that pushes onto a    *)
(* deque that is not its own.                                              *)
(***************************************************************************)
OwnerBusy(d) == pc[d] \in Popping \/ (pc[d] \in Pushing /\ on[d] = d)
GuestBusy(d) == \E a \in Actors \ {d} : pc[a] \in {"push_write", "push_publish"} /\ on[a] = d

Alone(a, d) == ~GuestBusy(d) /\ (a # d => ~OwnerBusy(d))

\* Thread a begins an operation on deque d.
Begins(a, d) == overlapped' = (overlapped \/ ~Alone(a, d))

(***************************************************************************)
(* __maka_ws_pop, by the deque's owner.                                    *)
(***************************************************************************)
PopLoad(w) ==
  /\ pc[w] = "loop"
  /\ Begins(w, w)
  /\ b' = [b EXCEPT ![w] = bottom[w] - 1]
  /\ Goto(w, "pop_store")
  /\ UNCHANGED <<deques, pending, t, item, on, tries, rr, issued, dedicated, failed, ran, clobbered>>

PopStore(w) ==
  /\ pc[w] = "pop_store"
  /\ bottom' = [bottom EXCEPT ![w] = b[w]]
  /\ Goto(w, "pop_top")
  /\ UNCHANGED <<top, buf, pending, locals, ledger>>

PopTop(w) ==
  /\ pc[w] = "pop_top"
  /\ t' = [t EXCEPT ![w] = top[w]]
  /\ Goto(w, IF PopEmpty(w) THEN "pop_empty" ELSE "pop_read")
  /\ UNCHANGED <<deques, pending, b, item, on, tries, rr, ledger>>

PopRead(w) ==
  /\ pc[w] = "pop_read"
  /\ item' = [item EXCEPT ![w] = buf[w][b[w] % Capacity[w]]]
  /\ \/ t[w] = b[w] /\ Goto(w, "pop_cas") /\ UNCHANGED <<b, t>>
     \/ t[w] # b[w] /\ Goto(w, "got") /\ Forget(w)
  /\ UNCHANGED <<deques, pending, on, tries, rr, ledger>>

\* The last job: race with the thieves for it.
PopCas(w) ==
  /\ pc[w] = "pop_cas"
  /\ \/ /\ top[w] = t[w]
        /\ top' = [top EXCEPT ![w] = t[w] + 1]
        /\ Goto(w, "pop_won")
     \/ /\ top[w] # t[w]
        /\ Goto(w, "pop_lost")
        /\ UNCHANGED top
  /\ UNCHANGED <<bottom, buf, pending, locals, ledger>>

\* Put bottom back where it was: the deque is empty now.  A lone worker has
\* nobody to steal from.
PopRestore(w) ==
  /\ pc[w] \in {"pop_empty", "pop_won", "pop_lost"}
  /\ bottom' = [bottom EXCEPT ![w] = b[w] + 1]
  /\ Forget(w)
  /\ \/ pc[w] = "pop_won" /\ Goto(w, "got") /\ UNCHANGED item
     \/ /\ pc[w] # "pop_won"
        /\ Goto(w, IF N > 1 THEN "steal" ELSE "idle")
        /\ item' = [item EXCEPT ![w] = NULL]
  /\ UNCHANGED <<top, buf, pending, on, tries, rr, ledger>>

(***************************************************************************)
(* __maka_ws_steal, from a victim drawn at random.                         *)
(***************************************************************************)
StealTop(w) ==
  /\ pc[w] = "steal"
  /\ \E v \in Workers \ {w} :
       /\ on' = [on EXCEPT ![w] = v]
       /\ t' = [t EXCEPT ![w] = top[v]]
       /\ Goto(w, "steal_bottom")
  /\ UNCHANGED <<deques, pending, b, item, tries, rr, ledger>>

StealBottom(w) ==
  /\ pc[w] = "steal_bottom"
  /\ \/ t[w] >= bottom[on[w]] /\ Goto(w, "idle") /\ Forget(w)
     \/ t[w] < bottom[on[w]] /\ Goto(w, "steal_read") /\ UNCHANGED <<b, t>>
  /\ UNCHANGED <<deques, pending, item, on, tries, rr, ledger>>

StealRead(w) ==
  /\ pc[w] = "steal_read"
  /\ item' = [item EXCEPT ![w] = buf[on[w]][t[w] % Capacity[on[w]]]]
  /\ Goto(w, "steal_cas")
  /\ UNCHANGED <<deques, pending, b, t, on, tries, rr, ledger>>

StealCas(w) ==
  /\ pc[w] = "steal_cas"
  /\ \/ /\ StealWins(w)
        /\ top' = [top EXCEPT ![on[w]] = t[w] + 1]
        /\ Goto(w, "got")
        /\ UNCHANGED item
     \/ /\ ~StealWins(w)
        /\ item' = [item EXCEPT ![w] = NULL]
        /\ Goto(w, "idle")
        /\ UNCHANGED top
  /\ Forget(w)
  /\ UNCHANGED <<bottom, buf, pending, on, tries, rr, ledger>>

(***************************************************************************)
(* __maka_ws_worker: account for the job, run it, or wait for one.  The 64 *)
(* turns a worker spins before it waits are any number of turns here.      *)
(***************************************************************************)
StartJob(w) ==
  /\ pc[w] = "got"
  /\ pending' = pending - 1
  /\ ran' = [ran EXCEPT ![item[w]] = @ + 1]
  /\ item' = [item EXCEPT ![w] = NULL]
  /\ Goto(w, "run")
  /\ UNCHANGED <<deques, b, t, on, tries, rr, issued, dedicated, failed, clobbered, overlapped>>

FinishJob(w) ==
  /\ pc[w] = "run"
  /\ Goto(w, "loop")
  /\ UNCHANGED <<deques, pending, locals, ledger>>

Spin(w) ==
  /\ pc[w] = "idle"
  /\ Goto(w, "loop")
  /\ UNCHANGED <<deques, pending, locals, ledger>>

\* Under the idle mutex: wait while no job is pending.  A worker woken by a
\* broadcast comes back here.
IdleWait(w) ==
  /\ pc[w] \in {"idle", "woken"}
  /\ Goto(w, IF NothingPending THEN "asleep" ELSE "loop")
  /\ UNCHANGED <<deques, pending, locals, ledger>>

(***************************************************************************)
(* __maka_spawn_job, by a caller outside the pool or by a running job.     *)
(***************************************************************************)
Spawn(a) ==
  /\ pc[a] \in {"out", "run"}
  /\ issued < MaxJobs
  /\ issued' = issued + 1
  /\ item' = [item EXCEPT ![a] = issued + 1]
  /\ on' = [on EXCEPT ![a] = IF a \in Workers THEN a ELSE rr[a]]
  /\ tries' = [tries EXCEPT ![a] = IF a \in Workers THEN -1 ELSE 0]
  /\ Goto(a, "push_load")
  /\ UNCHANGED <<deques, pending, b, t, rr, dedicated, failed, ran, clobbered, overlapped>>

\* __maka_ws_push loads bottom and top; a full deque sends job() to the next.
PushLoad(a) ==
  LET d == on[a] IN
  /\ pc[a] = "push_load"
  /\ Begins(a, d)
  /\ \/ /\ ~Full(d)
        /\ b' = [b EXCEPT ![a] = bottom[d]]
        /\ Goto(a, "push_write")
        /\ UNCHANGED <<on, tries>>
     \/ /\ Full(d)
        /\ tries' = [tries EXCEPT ![a] = @ + 1]
        /\ UNCHANGED b
        /\ IF tries[a] + 1 < N
           THEN /\ on' = [on EXCEPT ![a] = (rr[a] + tries[a] + 1) % N]
                /\ UNCHANGED pc
           ELSE /\ Goto(a, "dedicate")
                /\ UNCHANGED on
  /\ UNCHANGED <<deques, pending, t, item, rr, issued, dedicated, failed, ran, clobbered>>

\* bottom may be -1 while the owner pops from a deque that was never used; the
\* C remainder of -1 is -1, so the entry lands on the counters before the ring.
PushWrite(a) ==
  LET d == on[a] IN
  /\ pc[a] = "push_write"
  /\ IF b[a] < 0
     THEN clobbered' = TRUE /\ UNCHANGED buf
     ELSE buf' = [buf EXCEPT ![d][b[a] % Capacity[d]] = item[a]] /\ UNCHANGED clobbered
  /\ Goto(a, "push_publish")
  /\ UNCHANGED <<top, bottom, pending, locals, issued, dedicated, failed, ran, overlapped>>

PushPublish(a) ==
  LET d == on[a] IN
  /\ pc[a] = "push_publish"
  /\ bottom' = [bottom EXCEPT ![d] = b[a] + 1]
  /\ rr' = [rr EXCEPT ![a] = IF tries[a] = -1 THEN @ ELSE (d + 1) % N]
  /\ item' = [item EXCEPT ![a] = NULL]
  /\ tries' = [tries EXCEPT ![a] = 0]
  /\ Forget(a)
  /\ Goto(a, "pend")
  /\ UNCHANGED <<top, buf, pending, on, ledger>>

AddPending(a) ==
  /\ pc[a] = "pend"
  /\ pending' = pending + 1
  /\ Goto(a, "notify")
  /\ UNCHANGED <<deques, locals, ledger>>

Back(a) == IF a \in Workers THEN "run" ELSE "out"

\* __maka_ws_notify broadcasts under the idle mutex.
Notify(a) ==
  /\ pc[a] = "notify"
  /\ pc' = [x \in Actors |-> IF x = a THEN Back(a)
                             ELSE IF pc[x] = "asleep" THEN "woken" ELSE pc[x]]
  /\ UNCHANGED <<deques, pending, locals, ledger>>

\* Every deque is full: the job gets a thread of its own, or none can be had and
\* __maka_spawn_pthread marks its handle as failed and done.
Dedicate(a) ==
  /\ pc[a] = "dedicate"
  /\ \/ dedicated' = dedicated \cup {item[a]} /\ UNCHANGED failed
     \/ failed' = failed \cup {item[a]} /\ UNCHANGED dedicated
  /\ item' = [item EXCEPT ![a] = NULL]
  /\ tries' = [tries EXCEPT ![a] = 0]
  /\ Goto(a, Back(a))
  /\ UNCHANGED <<deques, pending, b, t, on, rr, issued, ran, clobbered, overlapped>>

RunDedicated(j) ==
  /\ j \in dedicated
  /\ dedicated' = dedicated \ {j}
  /\ ran' = [ran EXCEPT ![j] = @ + 1]
  /\ UNCHANGED <<deques, pending, pc, locals, issued, failed, clobbered, overlapped>>

WorkerStep(w) ==
  \/ PopLoad(w) \/ PopStore(w) \/ PopTop(w) \/ PopRead(w) \/ PopCas(w) \/ PopRestore(w)
  \/ StealTop(w) \/ StealBottom(w) \/ StealRead(w) \/ StealCas(w)
  \/ StartJob(w) \/ FinishJob(w) \/ Spin(w) \/ IdleWait(w)

PushStep(a) ==
  \/ PushLoad(a) \/ PushWrite(a) \/ PushPublish(a)
  \/ AddPending(a) \/ Notify(a) \/ Dedicate(a)

\* What follows a write over the counters is undefined: the model stops there.
Next ==
  /\ ~clobbered
  /\ \/ \E w \in Workers : WorkerStep(w)
     \/ \E a \in Actors : Spawn(a) \/ PushStep(a)
     \/ \E j \in Jobs : RunDedicated(j)

Spec == Init /\ [][Next]_vars

(***************************************************************************)
(* Workers loop for ever, a call of job() that was begun returns, a        *)
(* dedicated thread is scheduled, and job bodies return.                   *)
(***************************************************************************)
Fairness ==
  /\ \A w \in Workers : WF_vars(WorkerStep(w))
  /\ \A a \in Actors : WF_vars(PushStep(a))
  /\ \A j \in Jobs : WF_vars(RunDedicated(j))

FairSpec == Spec /\ Fairness

-----------------------------------------------------------------------------
TypeOK ==
  /\ top \in [Workers -> Nat]
  /\ bottom \in [Workers -> Nat \cup {-1}]
  /\ DOMAIN buf = Workers
  /\ \A w \in Workers : buf[w] \in [0 .. Capacity[w] - 1 -> Jobs \cup {NULL}]
  /\ pending \in Int
  /\ pc \in [Actors -> PC]
  /\ b \in [Actors -> Nat \cup {-1}]
  /\ t \in [Actors -> Nat]
  /\ item \in [Actors -> Jobs \cup {NULL}]
  /\ on \in [Actors -> Workers]
  /\ tries \in [Actors -> Nat \cup {-1}]
  /\ rr \in [Actors -> Workers]
  /\ issued \in 0 .. MaxJobs
  /\ dedicated \subseteq Jobs /\ failed \subseteq Jobs
  /\ ran \in [Jobs -> Nat]
  /\ clobbered \in BOOLEAN /\ overlapped \in BOOLEAN

\* The deque's contents: bottom, except that the owner lowers it by one while
\* it looks whether that one is still there.
LogicalBottom(w) ==
  IF pc[w] \in Popping \ {"pop_store"} /\ b[w] + 1 > bottom[w] THEN b[w] + 1 ELSE bottom[w]
Indices(w) == top[w] .. LogicalBottom(w) - 1
Queued == UNION {{buf[w][i % Capacity[w]] : i \in Indices(w)} : w \in Workers}
Entries == UNION {{w} \X Indices(w) : w \in Workers}

\* Jobs in the hand of a thread that must run them or queue them: taken ones,
\* and those whose push has not been published.
Holding == {"got", "pop_won", "push_load", "push_write", "push_publish", "dedicate"}
InHand == {item[a] : a \in {x \in Actors : pc[x] \in Holding}}

\* Unless a push has overlapped, a job that job() was called for is run, queued, in
\* the hand of a thread, given a thread of its own or reported as failed: no push
\* overwrites it and no pop drops it; and no job's body is run twice, or after it
\* was reported, by whomever the pool, the thieves and the fallback thread hand it to.
NoJobLost ==
  ~overlapped =>
    /\ \A j \in 1 .. issued : ran[j] > 0 \/ j \in Queued \cup InHand \cup dedicated \cup failed
    /\ \A j \in Jobs : ran[j] <= 1 /\ (j \in failed => ran[j] = 0)

\* Unless a push has overlapped, every variable has its type, and pending is what the
\* deques and the workers about to run a job hold, but for the jobs published a moment
\* ago and not yet added: the counter that lets workers sleep drifts by nothing else,
\* over any interleaving of pushes, pops and steals.
Started == {w \in Workers : pc[w] \in {"got", "pop_won"}}
Uncounted == {a \in Actors : pc[a] = "pend"}
PendingCounts ==
  ~overlapped =>
    /\ TypeOK
    /\ pending + Cardinality(Uncounted) = Cardinality(Entries) + Cardinality(Started)

\* No wakeup is lost: while a worker waits on the idle condition variable,
\* nothing is pending that nobody is about to broadcast.
SleepersAreWoken ==
  (\E w \in Workers : pc[w] = "asleep") =>
    pending <= 0 \/ \E a \in Actors : pc[a] = "notify"

\* Unless a push overlaps, every job is run or reported as failed in the end: again
\* and again a time comes when all that were issued have been.
EveryJobEnds ==
  []<>(overlapped \/ \A j \in 1 .. issued : ran[j] > 0 \/ j \in failed)

\* What the code says of job(): every job is eventually run.
EveryJobRuns == []<>(\A j \in 1 .. issued : ran[j] > 0)
=============================================================================
