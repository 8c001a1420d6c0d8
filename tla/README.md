# A verification of Maka: its runtime and its ownership pass

Maka is a compiled language; its compiler (eleven Rust crates) emits C, and with
every program a concurrency runtime written as C text inside
`src/crates/codegen/src/lib.rs` (about lines 870 to 5770, and the descriptor
functions up to 8700). The runtime is where threads, fibers, schedulers and
lock-free structures meet. The compiler's passes are sequential, but one of them
decides when memory is freed: the move checker and the drop pass of
`src/crates/sema/src/lifetime.rs`. These two are what this project is about. Line
numbers are lines of codegen's `lib.rs` unless another file is named.

A model of the runtime is of the emitted C: one action is one access to shared
memory or one critical section, and the names are the C names.

## Inventory

| Part | State | Operations | Talks to | Hard because | Correct when |
|---|---|---|---|---|---|
| Fiber run queue `maka_frunq_t` (1545-1583) | `head`, `tail`, ring of slots | owner pushes; owner and peers take | ready_enqueue, ready_dequeue, stealing | lock-free, counters wrap the ring, stale copies | every published fiber is handed out once, in order, and none is stranded |
| Job pool (3488-3684) | a Chase-Lev deque per worker, `pending`, idle mutex and condition, round-robin index | push, pop, steal, worker loop, `job()` | completion record of the job | owner and thieves race for the last job; sleepers; full deques | each job runs exactly once; nobody sleeps over a job |
| Completion record `Thread` (1146-1283, 3694-4217) | `refcount`, `done_flag`, `is_failed`, `cancel_requested`, home scheduler, waiter list, environment | spawn, end of work, join, detach, try_join, join_timeout, cancel, select | every tier's runner; the home scheduler's inbox | three threads drop references; cancel races with the end; deferred pthread_cancel; exited homes | counted exactly; environment dropped once; join sees the end and returns; nothing leaks |
| Fiber scheduler (1584-2900) | ring, shared queue, timer and descriptor lists, remote inbox, wake pipe, poll-owner baton | enqueue, drain, dequeue, park, idle, poll | all of the above | a wake between the last look and the sleep; the anchor that is not in the loop; the group lock | a runnable fiber is run; it is in one place; a wake is never lost |
| Park protocol and `Mutex`, `RwLock`, `WaitGroup`, `Once` (1720-1747, 2412-2461, 4455-4871) | predicate, `kw_mu`, waiter list, `pth_waiters`, `inflight_parkers` | lock, unlock, add, done, wait, do, destroy | scheduler | a fiber is not on the list until it is switched out | exclusion, no lost wake, destroy waits for all |
| Byte channel (1006-1098, 4872-4985), int channel (967-1005) | items, closed flag, fibers and threads that wait | send, recv, try_recv, close, destroy | park protocol, scheduler, inbox | one item wakes a thread and a fiber; close and destroy against receivers on their way in or out | FIFO, each item once, receivers wake on close, destroy comes last |
| Explicit `Pool` (3107-3284) | workers, shared scheduler and its references, in-flight count | new, spawn_on, free | scheduler, completion | workers create, attach and leave late; shutdown against fibers that sleep | every accepted fiber ends; the shared scheduler outlives its users; free returns |
| Background fiber pool (2949-3096) | intake queue, workers | submit, pop, adopt | completion, scheduler | cancel while queued | a cancelled fiber is dropped by one party |
| Data-parallel helpers (4251-4440, 4990-5760) | chunks, a record and a handle each | fork, join, merge | thread tier | chunk arithmetic, chunks that find no thread | each item is done once, the result is a loop's |
| Timers and descriptor reactor (1929-2003, 2311-2352, 3297-3420, 7154-7188, 7533-7615) | descriptor list, interest masks, deadlines, close and cancel requests, helper threads of file operations | sleep, wait_fd, read, close_fd, file_read | kernel, scheduler, cancel | numbers are used again; registrations vanish; cancel while a helper writes into the fiber's stack | nobody waits for what the kernel will not report; a helper keeps its buffer |
| Ownership (`sema/src/lifetime.rs`, and the drops codegen emits) | move states, scopes, drops | walk, join of branches, loops, drop insertion | parser's tree, codegen | a value is moved on some paths only, and some of them jump | on every path each object is freed once and none is read after |
| Watchdog, slab cache, context switch | caches, ticks | - | - | - | - |
| Resolution, typing, lexer, parser, bridge, driver, fmt, lint, lsp, std | none that outlives a call | passes | - | sequential | - |

`PROJECT.json` lists the same parts with their status, and every place that is
hard to test, with the properties that watch it.

## Modules

| Module | Models | State and actions |
|---|---|---|
| `FifoQueue` | what a run queue promises | an atomic bounded FIFO queue, one pusher, many takers |
| `FiberRing` | `__maka_frq_push`, `__maka_frq_take` | `head`, `tail`, `buf` and each worker's locals; one action per access; `Abstract` maps it to `FifoQueue` |
| `JobPool`, `MCJobPool` | `__maka_ws_push/pop/steal/worker/notify`, `__maka_spawn_job` | the deques, `pending`, each thread's program counter and locals; one action per access |
| `Completion` | `struct Thread`, the runner's epilogue of all three tiers, join, detach, try_join, cancel, select, the home's handling of a cancel request | one record, its runner (`rpc`), the fiber's place (`at`), the client (`cpc`), the posted request (`req`), the pthread (`os`) |
| `FiberSync` | `maka_fmutex_*`, `maka_rwlock_*`, `maka_wg_*`, `maka_once_*` and the finalize step of `__maka_scheduler_loop` | one object of one kind, its counters and waiter list, where each fiber, thread and unit of work is (`pc`), and destroy (`dpc`); one action per critical section under `kw_mu` or access outside it |
| `ChannelQueue` | what a byte channel promises | a FIFO queue that is sent to, received from, closed and destroyed, each in one step |
| `Channel` | `maka_chan_bytes_*` over the lone scheduler: `__maka_ready_enqueue`, the inbox, the wake pipe, `__maka_scheduler_loop` and its anchor, `__maka_join_result` | the channel, the home's queues and lists, where the home is (`at`), where each client is (`pc`); maps to `ChannelQueue` |
| `PoolSched` | `__maka_pool_new/spawn_on/free`, `__maka_pool_h_worker`, the pool's turns of `__maka_scheduler_loop` | the shared scheduler and its references, the group, each worker (`wpc`), each fiber (`fpc`), the owner (`client`) and a thread that wakes |
| `Reactor`, `MCReactor` | `__maka_reactor_epoll`, `__maka_fd_arm`, `__maka_fd_recompute`, `__maka_wait_fd(_timeout)`, `__maka_read_async`, `__maka_close_fd`, `__maka_file_read_async`, the close and cancel inboxes | kernel side (`open`, `ready`, `interest`), each scheduler (`spc`, `batch`, inboxes), each fiber (`at`, `op`, `wfd`, `wev`, `due`), its helper thread |
| `DataParallel` | `__maka_par_*`, `maka_par_*_bytes` | the caller (`pc`, `k`), a thread, record and handle per chunk |
| `Ownership`, `MCOwnership` | the move checker and drop pass of `lifetime.rs`, and the statements codegen emits | a body is compiled, then executed: open blocks (`stack`), what each local holds (`slot`), how often each object was freed |
| `FiberRing_proofs`, `JobPool_proofs`, `Completion_proofs`, `FiberSync_proofs`, `Channel_proofs`, `PoolSched_proofs`, `Reactor_proofs`, `DataParallel_proofs` | - | theorems and proofs |

Each `.cfg` names its module by its prefix. Where the values of the constants are
functions or sets of programs, an `MC` module defines them; the others are few model
values, and the configurations instantiate the module directly.

How they compose. The modules meet at the scheduler. `FiberRing` shows that
the lock-free ring is a FIFO queue, and `Channel` and `PoolSched` use a sequence for
it. `FiberSync` takes a ready fiber to be run some time; that a wake reaches the
ready queue is what `Channel` shows for a lone scheduler and `PoolSched` for a pool.
`Completion` abstracts the scheduler to where a fiber is and has the cancel requests,
which `Reactor` has again where they meet descriptors.

Conventions. Memory is sequentially consistent: the code uses sequentially
consistent atomics for the accesses that race, or a fence next to a relaxed one
(`__maka_frq_push`, 1568), and the models give up the weaker orders. A critical
section under one mutex is one action. Local variables whose value is dead are
reset, which merges states that differ in nothing that can be observed. In each
module the operators ending in `Untested`, `OffByOne`, `Blind` and the like are
plausible mistakes in the operator that follows them; they are used only to show
that each property can fail. Type invariants are a conjunct of the first
invariant of a module (`InOnePlace`, `PendingCounts`, `HelperHasItsBuffer`) or of its
proved inductive invariant (`IInv`).

### FiberRing

The owner alone writes `tail`; it loads `tail` and `head` in one action because
only `head` can change meanwhile. The bounds are two slots, three workers (the
owner, who also takes, and two thieves) and three pushes: the counters pass the
capacity, so a slot is reused while a thief still holds an index of it. That is
the case the compare-and-swap of `head` is there for.

### JobPool

A Chase-Lev deque has one producer. `job()` also pushes onto other threads'
deques: a caller outside the pool has none of its own (3669-3677), and a worker
whose deque is full tries the next (3663-3668). The model has every interleaving of
these. `Alone` says that whoever begins an operation on a deque meets no other thread's
push on it and, if it is itself a push from elsewhere, not the owner in an operation
either; the history variable `overlapped` records that one began otherwise. Until then the deque keeps its promises (`NoJobLost`,
`PendingCounts`, `EveryJobEnds`); after it a job may be lost, which
`jobs_foreign_push` shows. The run `jobs` explores the states up to the first
overlap (`Undisturbed`), since its properties say nothing of the later ones. The
wakeup property holds with overlaps too, and its theorem has no exception.
When every deque is full the job gets a thread of its own, or there is none to be
had: then its handle is `failed` and done and the body never runs (1243-1249). The
properties count such a job as reported; that it runs (`EveryJobRuns`) is false in this
run too. Spinning 64 turns before sleeping is any number of turns. A push
loads `bottom` and `top` in one action. The pool's start (3625-3651) is over in `Init`.

Bounds: two workers with deques of one and of two slots, a caller, four jobs. The
deques run full, `job()` goes on to the next and in the end to a thread of
the job's own or to a failure, jobs issue jobs, owner and thief race for the last one.

### Completion

One record at a time suffices, because records share nothing but lists that the
code protects by a mutex. The three runners share `SetDone`, `Unref` and
`DropEnv` with the client and the home, as they share the C functions. `at`
says where the fiber is: the background queue, a worker's hand, a ring that
cancel cannot search, a list that it can, a file operation whose helper thread is at
work (`aio`: cancel leaves it on its list, `LeftForAio`), its home's inbox, running,
parked, or gone. `req` is the
cancel request on the home's inbox and the home's program counter while it
processes it. A party that takes over the runner's reference shows as
`rpc = "taken"`.

A scheduler runs only while its thread is in the loop. `loops` says which of the
client's own scheduler and the other thread's are; they enter and leave as they like
(`Enters`, `Leaves`), and nothing is asked of that. A client that is the anchor of
the fiber's home drives it while its queues hold something (`JoinDrives`), goes on
polling for another fiber's sake (`poll`), or waits by a plain `pthread_cond_wait`
(`wait`), and then nobody drains its inbox (3788-3795): a join that freezes its own
scheduler (`JoinFreezesNobody` is false).

`Covered` names the two kinds of executions in which the code drops a reference
that is not its own: a losing thread of `select` (4142-4147) and a cancel after
the fiber's home thread has exited (4015-4022, 2751). In those the reference
count is wrong (TLC finds `NoUseAfterFree` violated, and the hazards say how);
everywhere else it is exact. `NothingLeft` and `Reclaimed` except failed spawns, killed
threads and dead homes, where the code leaks the environment or the record.
`JoinReturns` and `Reclaimed` also except schedulers that nobody runs while the fiber, or a
request about it, lies in their queues (`HomeAbandoned`; `ClientAbandoned` for a client
that is a fiber), and `JoinReturns` an anchor that polls because its scheduler always
has another fiber to run.

`JoinReturns` and `Reclaimed` each have a safety half, which is where the order of the
code's steps matters. `JoinerIsWoken`, a part of `JoinMeetsTheEnd`: a joiner is
waiting or parked only before `done_flag` is set, so the broadcast and the drain that
follow it reach the joiner.
`NothingLeft`: when nobody has a step left to take, nothing is left to free.

The constants choose the tiers, the kinds of client and the operations; the run
`completion` takes all of them, so its state space is that of every
record and every sequence of operations the language allows on a handle.

### FiberSync

One object suffices: the objects share only the schedulers, which owe each of
them the same two things, to finalize a park and to resume a ready fiber. The
four kinds differ in their words and in whom they wake, and share the park
protocol, so `kind` is chosen in `Init` and the actions are shared as far as the
code's text is repeated. A fiber goes `try`, `slow`, `armed` (announced in
`inflight_parkers`, not on any list), then by `Finalize` either `parked` or
`ready`; a thread goes `waiting` and `woken`. A `WaitGroup`'s count is raised by
a client, who lets a unit of work (`Doers`) lower it once; the client lowers and
the wakes come in two actions, as in the code, where the count is lowered before
the mutex is taken (4695-4699). A fiber taken off a list is `ready` at once: that
its waker enqueues it a moment later only delays it.

`destroy` may be called wherever the others are, by a client outside or by the one that
holds the lock (`MayDestroy`); only the runner of a `Once` does not destroy it from its own
body. What the code guarantees then is the property. `destroy` counts threads in the
condition wait, fibers that are announced, and the runner of a `Once`, and takes parked
fibers off the list: those have left when it frees the object (`CountedHaveLeft`), and
while it waits on `drained_cv` somebody is left who signals it when he is the last
(`DestroyerIsTold`). Together they are `DestroyOutlastsUsers`. It does not count a fiber
it has just made ready nor a `wg_done` that has lowered the count: whoever comes back to
the freed object stops there in the model, and that they come is what makes
`WokenDoNotReturn` and `DoneIsOver` false. `destroy` clears the word of a lock whoever holds it, so `Exclusion`
is said of a lock until then, and the readers' later unlocks may take `readers` below
zero, where a writer waits for ever (`Blocked`): `DestroyerIsTold`, `CallsReturn` and
`DestroyReturns` except that one. Calls are bounded, so `CallsReturn` says that nobody
stays behind, not that nobody is overtaken.

Bounds: two fibers, one thread, two units of work, two calls each. Two fibers make
the waiter list have an order and let one be finalized while the other unlocks; the
thread gives the mixed wake (one fiber and one thread) something to choose; the second
call makes a waiter meet a newcomer that took the lock before it.

Not modelled here: an anchor that drives its own scheduler while it waits
(4501-4503, 4736), and the moment in which the runner of a `Once` has won it and
not yet announced itself when another thread's `destroy` has freed it (4789-4795): he
stops there as the others do.

### Channel

The home thread has an anchor, its own C stack, and fibers; `at` says whether one
of them runs or where the loop is. The anchor enters the loop only when it has to
wait (recv on an empty channel, join, sleep) and sees work in the home's own
queues. A fiber that recv finds nothing for is announced, switched out and only then
put on the channel's list (`FinalizePark`). `send` signals one thread and takes one
fiber off the list, for one item; the fiber is enqueued outside the mutex, on
the home directly, from another thread through the inbox and the wake pipe (`Post`,
`Ping`). `close` wakes all; `destroy` closes, drains and waits for those it counts
(`waiters`, `inflight_parkers`, the list). It may be called wherever the others are;
only, nobody begins an operation after it was called, and whoever would touch the
freed channel stops there. `Homes` says whether the home is `main` or a worker of `spawn_pool`, which
adopts fibers from the intake queue.

Bounds: the anchor, two fibers and one thread, two items, one operation each, a ring of
one slot, so that the shared queue is used too. Two receivers and two items are what a
lost, a doubled or a misdirected wake needs; both kinds of home are in the run.

`WakesGetThrough` and `DestroyOutlastsUsers` join what has to hold together for a sleeper
to be woken. `NoLostWakeup`: an item that a receiver waits for has its wake on the way.
`HomeHearsWakes`: the home is in `epoll_wait` only with its queues empty, and what other
threads put into its inbox has its byte in the pipe, or on its way; the loop empties
the pipe before the inbox (`DrainOrder`), and the other order would lose a fiber posted
in between. `CountedHaveLeft` and
`DestroyerIsTold` are as in `FiberSync`. A fiber that `destroy` has made ready is counted
nowhere and locks what was freed when it runs (`ParkedHaveReturned` is false). `Delivered`
excepts a home that stopped there (`Stopped`).

Not modelled: the count (1060-1070), the int channel, whose receiver blocks its thread
and never parks a fiber, and what an item contains.

### PoolSched

The first worker creates the shared scheduler and counts itself, the others attach,
the owner posts fibers through the inbox with a reference of its own, and
the last one out frees it. A worker drains the inbox and the timers, takes from its
deque, the shared queue or a peer's deque, and with nothing to run either polls for
all (`polling`) or waits on the condition variable. Both waits end by themselves after
250 ms and 2 ms, so the signals that end them sooner are left out: they change when,
not whether. Fibers yield, sleep, wait for descriptors, park until another thread
wakes them, and spawn. A fiber is put on a list only after it is switched out
(`ListedLater`), so that no peer runs it on a half-saved context.

A worker that has read `pool->sched` takes its reference later, when the scheduler may
have been freed by the others after `pool_free` has closed the group. Such a worker stops in
the model where it would touch it; `FreeReturns` excepts it (`Late`), `RefsMatchHolders`
and the others hold all the same, and `FreedByTheLastWorker` is false.
One constant names what the rest rests on. `WalksAlone`: the walk over
the descriptor list is not disturbed, although `__maka_ready_enqueue` unlocks the
group's lock once more than it took (2075), which lets peers in.

Bounds: two workers, two fibers, deques of one slot, one switch per fiber. Two
workers have a poller and a waiter, one that steals and one that is stolen from; a deque
of one overflows into the shared queue.

### Reactor

Each scheduler is lone and driven by one thread. The kernel is three variables: what
is open, what holds of each descriptor, and each scheduler's registration, which
vanishes with `close` (so `__maka_fd_arm` tries MOD and then ADD). A fiber's wait goes
`switched`, then `waiting` (`Finalize` puts it on the list and arms the union of all
masks), and ends by an event, a deadline, a close, or a cancel. `epoll_wait` returns
a batch, and the walk happens later, so a batch may speak of a number that has been
closed and given out again meanwhile. `close_fd` wakes the waiters of its own scheduler,
posts a request to every other, and closes. `cancel` frees a waiting fiber, unless a
helper thread still reads into its stack; a ready one is reaped when it is dequeued.

The numbers of descriptors are shared by the program and by the eventfds of file
operations, and any closed number may be given out again, to either. Nothing holds a
scheduler back between the post of a close request (7170-7184) and the close (7187). Two
history variables say whom that can harm. `lapsed`: the fiber went to wait for a number
that was another's eventfd, or that was under a close whose request its scheduler had
already dealt with; it may be left with neither a registration nor a request, and
`NoWaiterStranded` excepts it. `disturbed`: a close request for an earlier use of
its eventfd's number woke the fiber, or another read the eventfd empty; a cancelled one
is then reaped under its helper thread, and `HelperHasItsBuffer` excepts it. The run
`reactor_stranded` shows what the first exception stands for; that the second happens makes
`LeftWhereItIs` false.

Bounds: two schedulers, one with the fiber that closes, opens, cancels, yields and has
file operations, one with two fibers that wait (`MCMay`), one number, three calls and
events in all (`Inputs`). The hazards are about one number with several owners and
waiters, in turn and at once: two waiters on a scheduler make the union of masks matter,
and three inputs are enough to wait, close and open again, to wait twice and hang up,
to close and give the number to an eventfd, or to start a file operation, close and
cancel. The two invariants were also checked with two numbers (616 thousand states up to
symmetry), which the liveness property does not allow in reasonable time.

A lone scheduler polls only while its anchor is in the loop, and not at all while a ready
fiber yields in turns. So nothing is assumed of that: `WaitersReturn` is about a
scheduler that polls again and again.

Not modelled: a pool's descriptors, where the same list is shared (`PoolSched` has its
walk); the poll and kqueue backends.

### DataParallel

The caller cuts the range into at most 16 chunks, starts a thread for each and joins
them in order; a chunk that finds no thread is done by the caller (`for_range`,
`map_int`) or goes missing (the others), which the history variable `lost` records. An
item is its index and a function's value is the sequence of items it was computed
from, so `SameAsSequential` holds for any associative combine. Integers wrap at
`IntMax`, and one of the ranges ends there. The caller is an OS thread; on a fiber the
joins of `for_range`, `for_each` and `map` are those of `completion_foreign_join`.

Two constants name what the results rest on. `Neutral`: a chunk's seed is an identity of
combine (`reduce_int` seeds with 0, `reduce` with init once a chunk).
`Representable`: no chunk reaches beyond the integers.

Bounds: up to four chunks instead of 16, five items, zero to five processors: empty
chunks at the end, a last chunk that is shorter, one chunk, no items.

### Ownership

A program is a body over an owner `x`, a local or a parameter, and an inner owner
`y`, of one of two kinds: `own *T`, which a move sets to null and which is tested before
it is freed, and a value that owns (a String, a Vec, a struct). `Compile` does what the
pass does: it walks the body with the set of moved owners, joins branches,
walks a loop's body twice, rejects a use after a move, then fills in the drops at the
ends of scopes, at jumps and returns, and at the end of the other branch. The other
actions execute the emitted statements, one a step, and conditions go either
way, so every path is taken. The properties are about the execution: freed at most
once, never read when gone, nothing left behind.

Bodies (`MCOwnership`): all of up to two compound statements (if, match, while, block)
with up to two statements in a branch, and statements around them, about twenty thousand.
Loops turn at most twice, which is what a move in one turn and its effect in
the next need. Five shapes of body, each with its own predicate, are left
out of the passing run because the pass gets them wrong: a move on the way out of a
loop (`loop`), an assignment in a nested block after a move
(`revive`), a read after the join of a branch that moved an `own *T` (`join`), a
parameter moved on some paths (`param`) and a return inside a match arm (`arm`).
`Shapes` puts them back.

The module is recursive over trees, so it is only model-checked.

## Runs

| Run | Checks | Shows |
|---|---|---|
| `ring` | `TakenInOrder`, `EveryPushedIsTaken`, `ImplementsFifo` | nothing is taken twice, skipped or overwritten; the ring implements the queue |
| `jobs` | `NoJobLost`, `PendingCounts`, `SleepersAreWoken`, `EveryJobEnds` | until a push overlaps: each job once, by whichever of the ways, or reported as failed; nobody asleep over one |
| `jobs_foreign_push` (violation) | `EveryJobRuns` | a push onto another thread's deque can be undone |
| `completion` | `RefsMatchHolders`, `CleanedUpOnce`, `JoinMeetsTheEnd`, `NothingLeft`, `JoinReturns`, `Reclaimed` | the record's life for all tiers and operations |
| `completion_foreign_join` (violation) | `JoinAlwaysReturns` | a fiber that joins a thread or a job sleeps for ever |
| `sync` | `Exclusion`, `NoLostWakeup`, `DestroyOutlastsUsers`, `OnceReturnsAfterBody`, `CallsReturn`, `DestroyReturns` | the four objects under fibers and threads: exclusion, no lost wake, destroy waits for whom it counts, wherever they are (87 thousand states) |
| `channel` | `InOnePlace`, `WakesGetThrough`, `DestroyOutlastsUsers`, `ImplementsQueue`, `Delivered`, `DestroyReturns` | the channel implements its queue over the lone scheduler; a wake gets through ring, inbox and pipe once |
| `pool` | `InOnePlace`, `OnePoller`, `NoneLeftBehind`, `RefsMatchHolders`, `EveryFiberEnds`, `FreeReturns` | a pool from `pool_new` to `pool_free`, whenever it comes (87 thousand states) |
| `reactor` | `NoWaiterStranded`, `HelperHasItsBuffer`, `WaitersReturn` | descriptors, masks, deadlines, close, cancel and file operations over two schedulers; every wait that something ends does end, where the scheduler polls (146 thousand states) |
| `reactor_stranded` (violation) | `ClosedWakesAll` | a close request drained before the close leaves a later waiter behind |
| `par` | `EachItemOnce`, `SameAsSequential`, `RecordsKept` | the helpers compute what a loop would, and end (deadlock is checked; 111 thousand states) |
| `own` | `FreedOnce`, `NeverDangles`, `NothingLeaks` | accepted bodies manage memory right on every path, the five shapes aside (206 thousand states) |

Deadlock is not checked where the program may stop: when the bounded number of
pushes, jobs, operations or calls is used up nothing is left to do.

Fairness. Threads that have a step to take take it (weak fairness of a thread's steps).
In `JobPool` workers loop for ever, a started `job()` returns and bodies end. In `Completion`
a scheduler in its loop and the parties that hold a step are weakly fair and strong
fairness of `FiberReturns` says that a body that runs again and again ends at last;
no thread owes its scheduler a turn (`LoopStep` has no fairness), and nothing
is assumed of the client beyond finishing the operation it began, nor of spawns. In
`FiberSync` clients finish what they began and leave what they entered, schedulers
finalize and resume, work ends and the destroy loop runs (weak fairness); nobody
has to call anything and no thread wakes up without a signal. In `Channel` the home's
thread and the other threads inside an operation run (weak), and a sleeping fiber's
time comes when the loop looks again and again (strong). In `PoolSched` workers and
the owner are strongly fair because the group's mutex, free again and again, is got
in turn; deadlines pass and descriptors become ready. In `Reactor` the return of
`epoll_wait`, each helper thread and time are weakly fair; neither schedulers nor peers
are, so `WaitersReturn` claims an end only for waits that a close, a hang-up, a deadline
or a helper ends, on a scheduler that polls. `DataParallel` and `Ownership` need none.

## What is proved

Each theorem is for every value of the constants, under the named assumptions of
its module. Three Boolean constants stand for a place where the code itself does not keep
what the theorem needs, and whose other value a hazard describes: `WalksAlone`,
`Representable` and `Neutral`; each theorem below says whether it is for both values.
Exceptions that depend on what happened before are in the properties, as history
variables (`overlapped`, `lapsed`, `disturbed`).

* `FiberRing_proofs`. `RingInvariant`: `IInv` adds to the two safety properties
  (`TakenInOrder`, `QueuedIntact`) what a worker's program counter knows of its
  copies: between the load and the store of `tail` there is room, and a
  thief whose `head` is still current holds the fiber that is really there. From
  it `RingTakenInOrder`, and `RingRefinesFifo`: a push maps to `Push` at the
  store of `tail`, a take at its compare-and-swap, an empty take at the load of
  `tail`, the rest to stutters.
* `JobPool_proofs`. `JobPoolSleepersAreWoken`, overlaps or not: the
  counter is raised before the broadcast, and a worker tests it under the mutex
  the broadcast is made under, so `SInv` needs only types. `AlwaysNoJobLost` and
  `AlwaysPendingCounts` speak of the states before a push has overlapped. `DequeInv`
  says what an owner, a thief and a pushing
  thread know between their loads and stores: an owner that has lowered `bottom` and
  seen more than one entry owns the slot, a thief whose `top` is still current has
  the job of that slot. On it stand `JobInv` (a job is in one slot, one hand, has a
  thread of its own, was reported as failed or was run, exclusively) and `CountInv`
  (`pending + |Uncounted| = |Entries| + |Started|`, as sets of slots and of threads).
* `Completion_proofs`. `CompletionInvariant` and its consequences, `CompletionTypeOK` among
  them, and `CompletionNoUseAfterFree` for what is `Covered`. The counted
  references alone are not inductive: one has to know which program counters
  imply an open epilogue (`DoneKnown`), that a queued fiber's runner has not
  started its epilogue (`PlaceKnown`), that there is one destroyer
  (`OneDestroyer`) and what each tier rules out (`TiersApart`). `CompletionJoinMeetsTheEnd`
  and `CompletionNothingLeft` need `EndInv` beside it: nobody waits or is parked once
  `done_flag` is set, because the test and the wait are one critical section and a
  parking fiber looks again; whoever comes to drop the runner's reference has dropped the
  environment before (`EnvLeft`); and a request or a kill always has a canceller that
  accounts for it (`CancelKnown`, `KillKnown`). Nothing in them depends on who drives a
  scheduler.
* `FiberSync_proofs`. `SyncInvariant`, and from it `SyncExclusion` and
  `SyncNoLostWakeup`, destroy or not. `IInv` adds where an actor can
  be by what it is and wants (`PlacesKnown`), that the waiter list holds the parked
  fibers, each once (`ParkedKnown`), and that only the caller that found a `Once`
  untouched runs it (`OneRunner`). `ParkedKnown` is what lets one wake be enough: the
  head that unlock takes is a parked fiber, and it becomes the one on the way. The
  counting in `Exclusion` goes through the cardinality of the set of those inside, so
  the clients are assumed finite. `SyncOnceReturnsAfterBody` is an action property:
  `OnceKnown` says that before destroy the word 2 is only there, and a
  caller only woken, when the body has ended. `SyncDestroyOutlastsUsers` holds wherever the
  others are when destroy is called. What destroy tests are counters, so both its halves are
  facts about whom each of them counts: `UInv` adds that `inflight_parkers` is the number
  of announced fibers (`Announced`), that `waiters` is the number of threads in a condition
  wait and `runner` is raised by a `Once` alone (`Counted`), and that a thread
  that still waits while destroy does waits for somebody (`WaitsForSomebody`,
  `HeldBySomebody`).
* `Channel_proofs`, wherever the clients are when destroy is called; nobody begins an
  operation after it was. `ChannelImplementsQueue`: an operation maps
  to its step of `ChannelQueue` at the critical section that changes the queue.
  `ChannelInOnePlace` from `PlaceInv`, which adds up, for each fiber, the occurrences in
  ring, overflow, list, inbox and hands (`Tally`), and ties the mark `inq` to the
  queues. `ChannelNoLostWakeup` is inductive with `RecvInv`: only receivers are on the
  list. `HomeHearsWakes`, the other half of `ChannelWakesGetThrough`, is inductive as it
  stands beside `IInv`: most steps leave inbox and pipe alone (`Unheard`), and what is
  left is the post, the ping and the two looks of the loop.
  `ChannelDestroyOutlastsUsers` from `EndInv`, in which `waiters` is the number of threads
  in the condition wait, and `TellInv`: after
  destroy has emptied the channel's list nobody is put on it again, because a fiber that
  is finalized then finds the channel closed.
* `PoolSched_proofs`. `AlwaysOnePoller`, for both values of `WalksAlone`. `PollInv` names the worker that polls instead of counting: the flag
  is set and cleared under the lock by the worker it is about, which is at one of three
  places meanwhile; the count follows from the set of pollers being empty or a singleton.
  `AlwaysInOnePlace` from `PlaceInv`: as in the channel the places of a fiber are
  added up, over workers, deques, queue and lists, and `HandsKnown` says what each
  worker has in hand. `AlwaysNoneLeftBehind` from `LeaveInv`: `inflight` is the number of
  fibers that are born and not done. `RefsAlwaysMatchHolders`: the count is the number of
  attached workers and posting threads, and the scheduler lives while it is positive. All
  four are for both values of `WalksAlone` and for whenever `pool_free` comes.
* `DataParallel_proofs`. `DataParallelRecordsKept`, for both values of `Representable`
  and `Neutral`: where the arithmetic overflows a result may be wrong, but no record or
  handle is. `RecordInv` says for each place of the caller which chunks are not started,
  out, joined once or given up (`Fresh`, `Out`, `Once`, `Given`), and what of the record
  and handle each of these leaves. A scan frees the record of chunk 0 without looking,
  so the proof needs that a slice with something in it is cut into at least one chunk
  (`ChunksKnown`). For `Representable`, `DataParallelEachItemOnce` from `ItemInv`: the
  chunks meet nowhere and cover the range (`PiecesApart`, `PiecesCover`), which is
  integer arithmetic about division rounded up. `DataParallelSameAsSequential`, also for
  `Representable`, from `ResultInv`: which run of items each output, each record and the
  caller's accumulator stand for, in a scan's first and second pass (`OutKnown`,
  `AccKnown`, `SumKnown`). Filter has an invariant of its own, `FilterInv`: the items a
  chunk kept lie, in order, at the start of its own part of the shared buffer, and the
  caller has joined those of the chunks it has been through. Nothing is computed by
  recursion there: `InOrder(s, K)` says that `s` lists the set `K` from its smallest
  member up, each once, and two such lists of sets that follow each other can be joined.
  Only the last chunks can be empty (`NextPiece`), and an empty chunk's record holds
  what no one has folded, so its contribution must not be needed. The theorem claims nothing of a reduction that is not seeded with an
  identity of combine (`Claimed`).
* `Reactor_proofs`. `ReactorHelperHasItsBuffer` from
  `IInv`, which has what the number in `waiting_fd` is (`NumbersKnown`), that no two of
  those who will close a number, by `close_fd` or as their eventfd, have the same one
  (`Owns`, `OneOwner`), what a batch, a record and a deadline can be about, and that until
  a helper has signalled its fiber is in its file operation, is not ready unless
  `disturbed`, and neither its descriptor nor a batch has anything for it (`HelperKnown`).
  `ReactorNoWaiterStranded` from `CloserKnown`, which says that a fiber in `close_fd` runs, and `WaitersReached`: a fiber without a deadline that has not `lapsed`
  has a request on its way or an armed, open descriptor nobody else is about to close.

Only model-checked, and why. The properties under fairness (`EveryPushedIsTaken`,
`EveryJobEnds`, `JoinReturns`, `Reclaimed`, `CallsReturn`, `DestroyReturns`,
`Delivered`, `EveryFiberEnds`, `FreeReturns`, `WaitersReturn`), because the prover does
not reason about ENABLED. Of five of them the part that the order of the code's steps
decides is an invariant and a theorem: `JoinerIsWoken` of `JoinReturns`, `NothingLeft`
of `Reclaimed`, `HomeHearsWakes` of `Delivered`, `DestroyerIsTold` of `DestroyReturns`,
`SleepersAreWoken` of `EveryJobEnds`; that the step that is then due is taken is what
fairness adds. `FreedOnce`, `NeverDangles` and `NothingLeaks`, because `Ownership`
compiles and runs bodies of nested statements with recursive operators. Every invariant
a passing run checks is otherwise a theorem.

## Disagreements with the code's own comments

`PROJECT.json` lists under `findings` those a run shows, with the lines and the
quoted sentences:

* a job lost by a push onto another thread's deque (`jobs_foreign_push`);
* a fiber that joins a thread or a job and is never woken (`completion_foreign_join`);
* `close_fd`, which posts before it closes and leaves a waiter behind (`reactor_stranded`).

Others are hazards whose note quotes the comment. What the code says is stated in
the module, and TLC finds it violated when it is checked with the constants of the
passing run:

| Claim | Module, configuration | What TLC finds |
|---|---|---|
| `EveryJobRuns` | `MCJobPool`, `JobPool.cfg` | every deque is full, no thread can be had, the body never runs (1243-1249) |
| `JoinFreezesNobody` | `Completion`, `Completion.cfg` | an anchor joins a parked fiber of its own and stops the scheduler that is to run it (3788) |
| `WokenDoNotReturn` | `FiberSync`, `FiberSync.cfg` | a fiber that `destroy` wakes comes back to the freed mutex (4500) |
| `DoneIsOver` | `FiberSync`, `FiberSync.cfg` | the wait group is destroyed under the `wg_done` that ended the wait (4697) |
| `ParkedHaveReturned` | `Channel`, `Channel.cfg` | a fiber that `destroy` wakes from recv locks the freed channel (4918) |
| `FreedByTheLastWorker` | `PoolSched`, `PoolSched.cfg` | a worker attaches to a scheduler that is freed (3154) |
| `LeftWhereItIs` | `MCReactor`, `Reactor.cfg` | a cancelled fiber is reaped while its helper thread works on its stack (2205) |
| `FreedOnce` | `MCOwnership`, `Ownership.cfg` with `Shapes = {"loop"}` | a value moved on the way out of a loop is freed twice (`lifetime.rs` 3475) |

The rest: the double drops of the runner's reference (4146, 4021), the walk that loses its
lock (2075), chunk arithmetic near INT64_MAX (4308) and seeds that are no identity (5669).

## Plan

1. The null and alias half of `lifetime.rs` beside `Ownership`; the anchor of a wait
   group in `FiberSync`; cancel of a fiber that waits for a lock.
2. `Ownership` with its recursion as functions, so that `FreedOnce` can be proved of
   straight-line bodies.

## Not modelled, and why

* The rest of the compiler. The lexer, the parser, resolution (`resolve.rs`), typing
  (`typeck.rs`), the Rust bridge, the formatter, the linter, the language server and
  most of codegen's lowering of expressions are about twenty-seven thousand of the
  thirty-nine thousand lines. They are sequential functions from trees and text
  to trees and text: no state outlives a call, no order of events matters, and a
  faithful model of one is a transliteration of its case analysis, checked against
  nothing but itself. The one pass whose result has a meaning that can be stated
  apart from it, that memory is freed once on every path, is modelled.
  What the map covers is therefore about a tenth of all lines, and most of the
  runtime.
* The null, alias and borrow tracking of `lifetime.rs`.
* Kernel and assembly interfaces: context switch, kqueue and poll backends with
  their emulation of eventfds, sockets, TLS, HTTP, processes. The models keep where a
  fiber waits and what `epoll` reports.
* The int channel and `job_on`, which add no protocol of their own; the watchdog,
  which only prints; the slab cache; allocation failures.
* Weak memory orders, the content of results and environments, stacks and memory
  recycling.
