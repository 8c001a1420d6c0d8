----------------------------- MODULE Completion -----------------------------
(***************************************************************************)
(* The completion record of a unit of work (struct Thread): what thread(), *)
(* job() and spawn() hand to the caller, and how the work's end, join,     *)
(* detach, try_join, cancel and the losing branches of select share it.    *)
(* The record is reference counted: one reference for the handle, one for  *)
(* whoever runs the work, one for a cancel request posted to another       *)
(* thread's scheduler.                                                     *)
(*                                                                         *)
(* One record, its runner and the client that owns the handle; one action  *)
(* is one critical section or one access to the shared record.  A fiber is *)
(* here what its scheduler needs to know of it: where it is queued.  A     *)
(* scheduler runs only while its thread is inside the scheduler loop, and  *)
(* the client itself may be the anchor of the fiber's home.                *)
(***************************************************************************)
EXTENDS Integers, FiniteSets

CONSTANTS
  Tiers,    \* the tiers of the run, among thread, job and fiber
  Clients,  \* who owns the handle: an "os" thread or a "fiber"
  Ops       \* what may happen to the handle

AllOps == {"join", "detach", "try_join", "cancel",
           "select_thread", "select_job", "select_fiber",
           "home_exit"}     \* not an operation: the fiber's home thread exits

ASSUME TiersAssumption == Tiers \subseteq {"thread", "job", "fiber"}
ASSUME ClientsAssumption == Clients \subseteq {"os", "fiber"}
ASSUME OpsAssumption == Ops \subseteq AllOps

VARIABLES
  tier, client,   \* is_job and is_fiber; who holds the handle
  refcount,
  freed,          \* the last reference was dropped
  done,           \* done_flag
  failed,         \* is_failed: pthread_create or an allocation failed
  cancelReq,      \* cancel_requested
  rpc,            \* where the runner is
  at,             \* where the fiber is queued
  home,           \* home_sched: "none", the client's ("here") or another ("there")
  homeLives,      \* that other thread has not exited
  loops,          \* which of "here" and "there" are inside their scheduler loop
  cpc,            \* where the client is
  op,             \* the operation it is in
  req,            \* the cancel request on the home's inbox, and its processing
  os,             \* the pthread of a thread: running or ended
  killed,         \* pthread_cancel was called
  reaps,          \* how often the pthread was joined or detached
  envDrops        \* how often the captured environment was dropped

record == <<refcount, freed, done, failed, cancelReq>>
fiber == <<at, home, homeLives>>
posix == <<os, killed, reaps>>
fixed == <<tier, client, loops>>
vars == <<tier, client, refcount, freed, done, failed, cancelReq, rpc, at, home,
          homeLives, loops, cpc, op, req, os, killed, reaps, envDrops>>

RunnerPC == {"spawn", "body", "set_done", "drop_done", "free_env", "unref", "exit",
             "taken", "killed", "end"}
ClientPC == {"spawn", "holds", "join_test", "drive", "poll", "wait", "park", "parked", "reap", "drop", "out",
             "detach_test", "detach_os", "cancel_test", "kill", "kill_join",
             "cancel_flag", "cancel_home", "post", "dead_done", "cancel_local",
             "pool_walk", "pq_done", "pq_env", "cl_env", "cl_done", "cl_unref",
             "sel_done", "owed"}
ReqPC == {"none", "posted", "cl_env", "cl_done", "cl_unref", "h_done", "h_drop",
          "x_done", "x_unref"}
Places == {"none", "poolq", "picked", "ring", "list", "aio", "inbox", "running", "parked", "gone"}

Init ==
  /\ tier \in Tiers
  /\ client \in Clients
  /\ refcount = 2
  /\ freed = FALSE
  /\ done = FALSE
  /\ failed = FALSE
  /\ cancelReq = FALSE
  /\ rpc = "spawn"
  /\ at = "none"
  /\ home = "none"
  /\ homeLives = TRUE
  /\ loops = IF client = "fiber" THEN {"here"} ELSE {}
  /\ cpc = "spawn"
  /\ op = "none"
  /\ req = "none"
  /\ os = "none"
  /\ killed = FALSE
  /\ reaps = 0
  /\ envDrops = 0

\* __maka_thread_unref
Unref ==
  /\ refcount' = refcount - 1
  /\ freed' = (freed \/ refcount = 1)
  /\ UNCHANGED <<done, failed, cancelReq>>

(***************************************************************************)
(* done_flag is set under done_mutex, with a broadcast to the os threads   *)
(* that wait.  Only the scheduler's own completion path also takes the     *)
(* fibers off fiber_waiters, in the same critical section.                 *)
(***************************************************************************)
Woken == cpc = "wait"
WokenAndDrained == cpc \in {"wait", "parked"}

SetDone(wakes) ==
  /\ done' = TRUE
  /\ UNCHANGED <<refcount, freed, failed, cancelReq>>
  /\ cpc' = IF wakes THEN "join_test" ELSE cpc

DropEnv == envDrops' = envDrops + 1

-----------------------------------------------------------------------------
(***************************************************************************)
(* Spawning.  A thread starts; a job is queued or gets a thread of its own *)
(* (JobPool); a fiber is queued on the spawner's scheduler or for the      *)
(* background pool.  The handle may then move to a client on another       *)
(* scheduler.                                                              *)
(***************************************************************************)
Spawned ==
  /\ cpc = "spawn"
  /\ cpc' = "holds"
  /\ UNCHANGED <<fixed, cancelReq, homeLives, op, req, killed, reaps>>

SpawnStarts ==
  /\ Spawned
  /\ rpc' = "body"
  /\ os' = IF tier = "thread" THEN "running" ELSE "none"
  /\ \/ tier # "fiber" /\ UNCHANGED <<at, home>>
     \/ tier = "fiber" /\ at' = "ring" /\ home' \in {"here", "there"}
     \/ tier = "fiber" /\ at' = "poolq" /\ UNCHANGED home
  /\ UNCHANGED <<refcount, freed, done, failed, envDrops>>

\* No thread, no stack, or the pool's queue is closed: the record is complete
\* before the client has it.  Only the closed queue drops the environment.
SpawnFails ==
  /\ Spawned
  /\ rpc' = "end"
  /\ done' = TRUE
  /\ refcount' = refcount - 1
  /\ \/ failed' = TRUE /\ UNCHANGED envDrops
     \/ tier = "fiber" /\ DropEnv /\ UNCHANGED failed
  /\ UNCHANGED <<freed, at, home, os>>

-----------------------------------------------------------------------------
(***************************************************************************)
(* The runner of a thread or a job: __maka_handle_entry, __maka_ws_run.    *)
(***************************************************************************)
BodyReturns ==
  /\ rpc = "body"
  /\ tier # "fiber"
  /\ rpc' = "set_done"
  /\ UNCHANGED <<fixed, record, fiber, posix, cpc, op, req, envDrops>>

\* A deferred pthread_cancel acts at a cancellation point of the body; the
\* epilogue has none.
BodyCancelled ==
  /\ rpc = "body"
  /\ killed
  /\ rpc' = "killed"
  /\ os' = "ended"
  /\ UNCHANGED <<fixed, record, fiber, killed, reaps, cpc, op, req, envDrops>>

\* A worker or a thread wakes the os threads that wait; a scheduler, when a
\* fiber ends or is reaped, the fibers that parked as well.
RunnerSetsDone ==
  /\ rpc = "set_done"
  /\ SetDone(IF tier = "fiber" THEN WokenAndDrained ELSE Woken)
  /\ rpc' = "free_env"
  /\ UNCHANGED <<fixed, fiber, posix, op, req, envDrops>>

\* The pool worker that drops a cancelled fiber wakes only the os threads.
RunnerDropsDone ==
  /\ rpc = "drop_done"
  /\ SetDone(Woken)
  /\ rpc' = "free_env"
  /\ UNCHANGED <<fixed, fiber, posix, op, req, envDrops>>

RunnerFreesEnv ==
  /\ rpc = "free_env"
  /\ DropEnv
  /\ rpc' = "unref"
  /\ UNCHANGED <<fixed, record, fiber, posix, cpc, op, req>>

RunnerUnrefs ==
  /\ rpc = "unref"
  /\ Unref
  /\ rpc' = IF tier = "thread" THEN "exit" ELSE "end"
  /\ UNCHANGED <<fixed, fiber, posix, cpc, op, req, envDrops>>

RunnerExits ==
  /\ rpc = "exit"
  /\ os' = "ended"
  /\ rpc' = "end"
  /\ UNCHANGED <<fixed, record, fiber, killed, reaps, cpc, op, req, envDrops>>

-----------------------------------------------------------------------------
(***************************************************************************)
(* The fiber's way through its scheduler.  A ring is a run queue that      *)
(* cancel cannot search, a list is one it can (ready, sleeping, waiting    *)
(* for a descriptor), aio is such a list while a helper thread still holds *)
(* the fiber's buffers; a parked fiber is on the waiter list of a channel  *)
(* or a lock, and another thread wakes it by way of its home's inbox.  A   *)
(* scheduler does nothing while its thread is outside the loop: its anchor *)
(* is back, or its pool worker waits for the intake queue.                 *)
(***************************************************************************)
Scheduled == home = "there" => homeLives
Driven == home \in loops /\ Scheduled

FiberMoves(from, to) ==
  /\ at = from
  /\ at' = to
  /\ UNCHANGED <<fixed, record, homeLives, posix, cpc, op, req, envDrops>>

\* __maka_pool_q_pop_timed, then the worker's look at cancel_requested.
PoolPop ==
  /\ FiberMoves("poolq", "picked")
  /\ UNCHANGED <<home, rpc>>

\* The worker makes itself the home and enters its scheduler loop.
PoolAdopts ==
  /\ at = "picked"
  /\ ~cancelReq
  /\ at' = "ring"
  /\ home' = "there"
  /\ loops' = loops \cup {"there"}
  /\ UNCHANGED <<tier, client, record, homeLives, posix, rpc, cpc, op, req, envDrops>>

PoolDrops ==
  /\ cancelReq
  /\ FiberMoves("picked", "gone")
  /\ rpc' = "drop_done"
  /\ UNCHANGED home

\* __maka_ready_dequeue, which reaps a fiber whose cancellation was requested.
Dequeue(from) ==
  /\ Driven
  /\ \/ ~cancelReq /\ FiberMoves(from, "running") /\ UNCHANGED rpc
     \/ cancelReq /\ FiberMoves(from, "gone") /\ rpc' = "set_done"
  /\ UNCHANGED home

FiberYields(to) ==
  /\ FiberMoves("running", to)
  /\ UNCHANGED <<home, rpc>>

\* A wake on the home's own thread, by a fiber it runs or by its anchor.
AnchorActs == IF home = "there" THEN TRUE ELSE client = "os" /\ cpc \in {"holds", "out"}

FiberWoken(to) ==
  /\ Scheduled
  /\ home \in loops \/ AnchorActs
  /\ FiberMoves("parked", to)
  /\ UNCHANGED <<home, rpc>>

\* A wake from another thread.
FiberPosted ==
  /\ Scheduled
  /\ FiberMoves("parked", "inbox")
  /\ UNCHANGED <<home, rpc>>

\* drain_remote_wakes takes wakes and cancel requests together: HomeDrains.
InboxDrained ==
  /\ Driven
  /\ req # "posted"
  /\ FiberMoves("inbox", "list")
  /\ UNCHANGED <<home, rpc>>

FiberReturns ==
  /\ FiberMoves("running", "gone")
  /\ rpc' = "set_done"
  /\ UNCHANGED home

(***************************************************************************)
(* Threads enter their scheduler loop when they wait for something, and    *)
(* leave it between two of its turns: what they waited for is there, or    *)
(* nothing is ready, asleep or waiting for a descriptor.                   *)
(***************************************************************************)
BetweenTurns(s) ==
  home = s => /\ at # "running"
              /\ rpc \notin {"set_done", "drop_done", "free_env", "unref"}
              /\ req \in {"none", "posted"}

OwnWork == home = "here" /\ at \in {"ring", "list", "aio"}

MayEnter(s) ==
  IF s = "there" THEN home = "there" /\ homeLives
  ELSE client = "fiber" \/ cpc \in {"holds", "poll", "out"}

MayLeave(s) ==
  IF s = "there" THEN TRUE
  ELSE IF client = "fiber" THEN cpc \in {"holds", "join_test", "parked", "out"}
  ELSE cpc \in {"holds", "out"} \/ (cpc = "poll" /\ ~OwnWork)

Enters(s) ==
  /\ s \notin loops /\ MayEnter(s)
  /\ loops' = loops \cup {s}
  /\ UNCHANGED <<tier, client, record, rpc, fiber, posix, cpc, op, req, envDrops>>

Leaves(s) ==
  /\ s \in loops /\ MayLeave(s) /\ BetweenTurns(s)
  /\ loops' = loops \ {s}
  /\ UNCHANGED <<tier, client, record, rpc, fiber, posix, cpc, op, req, envDrops>>

\* The home thread exits.
HomeExits ==
  /\ "home_exit" \in Ops
  /\ home = "there"
  /\ homeLives
  /\ home \notin loops
  /\ BetweenTurns("there")
  /\ homeLives' = FALSE
  /\ UNCHANGED <<fixed, record, rpc, at, home, posix, cpc, op, req, envDrops>>

-----------------------------------------------------------------------------
(***************************************************************************)
(* The client: the anchor of its thread, which runs while the thread is    *)
(* outside its scheduler loop, or a fiber, which that loop resumes.        *)
(***************************************************************************)
ClientRuns == client = "fiber" <=> "here" \in loops

ClientGoes(from, to) ==
  /\ ClientRuns
  /\ cpc = from
  /\ cpc' = to
  /\ UNCHANGED <<fixed, req>>

Untouched == UNCHANGED <<rpc, fiber, posix, envDrops>>

\* The language lets the owner of a handle use it once, try_join apart.
Begin(o, label) ==
  /\ o \in Ops
  /\ ClientGoes("holds", label)
  /\ op' = o
  /\ UNCHANGED record
  /\ Untouched

Call ==
  \/ Begin("join", "join_test")
  \/ Begin("detach", "detach_test")
  \/ Begin("cancel", "cancel_test")
  \/ tier = "job" /\ Begin("select_job", "join_test")
  \/ tier = "thread" /\ Begin("select_thread", "kill")
  \/ tier = "fiber" /\ Begin("select_fiber", "cancel_home")

\* try_join, and each turn of join_timeout: nothing happens unless done.
FinishedUntested == TRUE
Finished == done

TryJoin ==
  /\ "try_join" \in Ops
  /\ Finished
  /\ ClientGoes("holds", "reap")
  /\ op' = "try_join"
  /\ UNCHANGED record
  /\ Untouched

\* A step that only decides where the client goes next.
Decide(from, to) ==
  /\ ClientGoes(from, to)
  /\ UNCHANGED <<op, record>>
  /\ Untouched

\* __maka_join_result.  An anchor whose scheduler has work drives it: until the
\* fiber is done when that is found on the lists, else in turns with looks at
\* done_flag.  Without such work of its own or of other fibers it waits under
\* done_mutex.  A fiber parks, which takes effect once it is switched out:
\* done_flag is tested again then.
ParksUntested == TRUE
Parks == ~done
Listed == OwnWork /\ at # "ring"

JoinTest ==
  \/ done /\ Decide("join_test", "reap")
  \/ ~done /\ client = "fiber" /\ Decide("join_test", "park")
  \/ ~done /\ client = "os" /\ ~OwnWork /\ Decide("join_test", "wait")
  \/ ~done /\ client = "os" /\ ~Listed /\ Decide("join_test", "poll")

JoinPark == Decide("park", IF Parks THEN "parked" ELSE "join_test")

\* The anchor switches into the scheduler loop; with maka_join_target set it comes
\* back when the target is done.
JoinDrives ==
  /\ ~done /\ client = "os" /\ "here" \notin loops
  /\ \/ cpc = "join_test" /\ Listed /\ cpc' = "drive"
     \/ cpc = "poll" /\ OwnWork /\ UNCHANGED cpc
  /\ loops' = loops \cup {"here"}
  /\ UNCHANGED <<tier, client, record, rpc, fiber, posix, op, req, envDrops>>

DriveReturns ==
  /\ cpc = "drive"
  /\ done
  /\ BetweenTurns("here")
  /\ cpc' = "reap"
  /\ loops' = loops \ {"here"}
  /\ UNCHANGED <<tier, client, record, rpc, fiber, posix, op, req, envDrops>>

PollTest == done /\ Decide("poll", "reap")

\* pthread_join for a thread that was started, and no more than the unref for
\* the other tiers.
HasPthreadForgotten == FALSE
HasPthread == tier = "thread" /\ ~failed

ReapPthread(from, to) ==
  /\ ClientGoes(from, to)
  /\ \/ HasPthread /\ os = "ended" /\ reaps' = reaps + 1
     \/ ~HasPthread /\ UNCHANGED reaps
  /\ UNCHANGED <<op, record, rpc, fiber, os, killed, envDrops>>

Reap == ReapPthread("reap", "drop")

DropHandle ==
  /\ ClientGoes("drop", "out")
  /\ Unref
  /\ UNCHANGED op
  /\ Untouched

DetachTest == Decide("detach_test", IF done THEN "reap" ELSE "detach_os")

DetachPthread ==
  /\ ClientGoes("detach_os", "drop")
  /\ reaps' = IF tier = "thread" THEN reaps + 1 ELSE reaps
  /\ UNCHANGED <<op, record, rpc, fiber, os, killed, envDrops>>

\* __maka_cancel: a finished record is joined, a job cannot be cancelled.
CancelTest ==
  Decide("cancel_test",
         IF done THEN "join_test"
         ELSE CASE tier = "thread" -> "kill"
                [] tier = "job" -> "drop"
                [] tier = "fiber" -> "cancel_flag")

Kill ==
  /\ ClientGoes("kill", "kill_join")
  /\ killed' = TRUE
  /\ UNCHANGED <<op, record, rpc, fiber, os, reaps, envDrops>>

\* After pthread_join: the runner's reference is still there when the thread
\* never reached its epilogue.  select does not ask.
OwedAlways == TRUE
OwedNever == FALSE
Owed == op = "select_thread" \/ ~done

KillJoin == ReapPthread("kill_join", IF Owed THEN "owed" ELSE "drop")

\* The client drops the runner's reference before its own.
DropOwed ==
  /\ \/ ClientGoes("owed", "drop")
     \/ ClientGoes("cl_unref", "drop")
  /\ Unref
  /\ rpc' = "end"
  /\ UNCHANGED <<op, fiber, posix, envDrops>>

(***************************************************************************)
(* cancel and select for a fiber.  cancel raises the flag first.           *)
(***************************************************************************)
CancelFlag ==
  /\ ClientGoes("cancel_flag", "cancel_home")
  /\ cancelReq' = TRUE
  /\ UNCHANGED <<op, refcount, freed, done, failed>>
  /\ Untouched

\* The home is another scheduler: post to it if it is alive.
CancelHome ==
  Decide("cancel_home",
         IF home # "there" THEN "cancel_local"
         ELSE IF homeLives THEN "post" ELSE "dead_done")

\* The request holds a reference of its own until it is processed.
ForRequest == refcount + 1

Post ==
  /\ cpc = "post"
  /\ cpc' = "drop"
  /\ req' = "posted"
  /\ refcount' = ForRequest
  /\ UNCHANGED <<fixed, freed, done, failed, cancelReq, op>>
  /\ Untouched

DeadDone ==
  /\ ClientGoes("dead_done", "owed")
  /\ done' = TRUE
  /\ UNCHANGED <<op, refcount, freed, failed, cancelReq>>
  /\ Untouched

\* A fiber found on a list is unlinked: whoever unlinks it destroys it.
UnlinkForgets(from) ==
  /\ at = from
  /\ rpc' = "taken"
  /\ UNCHANGED fiber

Unlink(from) ==
  /\ at = from
  /\ at' = "gone"
  /\ rpc' = "taken"
  /\ UNCHANGED <<home, homeLives>>

\* Not while a helper holds its buffers: then the fiber goes back to its list, or
\* to the ready queue.
LeftForAio ==
  /\ at = "aio"
  /\ at' \in {"aio", "ring"}
  /\ UNCHANGED <<rpc, home, homeLives>>

\* __maka_cancel_fiber_local searches the client's own lists.  When the fiber
\* is not there cancel looks into the pool's queue; select marks it done.
CancelLocal ==
  /\ \/ /\ home = "here"
        /\ \/ ClientGoes("cancel_local", "cl_env") /\ Unlink("list")
           \/ ClientGoes("cancel_local", "drop") /\ LeftForAio
     \/ /\ home = "here" => at \notin {"list", "aio"}
        /\ ClientGoes("cancel_local", IF op = "cancel" THEN "pool_walk" ELSE "sel_done")
        /\ UNCHANGED <<rpc, fiber>>
  /\ UNCHANGED <<op, record, posix, envDrops>>

PoolWalk ==
  /\ \/ ClientGoes("pool_walk", "pq_done") /\ Unlink("poolq")
     \/ ClientGoes("pool_walk", "drop") /\ at # "poolq" /\ UNCHANGED <<rpc, fiber>>
  /\ UNCHANGED <<op, record, posix, envDrops>>

\* The destroyer's steps, each found at its two places in the client.
ClientFreesEnv ==
  /\ \/ ClientGoes("cl_env", "cl_done")
     \/ ClientGoes("pq_env", "cl_unref")
  /\ DropEnv
  /\ UNCHANGED <<op, record, rpc, fiber, posix>>

ClientSetsDone ==
  /\ \/ ClientGoes("cl_done", "cl_unref")
     \/ ClientGoes("pq_done", "pq_env")
     \/ ClientGoes("sel_done", "drop")
  /\ done' = TRUE
  /\ UNCHANGED <<op, refcount, freed, failed, cancelReq>>
  /\ Untouched

-----------------------------------------------------------------------------
(***************************************************************************)
(* The home scheduler takes wake and request off its inbox                 *)
(* (drain_remote_wakes) or, when its thread has exited, the last user of   *)
(* the scheduler state clears the inbox (sched_state_cleanup).             *)
(***************************************************************************)
ReqGoes(from, to) ==
  /\ req = from
  /\ req' = to
  /\ UNCHANGED <<fixed, posix, op>>

HomeDrains ==
  /\ Driven
  /\ \/ ReqGoes("posted", "cl_env") /\ (Unlink("list") \/ Unlink("inbox"))
     \/ ReqGoes("posted", "h_drop") /\ LeftForAio
     \/ ReqGoes("posted", "h_done") /\ at \notin {"list", "aio", "inbox"} /\ UNCHANGED <<rpc, fiber>>
  /\ UNCHANGED <<record, cpc, envDrops>>

HomeFreesEnv ==
  /\ ReqGoes("cl_env", "cl_done")
  /\ DropEnv
  /\ UNCHANGED <<record, cpc, rpc, fiber>>

HomeSetsDone ==
  /\ \/ ReqGoes("cl_done", "cl_unref")
     \/ ReqGoes("h_done", "h_drop")
     \/ ReqGoes("x_done", "x_unref")
  /\ SetDone(Woken)
  /\ UNCHANGED <<rpc, fiber, envDrops>>

HomeUnrefs ==
  /\ \/ ReqGoes("cl_unref", "h_drop") /\ rpc' = "end"
     \/ ReqGoes("x_unref", "h_drop") /\ rpc' = "end"
     \/ ReqGoes("h_drop", "none") /\ UNCHANGED rpc
  /\ Unref
  /\ UNCHANGED <<cpc, fiber, envDrops>>

CleanupWake ==
  /\ ~homeLives
  /\ FiberMoves("inbox", "gone")
  /\ rpc' = "drop_done"
  /\ UNCHANGED home

Cleanup ==
  /\ ~homeLives
  /\ at # "inbox"
  /\ ReqGoes("posted", "x_done")
  /\ UNCHANGED <<record, cpc, rpc, fiber, envDrops>>

-----------------------------------------------------------------------------
RunnerStep ==
  \/ BodyReturns \/ BodyCancelled \/ RunnerSetsDone \/ RunnerDropsDone
  \/ RunnerFreesEnv \/ RunnerUnrefs \/ RunnerExits

SchedulerStep ==
  \/ PoolPop \/ PoolAdopts \/ PoolDrops \/ InboxDrained
  \/ \E place \in {"ring", "list", "aio"} : Dequeue(place)

WakerStep == FiberWoken("ring") \/ FiberWoken("list") \/ FiberPosted

FiberStep ==
  \/ \E place \in {"ring", "list", "aio", "parked"} : FiberYields(place)
  \/ FiberReturns

LoopStep == \E s \in {"here", "there"} : Enters(s) \/ Leaves(s)

ClientStep ==
  \/ JoinTest \/ JoinPark \/ JoinDrives \/ DriveReturns \/ PollTest \/ Reap \/ DropHandle \/ DetachTest \/ DetachPthread
  \/ CancelTest \/ Kill \/ KillJoin \/ DropOwed
  \/ CancelFlag \/ CancelHome \/ Post \/ DeadDone \/ CancelLocal \/ PoolWalk
  \/ ClientFreesEnv \/ ClientSetsDone

HomeStep ==
  HomeDrains \/ HomeFreesEnv \/ HomeSetsDone \/ HomeUnrefs \/ CleanupWake \/ Cleanup

Next ==
  \/ SpawnStarts \/ SpawnFails
  \/ RunnerStep \/ SchedulerStep \/ WakerStep \/ FiberStep \/ LoopStep \/ HomeExits
  \/ Call \/ TryJoin \/ ClientStep \/ HomeStep

Spec == Init /\ [][Next]_vars

(***************************************************************************)
(* Every thread that has a step to take takes it; bodies and fibers end,   *)
(* and whoever waits on a channel or a lock is woken in time.  No thread   *)
(* owes its scheduler a turn: LoopStep has no fairness.                    *)
(***************************************************************************)
Fairness ==
  /\ WF_vars(RunnerStep) /\ WF_vars(SchedulerStep) /\ WF_vars(WakerStep)
  /\ WF_vars(FiberStep) /\ SF_vars(FiberReturns)
  /\ WF_vars(ClientStep) /\ WF_vars(HomeStep)

FairSpec == Spec /\ Fairness

-----------------------------------------------------------------------------
RecordTyped ==
  /\ tier \in Tiers
  /\ client \in Clients
  /\ refcount \in Int
  /\ freed \in BOOLEAN
  /\ done \in BOOLEAN
  /\ failed \in BOOLEAN
  /\ cancelReq \in BOOLEAN
  /\ rpc \in RunnerPC
  /\ at \in Places
  /\ home \in {"none", "here", "there"}
  /\ homeLives \in BOOLEAN
  /\ cpc \in ClientPC
  /\ op \in Ops \cup {"none"}
  /\ req \in ReqPC
  /\ os \in {"none", "running", "ended"}
  /\ killed \in BOOLEAN
  /\ reaps \in 0 .. 1
  /\ envDrops \in 0 .. 1

LoopsTyped == loops \subseteq {"here", "there"}

TypeOK == RecordTyped /\ LoopsTyped

RunnerHolds == rpc \notin {"exit", "end"}
ClientHolds == cpc # "out"
RequestHolds == req # "none"

Count(holds) == IF holds THEN 1 ELSE 0

\* The executions the code counts right: select on threads, and cancel once the
\* home thread of the fiber has exited, drop a reference that is not theirs.
Covered == homeLives /\ op # "select_thread"

\* The reference count is the number of parties that still have to drop one,
\* whoever has taken over the runner's, and the record is freed by the last.
RefsMatchHolders ==
  Covered =>
  /\ refcount = Count(RunnerHolds) + Count(ClientHolds) + Count(RequestHolds)
  /\ freed <=> refcount = 0

\* Nobody who may still touch the record finds it freed, however join, detach,
\* cancel and select overlap the end of the work.
NoUseAfterFree == freed => ~RunnerHolds /\ ~ClientHolds /\ ~RequestHolds

\* The captured environment is dropped at most once, and never before the body
\* that uses it is over: a cancelled fiber is destroyed by exactly one of its
\* scheduler, the canceller and its home.
EnvDroppedOnce ==
  /\ envDrops <= 1
  /\ envDrops = 1 => rpc \notin {"spawn", "body"}

\* A client that goes on to read the result does so after the body is over,
\* although cancel and select set done_flag for a fiber that still runs.
JoinSeesTheEnd == cpc = "reap" => rpc \notin {"spawn", "body", "set_done", "taken", "killed"}

\* A started pthread is joined or detached exactly once by the time the handle
\* is given up.
PthreadReapedOnce ==
  /\ reaps <= 1
  /\ cpc = "out" /\ tier = "thread" /\ ~failed => reaps = 1

-----------------------------------------------------------------------------
(***************************************************************************)
(* The strengthening that makes the invariants above inductive.            *)
(***************************************************************************)
Live == {"poolq", "picked", "ring", "list", "aio", "inbox", "running", "parked"}
Destroying == {"pq_done", "pq_env", "cl_env", "cl_done", "cl_unref"}
HomeDestroying == {"cl_env", "cl_done", "cl_unref"}
FiberOnly == {"cancel_flag", "cancel_home", "post", "dead_done", "cancel_local",
              "pool_walk", "sel_done"} \cup Destroying
GivenUp == {"drop", "owed", "out"}
Unfinished == {"spawn", "body", "set_done", "drop_done", "taken", "killed"}

\* What the tiers and a failed spawn rule out.
TiersApart ==
  /\ rpc = "spawn" <=> cpc = "spawn"
  /\ rpc = "spawn" => ~done /\ ~failed /\ os = "none" /\ home = "none" /\ at = "none"
  /\ cpc \in {"spawn", "holds"} => op = "none"
  /\ cpc \in FiberOnly \/ at # "none" => tier = "fiber"
  /\ killed \/ cpc \in {"kill", "kill_join"} => tier = "thread"
  /\ rpc \in {"exit", "killed"} \/ os # "none" => tier = "thread"
  /\ os = "ended" => rpc \in {"killed", "end"}
  /\ failed => done /\ rpc = "end" /\ at = "none" /\ cpc # "detach_os"
  /\ op = "select_thread" => tier = "thread"

\* A fiber that is queued or runs has not ended: only the step that takes it
\* off its place may end it.  A dead home strands it there.
PlaceKnown ==
  /\ at \in Live =>
       \/ rpc = "body"
       \/ rpc = "end" /\ at \in {"ring", "list", "aio", "inbox", "parked"}
            /\ home = "there" /\ ~homeLives /\ cpc \in GivenUp
  /\ at \in {"poolq", "picked"} => home = "none"
  /\ at = "running" => home # "there" \/ homeLives

\* One destroyer; a request is processed after the client let go.
OneDestroyer ==
  /\ rpc = "taken" <=> cpc \in Destroying \/ req \in HomeDestroying
  /\ req # "none" => cpc \in {"drop", "out"}
  /\ req # "none" \/ cpc \in {"post", "dead_done"} => home = "there"
  /\ cpc = "owed" /\ tier # "thread" => home = "there" /\ ~homeLives
  /\ req \in {"x_done", "x_unref"} \/ cpc = "dead_done" => ~homeLives

\* What done_flag tells the client.
DoneKnown ==
  /\ rpc \in {"free_env", "unref", "exit"} => done
  /\ Covered /\ rpc = "end" => done \/ cpc \in {"drop", "out"}
  /\ Covered /\ cpc = "owed" => rpc = "killed"
  /\ done /\ rpc \in Unfinished => cpc \in GivenUp \cup Destroying

EnvKnown ==
  rpc \in {"spawn", "body", "set_done", "drop_done", "free_env", "killed"}
    \/ at \in Live \/ cpc \in {"pq_done", "pq_env", "cl_env"} \/ req = "cl_env" => envDrops = 0

ReapsKnown ==
  reaps = IF tier = "thread" /\ ~failed /\ cpc \in GivenUp THEN 1 ELSE 0

IInv ==
  /\ RecordTyped /\ TiersApart /\ PlaceKnown /\ OneDestroyer /\ DoneKnown
  /\ EnvKnown /\ ReapsKnown
  /\ RefsMatchHolders /\ EnvDroppedOnce /\ JoinSeesTheEnd /\ PthreadReapedOnce

-----------------------------------------------------------------------------
\* Whoever joins is woken: a client that waits, or a fiber that parked for another
\* fiber, does so before done_flag is set, and the runner has still to set it with
\* the broadcast and the drain that reach the client (__maka_join_result).
Joining == cpc = "wait" \/ (cpc = "parked" /\ tier = "fiber")

JoinerIsWoken ==
  /\ cpc = "wait" => ~done
  /\ Joining /\ homeLives => ~done /\ rpc \in {"body", "set_done"}

\* Join and the end of the work meet: whoever waits has its waker before it, and
\* whoever goes on to read the result has the end of the body behind it.
JoinMeetsTheEnd == JoinSeesTheEnd /\ JoinerIsWoken

\* Environment and pthread are given up once, by whichever of the runner, the
\* canceller, the home and the client gets there.
CleanedUpOnce == EnvDroppedOnce /\ PthreadReapedOnce

\* Nothing is left behind: when the handle is given up and neither the runner nor
\* a request has a step to take, the record was freed, and so was the environment
\* unless the body was cut short or never began.
NothingLeft ==
  Covered /\ cpc = "out" /\ req = "none" /\ rpc \in {"exit", "end", "killed", "taken"} =>
    freed /\ (envDrops = 1 \/ killed \/ failed)

(***************************************************************************)
(* What the two need to be inductive, given IInv.                          *)
(***************************************************************************)
Canceling == {"cancel_home", "post", "dead_done", "cancel_local", "pool_walk", "sel_done"}
               \cup Destroying

\* A fiber is reaped for a request only after the client raised it.
CancelKnown ==
  /\ cancelReq => cpc \in Canceling \cup GivenUp
  /\ rpc = "drop_done" => cancelReq \/ ~homeLives

\* A thread that pthread_cancel cut short is the canceller's to account for.
KillKnown ==
  /\ killed => cpc \in {"kill_join"} \cup GivenUp
  /\ op = "select_thread" => cpc \in {"kill", "kill_join"} \cup GivenUp
  /\ cpc = "kill_join" \/ rpc = "killed" => killed
  /\ cpc = "owed" => killed \/ ~homeLives
  /\ killed /\ rpc = "body" => cpc = "kill_join"
  /\ Covered /\ rpc = "killed" => cpc \in {"kill_join", "owed"}

\* Whoever ends the runner's part has dropped the environment before.
EnvLeft ==
  /\ homeLives /\ rpc \in {"unref", "exit", "end"} => envDrops = 1 \/ killed \/ failed
  /\ cpc \in {"cl_done", "cl_unref"} \/ req \in {"cl_done", "cl_unref"} => envDrops = 1

EndInv == (Joining /\ (homeLives \/ cpc = "wait") => ~done) /\ CancelKnown /\ KillKnown /\ EnvLeft

-----------------------------------------------------------------------------
\* The schedulers that join and cancel rely on and that nobody runs: the fiber's
\* home, with the fiber or a request in its queues, and that of a client fiber.
HomeAbandoned ==
  /\ home # "none" /\ home \notin loops
  /\ at \in {"ring", "list", "aio", "inbox"} \/ req = "posted"

ClientAbandoned == client = "fiber" /\ "here" \notin loops

\* join returns: the end of the work wakes an os thread that waits, brings back an
\* anchor that drives its scheduler, and reaches a fiber that parks although the
\* work ends while it is being switched out.  Excepted are schedulers that nobody
\* runs, and an anchor whose own scheduler always has another fiber to run.
JoinReturns ==
  \/ []<>(HomeAbandoned \/ ClientAbandoned \/ (cpc = "poll" /\ "here" \in loops))
  \/ (cpc = "join_test" /\ (client = "os" \/ tier = "fiber")) ~> (cpc = "out" \/ ~homeLives)

\* What the code says of a fiber that joins a thread or a job: it is unparked when
\* that ends, as long as its scheduler runs.
JoinAlwaysReturns ==
  []<>ClientAbandoned \/ ((cpc = "join_test") ~> (cpc = "out"))

\* What the code says of an anchor that joins a fiber of its own scheduler: it drives
\* the scheduler, and does not freeze it.
JoinFreezesNobody ==
  (cpc = "join_test" /\ client = "os" /\ home = "here") ~> (cpc \in {"poll", "out"})

\* Nothing leaks once the handle is given up, unless the fiber's home is not run any
\* more: the record is freed, and the environment of a body that was not cut short
\* was dropped.
Reclaimed ==
  \/ []<>HomeAbandoned
  \/ (cpc = "out") ~> (~homeLives \/ (freed /\ (envDrops = 1 \/ killed \/ failed)))
=============================================================================
