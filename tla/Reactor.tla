------------------------------ MODULE Reactor ------------------------------
(***************************************************************************)
(* Descriptors: fibers that read, wait with a timeout and do file          *)
(* operations on helper threads, each on its home's scheduler, while       *)
(* fibers of any scheduler close descriptors, get their numbers again and  *)
(* cancel each other.  A scheduler has a list of the fibers that wait on a *)
(* descriptor and a kernel registration per descriptor, whose mask is the  *)
(* union of what they wait for.                                            *)
(*                                                                         *)
(* Every scheduler is driven by one thread.  The order of a ready queue is *)
(* left out (FiberRing has it): any ready fiber may be next.               *)
(***************************************************************************)
EXTENDS Integers, FiniteSets

CONSTANTS
  Fibers, Scheds,
  Home,     \* the scheduler of each fiber
  Fds,      \* descriptor numbers, the program's and those of eventfds
  None,
  Inputs,   \* bound of the model: calls the fibers make and things that happen
            \* to descriptors
  May       \* bound of the model: the calls each fiber makes

ASSUME HomeAssumption == Home \in [Fibers -> Scheds]
ASSUME MayAssumption == May \in [Fibers -> SUBSET {"read", "wait", "close", "open", "cancel", "yield", "file"}]
ASSUME InputsAssumption == Inputs \in Nat
ASSUME NoneAssumption == None \notin Fds

Events == {"in", "out"}
Conditions == Events \cup {"hup"}

VARIABLES
  open,       \* the descriptors that are open
  ready,      \* what holds of each: readable, writable, hung up
  interest,   \* the events each scheduler's epoll set has each registered for
  inbox,      \* remote_close_head: the numbers of descriptors that were closed
  cancels,    \* remote_cancel_head: the fibers to cancel
  rung,       \* the wake pipe holds a byte
  spc,        \* where each scheduler's thread is
  batch,      \* what its epoll_wait returned
  at,         \* where each fiber is
  op,         \* the call it is in, or "body"
  wfd, wev,   \* waiting_fd and waiting_events
  due,        \* wait_deadline_ns: none, to come, or over
  cancelled,  \* cancel_requested
  inputs,     \* how many there were
  inflight,   \* aio_in_flight
  helper,     \* where the helper thread of f's file operation is
  refs,       \* the refcount of that operation's record
  lapsed,     \* history: f went to wait for a number that was another fiber's
              \* eventfd, or whose close its scheduler had been told of already
  disturbed   \* history: a close request for an earlier use of its number woke
              \* f from its file operation, or another fiber read its eventfd

kernel == <<open, ready, interest>>
remote == <<inbox, cancels, rung>>
waits == <<wfd, wev, due, lapsed>>
aio == <<inflight, helper, refs>>
vars == <<kernel, remote, spc, batch, at, op, waits, cancelled, inputs, aio, disturbed>>

TypeOK ==
  /\ open \in SUBSET Fds /\ ready \in [Fds -> SUBSET Conditions]
  /\ interest \in [Scheds -> [Fds -> SUBSET Events]]
  /\ inbox \in [Scheds -> SUBSET Fds] /\ cancels \in [Scheds -> SUBSET Fibers]
  /\ rung \in [Scheds -> BOOLEAN]
  /\ spc \in [Scheds -> {"top", "inbox", "pick", "fiber", "switched", "poll", "walk"}]
  /\ batch \in [Scheds -> [Fds -> SUBSET Conditions]]
  /\ at \in [Fibers -> {"ready", "running", "switched", "waiting", "ended", "freed"}]
  /\ op \in [Fibers -> {"body", "read", "wait", "close", "file"}]
  /\ wfd \in [Fibers -> Fds \cup {None}] /\ wev \in [Fibers -> SUBSET Events]
  /\ due \in [Fibers -> {"never", "later", "over"}]
  /\ cancelled \in [Fibers -> BOOLEAN]
  /\ inputs \in 0 .. Inputs
  /\ inflight \in [Fibers -> BOOLEAN]
  /\ helper \in [Fibers -> {"none", "works", "signals", "leaves"}]
  /\ refs \in [Fibers -> 0 .. 2]
  /\ lapsed \in [Fibers -> BOOLEAN] /\ disturbed \in [Fibers -> BOOLEAN]

Init ==
  /\ open \in SUBSET Fds /\ ready = [n \in Fds |-> {}]
  /\ interest = [s \in Scheds |-> [n \in Fds |-> {}]]
  /\ inbox = [s \in Scheds |-> {}] /\ cancels = [s \in Scheds |-> {}]
  /\ rung = [s \in Scheds |-> FALSE]
  /\ spc = [s \in Scheds |-> "top"]
  /\ batch = [s \in Scheds |-> [n \in Fds |-> {}]]
  /\ at = [f \in Fibers |-> "ready"] /\ op = [f \in Fibers |-> "body"]
  /\ wfd = [f \in Fibers |-> None] /\ wev = [f \in Fibers |-> {}]
  /\ due = [f \in Fibers |-> "never"]
  /\ cancelled = [f \in Fibers |-> FALSE]
  /\ inputs = 0
  /\ inflight = [f \in Fibers |-> FALSE] /\ helper = [f \in Fibers |-> "none"]
  /\ refs = [f \in Fibers |-> 0]
  /\ lapsed = [f \in Fibers |-> FALSE] /\ disturbed = [f \in Fibers |-> FALSE]

-----------------------------------------------------------------------------
\* maka_fd_waiters of s.
Waiting(s) == {f \in Fibers : Home[f] = s /\ at[f] = "waiting"}

\* The mask __maka_fd_recompute arms n with while W is the list; a mistake arms
\* it with what one of them waits for.
MaskOfOne(n, W) ==
  IF \E f \in W : wfd[f] = n THEN wev[CHOOSE f \in W : wfd[f] = n] ELSE {}
Mask(n, W) == UNION {wev[f] : f \in {g \in W : wfd[g] = n}}

\* epoll_ctl(MOD), and ADD when the kernel has dropped the registration; a
\* mistake trusts the registration to be there.
SetModified(n, old, mask) == IF n \in open /\ (old # {} \/ mask = {}) THEN mask ELSE {}
Set(n, old, mask) == IF n \in open THEN mask ELSE {}

\* The registrations of s after it armed the descriptors N anew for the list W.
Rearmed(s, N, W) ==
  [interest EXCEPT ![s] = [n \in Fds |->
     IF n \in N THEN Set(n, @[n], Mask(n, W)) ELSE @[n]]]

\* The fibers G leave a list for the ready queue.
Woken(G) == [f \in Fibers |-> IF f \in G THEN "ready" ELSE at[f]]

\* Their wait is over and leaves no trace.
Reset(G) ==
  /\ due' = [f \in Fibers |-> IF f \in G THEN "never" ELSE due[f]]
  /\ wev' = [f \in Fibers |-> IF f \in G THEN {} ELSE wev[f]]

Moves(s, from, to) == spc[s] = from /\ spc' = [spc EXCEPT ![s] = to]

-----------------------------------------------------------------------------
(***************************************************************************)
(* A scheduler's loop.                                                     *)
(***************************************************************************)
\* The wake pipe is emptied before the inbox is looked at.  A scheduler without
\* fibers is not driven any more.
DrainPipe(s) ==
  /\ Moves(s, "top", "inbox")
  /\ \E f \in Fibers : Home[f] = s /\ at[f] \notin {"ended", "freed"}
  /\ rung' = [rung EXCEPT ![s] = FALSE]
  /\ UNCHANGED <<kernel, inbox, cancels, batch, at, op, waits, cancelled, inputs, aio, disturbed>>

\* Of the fibers of W those __maka_cancel_fiber_local frees when asked to; a
\* mistake forgets the helper thread that works on the fiber's stack.
FreeableBlind(C, W) == C \cap W
Freeable(C, W) == {f \in C \cap W : ~inflight[f]}

\* Close requests wake their waiters, then cancel requests are carried out on
\* those still waiting.
DrainInbox(s) ==
  LET closed == {f \in Waiting(s) : wfd[f] \in inbox[s]}
      freed == Freeable(cancels[s], Waiting(s) \ closed)
      left == Waiting(s) \ (closed \cup freed)
  IN /\ Moves(s, "inbox", "pick")
     /\ inbox' = [inbox EXCEPT ![s] = {}] /\ cancels' = [cancels EXCEPT ![s] = {}]
     /\ at' = [f \in Fibers |-> IF f \in freed THEN "freed" ELSE Woken(closed)[f]]
     /\ interest' = Rearmed(s, inbox[s] \cup {wfd[f] : f \in freed}, left)
     /\ Reset(closed)
     /\ disturbed' = [f \in Fibers |-> disturbed[f] \/ (f \in closed /\ op[f] = "file")]
     /\ UNCHANGED <<open, ready, rung, batch, op, wfd, lapsed, cancelled, inputs, aio>>

Resume(f) ==
  /\ at[f] = "ready" /\ ~cancelled[f]
  /\ Moves(Home[f], "pick", "fiber")
  /\ at' = [at EXCEPT ![f] = "running"]
  /\ UNCHANGED <<kernel, remote, batch, op, waits, cancelled, inputs, aio, disturbed>>

\* __maka_reap_cancelled, which looks neither at where the body was nor at
\* aio_in_flight.
Reap(f) ==
  /\ at[f] = "ready" /\ cancelled[f] /\ spc[Home[f]] = "pick"
  /\ at' = [at EXCEPT ![f] = "freed"]
  /\ UNCHANGED <<kernel, remote, spc, batch, op, waits, cancelled, inputs, aio, disturbed>>

NoneReady(s) == \A f \in Fibers : Home[f] = s => at[f] # "ready"

\* With nobody waiting the loop returns to the anchor, which comes back.
Idle(s) ==
  /\ NoneReady(s)
  /\ Moves(s, "pick", IF Waiting(s) = {} THEN "top" ELSE "poll")
  /\ UNCHANGED <<kernel, remote, batch, at, op, waits, cancelled, inputs, aio, disturbed>>

\* What epoll_wait reports of n to s: hang-ups without being asked.
Reported(s, n) ==
  IF interest[s][n] = {} THEN {} ELSE ready[n] \cap (interest[s][n] \cup {"hup"})

EpollReturns(s) ==
  /\ Moves(s, "poll", "walk")
  /\ \/ rung[s]
     \/ \E n \in Fds : Reported(s, n) # {}
     \/ \E f \in Waiting(s) : due[f] = "over"
  /\ batch' = [batch EXCEPT ![s] = [n \in Fds |-> Reported(s, n)]]
  /\ UNCHANGED <<kernel, remote, at, op, waits, cancelled, inputs, aio, disturbed>>

\* f waits for what s was told of its descriptor; a mistake forgets the hang-up,
\* which the kernel reports to all.
ConcernsAsked(s, f) == batch[s][wfd[f]] \cap wev[f] # {}
Concerns(s, f) ==
  LET told == batch[s][wfd[f]] IN "hup" \in told \/ told \cap wev[f] # {}

\* The walk of the list for every event, then for the deadlines.
Walk(s) ==
  LET told == {f \in Waiting(s) : Concerns(s, f)}
      late == {f \in Waiting(s) \ told : due[f] = "over"}
      N == {n \in Fds : batch[s][n] # {}} \cup {wfd[f] : f \in late}
  IN /\ Moves(s, "walk", "top")
     /\ at' = Woken(told \cup late)
     /\ interest' = Rearmed(s, N, Waiting(s) \ (told \cup late))
     /\ Reset(told \cup late)
     /\ batch' = [batch EXCEPT ![s] = [n \in Fds |-> {}]]
     /\ UNCHANGED <<open, ready, remote, op, wfd, lapsed, cancelled, inputs, aio, disturbed>>

\* The switched-out fiber is put on the list and its descriptor armed.
Finalize(f) ==
  /\ at[f] = "switched" /\ Moves(Home[f], "switched", "top")
  /\ at' = [at EXCEPT ![f] = "waiting"]
  /\ interest' = Rearmed(Home[f], {wfd[f]}, Waiting(Home[f]) \cup {f})
  /\ UNCHANGED <<open, ready, remote, batch, op, waits, cancelled, inputs, aio, disturbed>>

-----------------------------------------------------------------------------
(***************************************************************************)
(* Calls of the running fiber.                                             *)
(***************************************************************************)
Another == inputs < Inputs /\ inputs' = inputs + 1

\* The descriptors the program holds: those of file operations are not its own.
Held == {n \in open : \A f \in Fibers : op[f] = "file" => wfd[f] # n}

\* f is in the body of its closure and makes a call.
Begins(f, call) ==
  /\ call \in May[f] /\ at[f] = "running" /\ op[f] = "body" /\ Another

\* Number n is another fiber's eventfd, or is being closed by one whose request
\* f's scheduler has dealt with.
Lapses(f, n) ==
  \E g \in Fibers \ {f} :
    /\ wfd[g] = n
    /\ \/ op[g] = "file"
       \/ op[g] = "close" /\ n \notin inbox[Home[f]]

\* __maka_wait_fd and __maka_wait_fd_timeout, up to the switch.
SwitchOut(f, n, events, deadline) ==
  /\ Moves(Home[f], "fiber", "switched")
  /\ at' = [at EXCEPT ![f] = "switched"]
  /\ wfd' = [wfd EXCEPT ![f] = n] /\ wev' = [wev EXCEPT ![f] = events]
  /\ due' = [due EXCEPT ![f] = deadline]
  /\ lapsed' = [lapsed EXCEPT ![f] = Lapses(f, n)]

\* read_async, accept_async and recv on descriptor n, which the program has open.
Read(f, n) ==
  /\ Begins(f, "read") /\ n \in Held
  /\ op' = [op EXCEPT ![f] = "read"] /\ wfd' = [wfd EXCEPT ![f] = n]
  /\ UNCHANGED <<kernel, remote, spc, batch, at, wev, due, lapsed, cancelled, aio, disturbed>>

\* The system call has something, the end of the stream or an error to return;
\* what was readable may be read up.
ReadReturns(f) ==
  /\ at[f] = "running" /\ op[f] = "read"
  /\ wfd[f] \in open => ready[wfd[f]] \cap {"in", "hup"} # {}
  /\ op' = [op EXCEPT ![f] = "body"] /\ wfd' = [wfd EXCEPT ![f] = None]
  /\ \/ UNCHANGED <<ready, disturbed>>
     \/ /\ ready' = [ready EXCEPT ![wfd[f]] = @ \ {"in"}]
        /\ disturbed' = [g \in Fibers |-> disturbed[g] \/ (op[g] = "file" /\ wfd[g] = wfd[f])]
  /\ UNCHANGED <<open, interest, remote, spc, batch, at, wev, due, lapsed, cancelled, inputs, aio>>

\* EAGAIN: wait, and try again.
ReadWaits(f) ==
  /\ at[f] = "running" /\ op[f] = "read"
  /\ wfd[f] \in open /\ ready[wfd[f]] \cap {"in", "hup"} = {}
  /\ SwitchOut(f, wfd[f], {"in"}, "never")
  /\ UNCHANGED <<kernel, remote, batch, op, cancelled, inputs, aio, disturbed>>

\* wait_fd for events, with a timeout or without; the body goes on when it returns.
WaitFd(f, n, events, deadline) ==
  /\ Begins(f, "wait") /\ n \in Held
  /\ op' = [op EXCEPT ![f] = "wait"]
  /\ SwitchOut(f, n, events, deadline)
  /\ UNCHANGED <<kernel, remote, batch, cancelled, aio, disturbed>>

WaitReturns(f) ==
  /\ at[f] = "running" /\ op[f] = "wait"
  /\ op' = [op EXCEPT ![f] = "body"] /\ wfd' = [wfd EXCEPT ![f] = None]
  /\ UNCHANGED <<kernel, remote, spc, batch, at, wev, due, lapsed, cancelled, inputs, aio, disturbed>>

\* The schedulers close_fd sends a request to; a mistake leaves them out.
NoTargets(s) == {}
Targets(s) == Scheds \ {s}

\* close(2): the number is free and every registration gone.
Closes(n) ==
  /\ open' = open \ {n} /\ ready' = [ready EXCEPT ![n] = {}]
  /\ interest' = [s \in Scheds |-> [interest[s] EXCEPT ![n] = {}]]

\* close_fd: those on the caller's list are woken, a request goes to every other
\* scheduler, the registration is dropped; then the descriptor is closed.  A
\* program closes a descriptor once.
CloseFd(f, n) ==
  LET s == Home[f]
      woken == {g \in Waiting(s) : wfd[g] = n}
  IN /\ Begins(f, "close") /\ n \in Held /\ \A g \in Fibers : op[g] = "close" => wfd[g] # n
     /\ at' = Woken(woken) /\ Reset(woken)
     /\ inbox' = [o \in Scheds |-> IF o \in Targets(s) THEN inbox[o] \cup {n} ELSE inbox[o]]
     /\ rung' = [o \in Scheds |-> rung[o] \/ o \in Targets(s)]
     /\ interest' = [interest EXCEPT ![s][n] = {}]
     /\ op' = [op EXCEPT ![f] = "close"] /\ wfd' = [wfd EXCEPT ![f] = n]
     /\ UNCHANGED <<open, ready, cancels, spc, batch, lapsed, cancelled, aio, disturbed>>

CloseFdEnds(f) ==
  /\ at[f] = "running" /\ op[f] = "close"
  /\ Closes(wfd[f])
  /\ op' = [op EXCEPT ![f] = "body"] /\ wfd' = [wfd EXCEPT ![f] = None]
  /\ UNCHANGED <<remote, spc, batch, at, wev, due, lapsed, cancelled, inputs, aio, disturbed>>

\* socket, accept or pipe gives out a number that was closed.
Reopen(f, n) ==
  /\ Begins(f, "open") /\ n \in Fds \ open
  /\ open' = open \cup {n}
  /\ UNCHANGED <<ready, interest, remote, spc, batch, at, op, waits, cancelled, aio, disturbed>>

\* cancel of a fiber that is not over: its own scheduler's thread looks at once,
\* another posts a request.
Cancel(f, g) ==
  LET s == Home[f]
      freed == IF Home[g] = s THEN Freeable({g}, Waiting(s)) ELSE {}
  IN /\ Begins(f, "cancel") /\ g # f /\ ~cancelled[g] /\ at[g] # "ended"
     /\ cancelled' = [cancelled EXCEPT ![g] = TRUE]
     /\ at' = [h \in Fibers |-> IF h \in freed THEN "freed" ELSE at[h]]
     /\ interest' = Rearmed(s, {wfd[h] : h \in freed}, Waiting(s) \ freed)
     /\ IF Home[g] = s THEN UNCHANGED remote
        ELSE /\ cancels' = [cancels EXCEPT ![Home[g]] = @ \cup {g}]
             /\ rung' = [rung EXCEPT ![Home[g]] = TRUE]
             /\ UNCHANGED inbox
     /\ UNCHANGED <<open, ready, spc, batch, op, waits, aio, disturbed>>

\* yield_now goes back to the ready queue, the end of the body frees the stack.
Yield(f) ==
  /\ Begins(f, "yield") /\ Moves(Home[f], "fiber", "top")
  /\ at' = [at EXCEPT ![f] = "ready"]
  /\ UNCHANGED <<kernel, remote, batch, op, waits, cancelled, aio, disturbed>>
End(f) ==
  /\ at[f] = "running" /\ op[f] = "body" /\ Moves(Home[f], "fiber", "top")
  /\ at' = [at EXCEPT ![f] = "ended"]
  /\ UNCHANGED <<kernel, remote, batch, op, waits, cancelled, inputs, aio, disturbed>>

-----------------------------------------------------------------------------
(***************************************************************************)
(* A file operation: a helper thread reads into, or writes from, a buffer  *)
(* of the fiber's and signals an eventfd the fiber waits on.               *)
(***************************************************************************)
FileOp(f, n) ==
  /\ Begins(f, "file") /\ helper[f] = "none" /\ n \in Fds \ open
  /\ open' = open \cup {n} /\ ready' = [ready EXCEPT ![n] = {}]
  /\ helper' = [helper EXCEPT ![f] = "works"] /\ refs' = [refs EXCEPT ![f] = 2]
  /\ inflight' = [inflight EXCEPT ![f] = TRUE]
  /\ op' = [op EXCEPT ![f] = "file"] /\ wfd' = [wfd EXCEPT ![f] = n]
  /\ disturbed' = [disturbed EXCEPT ![f] = FALSE]
  /\ UNCHANGED <<interest, remote, spc, batch, at, wev, due, lapsed, cancelled>>

\* The eventfd or the helper thread could not be had.
FileOpFails(f) ==
  /\ Begins(f, "file")
  /\ UNCHANGED <<kernel, remote, spc, batch, at, op, waits, cancelled, aio, disturbed>>

FileOpWaits(f) ==
  /\ at[f] = "running" /\ op[f] = "file" /\ "in" \notin ready[wfd[f]]
  /\ SwitchOut(f, wfd[f], {"in"}, "never")
  /\ UNCHANGED <<kernel, remote, batch, op, cancelled, inputs, aio, disturbed>>

FileOpReturns(f) ==
  /\ at[f] = "running" /\ op[f] = "file" /\ "in" \in ready[wfd[f]]
  /\ Closes(wfd[f])
  /\ inflight' = [inflight EXCEPT ![f] = FALSE] /\ refs' = [refs EXCEPT ![f] = @ - 1]
  /\ op' = [op EXCEPT ![f] = "body"] /\ wfd' = [wfd EXCEPT ![f] = None]
  /\ UNCHANGED <<remote, spc, batch, at, wev, due, lapsed, cancelled, inputs, helper, disturbed>>

HelperWorks(f) ==
  /\ helper[f] = "works" /\ helper' = [helper EXCEPT ![f] = "signals"]
  /\ UNCHANGED <<kernel, remote, spc, batch, at, op, waits, cancelled, inputs, inflight, refs, disturbed>>

HelperSignals(f) ==
  /\ helper[f] = "signals" /\ helper' = [helper EXCEPT ![f] = "leaves"]
  /\ ready' = [ready EXCEPT ![wfd[f]] = {"in"}]
  /\ UNCHANGED <<open, interest, remote, spc, batch, at, op, waits, cancelled, inputs, inflight, refs, disturbed>>

HelperLeaves(f) ==
  /\ helper[f] = "leaves" /\ helper' = [helper EXCEPT ![f] = "none"]
  /\ refs' = [refs EXCEPT ![f] = @ - 1]
  /\ UNCHANGED <<kernel, remote, spc, batch, at, op, waits, cancelled, inputs, inflight, disturbed>>

-----------------------------------------------------------------------------
\* Bytes arrive, room is made, a peer hangs up.
Happens(n, c) ==
  /\ Another /\ n \in Held /\ c \notin ready[n]
  /\ ready' = [ready EXCEPT ![n] = @ \cup {c}]
  /\ UNCHANGED <<open, interest, remote, spc, batch, at, op, waits, cancelled, aio, disturbed>>

Expires(f) ==
  /\ due[f] = "later" /\ due' = [due EXCEPT ![f] = "over"]
  /\ UNCHANGED <<kernel, remote, spc, batch, at, op, wfd, wev, lapsed, cancelled, inputs, aio, disturbed>>

Loop(s) ==
  DrainPipe(s) \/ DrainInbox(s) \/ Idle(s) \/ EpollReturns(s) \/ Walk(s)
Dispatch(s) == \E f \in Fibers : Home[f] = s /\ (Resume(f) \/ Reap(f) \/ Finalize(f))

Call(f) ==
  \/ \E n \in Fds : Read(f, n) \/ CloseFd(f, n) \/ Reopen(f, n) \/ FileOp(f, n)
  \/ \E n \in Fds, e \in Events, d \in {"never", "later"} : WaitFd(f, n, {e}, d)
  \/ \E g \in Fibers : Cancel(f, g)
  \/ Yield(f) \/ FileOpFails(f)
Return(f) ==
  ReadReturns(f) \/ ReadWaits(f) \/ WaitReturns(f) \/ CloseFdEnds(f)
    \/ FileOpReturns(f) \/ FileOpWaits(f) \/ End(f)
Helper(f) == HelperWorks(f) \/ HelperSignals(f) \/ HelperLeaves(f)

Next ==
  \/ \E s \in Scheds : Loop(s) \/ Dispatch(s)
  \/ \E f \in Fibers : Call(f) \/ Return(f) \/ Helper(f) \/ Expires(f)
  \/ \E n \in Fds, c \in Conditions : Happens(n, c)

\* The kernel lets epoll_wait return, helper threads run, time passes.  No
\* scheduler has to be driven and no body comes to its next call: a lone scheduler
\* runs only while its anchor is in the loop, and one whose fibers yield all the
\* time never polls.
Fairness ==
  /\ \A s \in Scheds : WF_vars(EpollReturns(s))
  /\ \A f \in Fibers : WF_vars(Helper(f)) /\ WF_vars(Expires(f))

Spec == Init /\ [][Next]_vars /\ Fairness

-----------------------------------------------------------------------------
(***************************************************************************)
(* Properties                                                              *)
(***************************************************************************)
\* Nobody waits in vain (__maka_fd_recompute, __maka_close_fd, the drain):
\* whatever was closed, given out again, cancelled or timed out meanwhile, by
\* whatever thread, the kernel is registered for what a waiting fiber waits
\* for, or its deadline or a request that wakes it is still to come.  Only one
\* who went to wait for a number that had lapsed may be stranded.
NoWaiterStranded ==
  \A f \in Fibers : at[f] = "waiting" /\ ~lapsed[f] =>
    LET s == Home[f] IN
      \/ wfd[f] \in open /\ wev[f] \subseteq interest[s][wfd[f]]
      \/ wfd[f] \in inbox[s]
      \/ due[f] # "never"

\* The stack a helper thread works on is not freed before it is done, however
\* the fiber is cancelled, woken and reaped, and the record it drops its
\* reference of is still there (__maka_cancel_fiber_local, __maka_aio_worker),
\* but for a fiber that was disturbed.  Every variable has its type.
HelperHasItsBuffer ==
  /\ TypeOK
  /\ \A f \in Fibers :
       /\ helper[f] = "works" => at[f] # "freed" \/ disturbed[f]
       /\ helper[f] # "none" => refs[f] > 0

\* The fibers whose bodies wait at all.
Waiters == {f \in Fibers : May[f] \cap {"read", "wait", "file"} # {}}

\* Every wait ends when its descriptor is closed or hung up or its deadline
\* comes, and every file operation's wait ends, for one whose scheduler polls
\* again and again and whose number has not lapsed nor been disturbed
\* (__maka_sched_loop, __maka_close_fd, __maka_aio_worker).
Released(f) ==
  \/ wfd[f] \notin open \/ due[f] # "never"
  \/ "hup" \in ready[wfd[f]]
  \/ op[f] = "file"
Excepted(f) == lapsed[f] \/ (op[f] = "file" /\ disturbed[f])
Polls(f) == spc[Home[f]] = "poll" \/ at[f] # "waiting"
WaitersReturn ==
  \A f \in Waiters :
    []<>Polls(f) =>
      ((at[f] = "waiting" /\ Released(f) /\ ~Excepted(f)) ~> (at[f] # "waiting" \/ Excepted(f)))

\* close_fd wakes every fiber that waits for the descriptor, on whatever scheduler
\* (the comment above __maka_close_fd): nobody waits for a closed one with neither
\* a request nor a deadline to come.
ClosedWakesAll ==
  \A f \in Fibers : at[f] = "waiting" /\ wfd[f] \notin open =>
    wfd[f] \in inbox[Home[f]] \/ due[f] # "never"

\* A fiber whose helper thread is at work is left where it is until the helper has
\* signalled (the comment in __maka_cancel_fiber_local), so its stack is there.
LeftWhereItIs == \A f \in Fibers : helper[f] = "works" => at[f] # "freed"
=============================================================================
