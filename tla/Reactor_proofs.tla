-------------------------- MODULE Reactor_proofs --------------------------
(***************************************************************************)
(* Proofs about Reactor for any number of fibers, schedulers and           *)
(* descriptors: the buffer of a file operation outlives its helper thread, *)
(* and nobody who waits for a descriptor is stranded.                      *)
(***************************************************************************)
EXTENDS Reactor, TLAPS

\* Those who will close a descriptor: close_fd, and a file operation its eventfd.
Owns(f) == op[f] \in {"close", "file"}

\* What waiting_fd holds in a call; one who will close a descriptor finds it open.
NumbersKnown ==
  \A f \in Fibers :
    /\ op[f] \in {"read", "wait", "close", "file"} => wfd[f] \in Fds
    /\ Owns(f) => wfd[f] \in open

\* At most one fiber of a scheduler runs or has just been switched out.
Busy(f) == at[f] \in {"running", "switched"}
OneRuns ==
  /\ \A f \in Fibers : /\ at[f] = "running" => spc[Home[f]] = "fiber"
                       /\ at[f] = "switched" => spc[Home[f]] = "switched"
  /\ \A f, g \in Fibers : Busy(f) /\ Busy(g) /\ Home[f] = Home[g] => f = g

\* There is a batch from the return of epoll_wait to the walk.
BatchKnown ==
  \A s \in Scheds : spc[s] # "walk" => \A n \in Fds : batch[s][n] = {}

\* No two of them have the same.
OneOwner ==
  \A f, g \in Fibers : Owns(f) /\ Owns(g) /\ wfd[f] = wfd[g] => f = g

\* A deadline belongs to a wait that has not ended.
DeadlineKnown ==
  \A f \in Fibers : due[f] # "never" => op[f] = "wait" /\ at[f] \in {"switched", "waiting", "freed"}

\* What the flag and the refcount of a file operation say.
RecordKnown ==
  \A f \in Fibers :
    /\ inflight[f] <=> op[f] = "file"
    /\ refs[f] = (IF helper[f] = "none" THEN 0 ELSE 1) + (IF op[f] = "file" THEN 1 ELSE 0)

\* Until the helper has signalled, nothing but a request for an earlier use of its
\* number can wake its fiber.
HelperKnown ==
  \A f \in Fibers : helper[f] \in {"works", "signals"} =>
    /\ op[f] = "file"
    /\ disturbed[f] \/ at[f] \in {"running", "switched", "waiting"}
    /\ ready[wfd[f]] = {}
    /\ batch[Home[f]][wfd[f]] = {}

IInv ==
  /\ TypeOK /\ NumbersKnown /\ OneRuns /\ BatchKnown /\ OneOwner /\ DeadlineKnown
  /\ RecordKnown /\ HelperKnown

-----------------------------------------------------------------------------
(***************************************************************************)
(* Types, and what a fiber's call says of its descriptor.                  *)
(***************************************************************************)
LEMMA RearmedType ==
  ASSUME TypeOK, NEW s \in Scheds, NEW N, NEW W \in SUBSET Fibers
  PROVE  Rearmed(s, N, W) \in [Scheds -> [Fds -> SUBSET Events]]
<1>1. \A n \in Fds : Mask(n, W) \in SUBSET Events
  BY DEF Mask, TypeOK
<1>2. \A n \in Fds : Set(n, interest[s][n], Mask(n, W)) \in SUBSET Events
  BY <1>1 DEF Set
<1>3. [n \in Fds |-> IF n \in N THEN Set(n, interest[s][n], Mask(n, W)) ELSE interest[s][n]]
        \in [Fds -> SUBSET Events]
  BY <1>2 DEF TypeOK
<1> QED
  BY <1>3 DEF Rearmed, TypeOK

LEMMA WaitingType == \A s \in Scheds : Waiting(s) \in SUBSET Fibers
BY DEF Waiting

LEMMA InitTyped == Init => TypeOK
BY InputsAssumption DEF Init, TypeOK, kernel, remote, waits, aio

LEMMA LapsesType == \A f \in Fibers, n \in Fds : Lapses(f, n) \in BOOLEAN
BY DEF Lapses

LEMMA NextTyped == TypeOK /\ RecordKnown /\ NumbersKnown /\ [Next]_vars => TypeOK'
<1> SUFFICES ASSUME TypeOK, RecordKnown, NumbersKnown, [Next]_vars PROVE TypeOK'
  OBVIOUS
<1> USE HomeAssumption
<1>1. ASSUME NEW s \in Scheds, Loop(s) PROVE TypeOK'
  <2> USE WaitingType
  <2>1. CASE DrainPipe(s)
    BY <2>1 DEF DrainPipe, Moves, TypeOK, kernel, waits, aio
  <2>2. CASE DrainInbox(s)
    <3> DEFINE closed == {f \in Waiting(s) : wfd[f] \in inbox[s]}
               freed == Freeable(cancels[s], Waiting(s) \ closed)
               left == Waiting(s) \ (closed \cup freed)
    <3>1. left \in SUBSET Fibers /\ closed \in SUBSET Fibers
      OBVIOUS
    <3>2. interest' = Rearmed(s, inbox[s] \cup {wfd[f] : f \in freed}, left)
      BY <2>2 DEF DrainInbox
    <3>3. interest' \in [Scheds -> [Fds -> SUBSET Events]]
      BY <3>1, <3>2, RearmedType
    <3>4. at' \in [Fibers -> {"ready", "running", "switched", "waiting", "ended", "freed"}]
      BY <2>2 DEF DrainInbox, Woken, TypeOK
    <3> QED
      BY <2>2, <3>3, <3>4 DEF DrainInbox, Moves, Reset, TypeOK, aio
  <2>3. CASE Idle(s)
    BY <2>3 DEF Idle, Moves, TypeOK, kernel, remote, waits, aio
  <2>4. CASE EpollReturns(s)
    <3>1. \A n \in Fds : Reported(s, n) \in SUBSET Conditions
      BY DEF Reported, TypeOK
    <3> QED
      BY <2>4, <3>1 DEF EpollReturns, Moves, TypeOK, kernel, remote, waits, aio
  <2>5. CASE Walk(s)
    <3> DEFINE told == {f \in Waiting(s) : Concerns(s, f)}
               late == {f \in Waiting(s) \ told : due[f] = "over"}
    <3>1. Waiting(s) \ (told \cup late) \in SUBSET Fibers
      OBVIOUS
    <3>2. interest' = Rearmed(s, {n \in Fds : batch[s][n] # {}} \cup {wfd[f] : f \in late},
                              Waiting(s) \ (told \cup late))
      BY <2>5 DEF Walk
    <3>3. interest' \in [Scheds -> [Fds -> SUBSET Events]]
      BY <3>1, <3>2, RearmedType
    <3> QED
      BY <2>5, <3>3 DEF Walk, Woken, Moves, Reset, TypeOK, remote, aio
  <2> QED BY <1>1, <2>1, <2>2, <2>3, <2>4, <2>5 DEF Loop
<1>2. ASSUME NEW f \in Fibers, Resume(f) \/ Reap(f) \/ Finalize(f) PROVE TypeOK'
  <2>1. CASE Resume(f)
    BY <2>1 DEF Resume, Moves, TypeOK, kernel, remote, waits, aio
  <2>2. CASE Reap(f)
    BY <2>2 DEF Reap, TypeOK, kernel, remote, waits, aio
  <2>3. CASE Finalize(f)
    <3>1. interest' \in [Scheds -> [Fds -> SUBSET Events]]
      BY <2>3, RearmedType, WaitingType DEF Finalize
    <3> QED
      BY <2>3, <3>1 DEF Finalize, Moves, TypeOK, remote, waits, aio
  <2> QED BY <1>2, <2>1, <2>2, <2>3
<1>3. ASSUME NEW f \in Fibers, Call(f) PROVE TypeOK'
  <2>0. Another => inputs' \in 0 .. Inputs
    BY InputsAssumption DEF Another, TypeOK
  <2>1. ASSUME NEW n \in Fds, Read(f, n) PROVE TypeOK'
    BY <2>0, <2>1 DEF Read, Begins, TypeOK, kernel, remote, aio
  <2>2. ASSUME NEW n \in Fds, CloseFd(f, n) PROVE TypeOK'
    <3>1. inbox' \in [Scheds -> SUBSET Fds]
      BY <2>2 DEF CloseFd, TypeOK
    <3>2. interest' \in [Scheds -> [Fds -> SUBSET Events]]
      BY <2>2 DEF CloseFd, TypeOK
    <3> QED
      BY <2>0, <2>2, <3>1, <3>2 DEF CloseFd, Begins, Woken, Reset, TypeOK, aio
  <2>3. ASSUME NEW n \in Fds, Reopen(f, n) PROVE TypeOK'
    BY <2>0, <2>3 DEF Reopen, Begins, TypeOK, remote, waits, aio
  <2>4. ASSUME NEW n \in Fds, NEW e \in Events, NEW d \in {"never", "later"}, WaitFd(f, n, {e}, d)
        PROVE  TypeOK'
    <3>1. lapsed' \in [Fibers -> BOOLEAN]
      BY <2>4, LapsesType DEF WaitFd, SwitchOut, TypeOK
    <3> QED
      BY <2>0, <2>4, <3>1 DEF WaitFd, Begins, SwitchOut, Moves, TypeOK, kernel, remote, aio
  <2>5. ASSUME NEW g \in Fibers, Cancel(f, g) PROVE TypeOK'
    <3>1. Waiting(Home[f]) \ (IF Home[g] = Home[f] THEN Freeable({g}, Waiting(Home[f])) ELSE {})
            \in SUBSET Fibers
      BY WaitingType
    <3>2. interest' \in [Scheds -> [Fds -> SUBSET Events]]
      BY <2>5, <3>1, RearmedType DEF Cancel
    <3>3. inbox' = inbox /\ cancels' \in [Scheds -> SUBSET Fibers] /\ rung' \in [Scheds -> BOOLEAN]
      <4>1. CASE Home[g] = Home[f]
        BY <2>5, <4>1 DEF Cancel, TypeOK, remote
      <4>2. CASE Home[g] # Home[f]
        <5>1. /\ inbox' = inbox /\ cancels' = [cancels EXCEPT ![Home[g]] = @ \cup {g}]
              /\ rung' = [rung EXCEPT ![Home[g]] = TRUE]
          BY <2>5, <4>2 DEF Cancel
        <5> QED BY <5>1 DEF TypeOK
      <4> QED BY <4>1, <4>2
    <3> QED
      BY <2>0, <2>5, <3>2, <3>3 DEF Cancel, Begins, TypeOK, waits, aio
  <2>6. CASE Yield(f)
    BY <2>0, <2>6 DEF Yield, Begins, Moves, TypeOK, kernel, remote, waits, aio
  <2>7. CASE FileOpFails(f)
    BY <2>0, <2>7 DEF FileOpFails, Begins, TypeOK, kernel, remote, waits, aio
  <2>8. ASSUME NEW n \in Fds, FileOp(f, n) PROVE TypeOK'
    <3>1. /\ refs' \in [Fibers -> 0 .. 2]
          /\ helper' \in [Fibers -> {"none", "works", "signals", "leaves"}]
      BY <2>8 DEF FileOp, TypeOK
    <3> QED
      BY <2>0, <2>8, <3>1 DEF FileOp, Begins, TypeOK, remote
  <2> QED BY <1>3, <2>1, <2>2, <2>3, <2>4, <2>5, <2>6, <2>7, <2>8 DEF Call
<1>4. ASSUME NEW f \in Fibers, Return(f) PROVE TypeOK'
  <2>1. CASE ReadReturns(f)
    BY <1>4, <2>1 DEF ReadReturns, NumbersKnown, TypeOK, remote, aio
  <2>2. CASE ReadWaits(f)
    <3>1. lapsed' \in [Fibers -> BOOLEAN]
      BY <2>2, LapsesType DEF ReadWaits, SwitchOut, NumbersKnown, TypeOK
    <3> QED
      BY <2>2, <3>1 DEF ReadWaits, SwitchOut, Moves, TypeOK, Events, kernel, remote, aio
  <2>3. CASE WaitReturns(f)
    BY <2>3 DEF WaitReturns, TypeOK, kernel, remote, aio
  <2>4. CASE CloseFdEnds(f)
    BY <2>4 DEF CloseFdEnds, Closes, TypeOK, remote, aio
  <2>5. CASE FileOpReturns(f)
    <3>1. refs[f] \in {0 + 1, 1 + 1}
      BY <2>5 DEF FileOpReturns, RecordKnown
    <3>2. refs[f] - 1 \in 0 .. 2
      BY <3>1
    <3>3. refs' \in [Fibers -> 0 .. 2]
      BY <2>5, <3>2 DEF FileOpReturns, TypeOK
    <3> QED
      BY <2>5, <3>3 DEF FileOpReturns, Closes, TypeOK, remote
  <2>6. CASE FileOpWaits(f)
    <3>1. lapsed' \in [Fibers -> BOOLEAN]
      BY <2>6, LapsesType DEF FileOpWaits, SwitchOut, NumbersKnown, TypeOK
    <3> QED
      BY <2>6, <3>1 DEF FileOpWaits, SwitchOut, Moves, TypeOK, Events, kernel, remote, aio
  <2>7. CASE End(f)
    BY <2>7 DEF End, Moves, TypeOK, kernel, remote, waits, aio
  <2> QED BY <1>4, <2>1, <2>2, <2>3, <2>4, <2>5, <2>6, <2>7 DEF Return
<1>5. ASSUME NEW f \in Fibers, Helper(f) PROVE TypeOK'
  <2>1. CASE HelperWorks(f)
    BY <2>1 DEF HelperWorks, TypeOK, kernel, remote, waits
  <2>2. CASE HelperSignals(f)
    BY <2>2 DEF HelperSignals, Conditions, Events, TypeOK, remote, waits
  <2>3. CASE HelperLeaves(f)
    <3>1. refs[f] \in {1 + 0, 1 + 1}
      BY <2>3 DEF HelperLeaves, RecordKnown
    <3>2. refs[f] - 1 \in 0 .. 2
      BY <3>1
    <3> QED
      BY <2>3, <3>2 DEF HelperLeaves, TypeOK, kernel, remote, waits
  <2> QED BY <1>5, <2>1, <2>2, <2>3 DEF Helper
<1>6. ASSUME NEW f \in Fibers, Expires(f) PROVE TypeOK'
  BY <1>6 DEF Expires, TypeOK, kernel, remote, aio
<1>7. ASSUME NEW n \in Fds, NEW c \in Conditions, Happens(n, c) PROVE TypeOK'
  <2>1. inputs' \in 0 .. Inputs
    BY <1>7, InputsAssumption DEF Happens, Another, TypeOK
  <2> QED
    BY <1>7, <2>1 DEF Happens, TypeOK, remote, waits, aio
<1>8. CASE UNCHANGED vars
  BY <1>8 DEF TypeOK, vars, kernel, remote, waits, aio
<1> QED BY <1>1, <1>2, <1>3, <1>4, <1>5, <1>6, <1>7, <1>8 DEF Next, Dispatch

-----------------------------------------------------------------------------
(***************************************************************************)
(* What the steps leave alone.                                             *)
(***************************************************************************)
Numbers == <<open, op, wfd>>

\* The loop and the dispatch of fibers change no call.
LEMMA LoopLeavesCalls ==
  ASSUME NEW s \in Scheds, Loop(s) \/ Dispatch(s)
  PROVE  UNCHANGED <<Numbers, aio, ready>>
BY DEF Loop, Dispatch, DrainPipe, DrainInbox, Idle, EpollReturns, Walk, Resume, Reap, Finalize,
       kernel, waits, aio, Numbers

\* Neither do helper threads, time and the peers.
LEMMA OutsideLeavesCalls ==
  ASSUME \/ \E f \in Fibers : Helper(f) \/ Expires(f)
         \/ \E n \in Fds, c \in Conditions : Happens(n, c)
  PROVE  UNCHANGED <<Numbers, interest, remote, spc, batch, at, wev>>
BY DEF Helper, HelperWorks, HelperSignals, HelperLeaves, Expires, Happens, kernel, waits, Numbers

\* Those that make or end a call.
LEMMA StepCases ==
  ASSUME [Next]_vars
  PROVE  \/ \E s \in Scheds : Loop(s) \/ Dispatch(s)
         \/ \E f \in Fibers : Call(f) \/ Return(f)
         \/ \E f \in Fibers : Helper(f) \/ Expires(f)
         \/ \E n \in Fds, c \in Conditions : Happens(n, c)
         \/ UNCHANGED vars
BY DEF Next

-----------------------------------------------------------------------------
(***************************************************************************)
(* The parts of the invariant, one by one.                                 *)
(***************************************************************************)
LEMMA NumbersNext == IInv /\ [Next]_vars => NumbersKnown'
<1> SUFFICES ASSUME IInv, [Next]_vars PROVE NumbersKnown'
  OBVIOUS
<1> USE DEF IInv
<1>1. CASE UNCHANGED Numbers
  BY <1>1 DEF Owns, NumbersKnown, Numbers
<1>2. ASSUME NEW f \in Fibers, Call(f) PROVE NumbersKnown'
  <2>1. ASSUME NEW n \in Fds, Read(f, n) PROVE NumbersKnown'
    BY <2>1 DEF Read, Owns, NumbersKnown, TypeOK, kernel
  <2>2. ASSUME NEW n \in Fds, CloseFd(f, n) PROVE NumbersKnown'
    BY <2>2 DEF CloseFd, Held, Owns, NumbersKnown, TypeOK
  <2>3. ASSUME NEW n \in Fds, Reopen(f, n) PROVE NumbersKnown'
    BY <2>3 DEF Reopen, Owns, NumbersKnown, waits
  <2>4. ASSUME NEW n \in Fds, NEW e \in Events, NEW d \in {"never", "later"}, WaitFd(f, n, {e}, d)
        PROVE  NumbersKnown'
    BY <2>4 DEF WaitFd, SwitchOut, Owns, NumbersKnown, TypeOK, kernel
  <2>5. ASSUME NEW g \in Fibers, Cancel(f, g) PROVE UNCHANGED Numbers
    BY <2>5 DEF Cancel, Numbers, waits
  <2>6. CASE Yield(f) \/ FileOpFails(f)
    BY <2>6, <1>1 DEF Yield, FileOpFails, Numbers, waits, kernel
  <2>7. ASSUME NEW n \in Fds, FileOp(f, n) PROVE NumbersKnown'
    BY <2>7 DEF FileOp, Owns, NumbersKnown, TypeOK
  <2> QED BY <1>1, <1>2, <2>1, <2>2, <2>3, <2>4, <2>5, <2>6, <2>7 DEF Call
<1>3. ASSUME NEW f \in Fibers, Return(f) PROVE NumbersKnown'
  <2>1. CASE ReadReturns(f)
    BY <2>1 DEF ReadReturns, Owns, NumbersKnown, TypeOK
  <2>2. CASE ReadWaits(f)
    BY <2>2 DEF ReadWaits, SwitchOut, Owns, NumbersKnown, TypeOK, kernel
  <2>3. CASE WaitReturns(f)
    BY <2>3 DEF WaitReturns, Owns, NumbersKnown, TypeOK, kernel
  <2>4. CASE CloseFdEnds(f)
    BY <2>4 DEF CloseFdEnds, Closes, Owns, NumbersKnown, OneOwner, TypeOK
  <2>5. CASE FileOpReturns(f)
    BY <2>5 DEF FileOpReturns, Closes, Owns, NumbersKnown, OneOwner, TypeOK
  <2>6. CASE FileOpWaits(f)
    BY <2>6 DEF FileOpWaits, SwitchOut, Owns, NumbersKnown, TypeOK, kernel
  <2>7. CASE End(f)
    BY <2>7, <1>1 DEF End, Numbers, waits, kernel
  <2> QED BY <1>3, <2>1, <2>2, <2>3, <2>4, <2>5, <2>6, <2>7 DEF Return
<1>4. UNCHANGED vars => UNCHANGED Numbers
  BY DEF vars, kernel, waits, Numbers
<1> QED BY <1>1, <1>2, <1>3, <1>4, StepCases, LoopLeavesCalls, OutsideLeavesCalls

LEMMA OneOwnerNext == IInv /\ [Next]_vars => OneOwner'
<1> SUFFICES ASSUME IInv, [Next]_vars PROVE OneOwner'
  OBVIOUS
<1> USE DEF IInv
<1>1. CASE UNCHANGED <<op, wfd>>
  BY <1>1 DEF Owns, OneOwner
<1>0. ASSUME NEW f \in Fibers, \A g \in Fibers : g # f => op'[g] = op[g] /\ wfd'[g] = wfd[g],
             Owns(f)' => Owns(f) /\ wfd'[f] = wfd[f]
      PROVE  OneOwner'
  BY <1>0 DEF Owns, OneOwner
<1>2. ASSUME NEW f \in Fibers, Call(f) PROVE OneOwner'
  <2>1. ASSUME NEW n \in Fds, Read(f, n) PROVE OneOwner'
    BY <1>0, <2>1 DEF Read, Owns, TypeOK
  <2>2. ASSUME NEW n \in Fds, CloseFd(f, n) PROVE OneOwner'
    BY <2>2 DEF CloseFd, Held, Owns, OneOwner, TypeOK
  <2>3. ASSUME NEW n \in Fds, Reopen(f, n) PROVE OneOwner'
    BY <1>1, <2>3 DEF Reopen, waits
  <2>4. ASSUME NEW n \in Fds, NEW e \in Events, NEW d \in {"never", "later"}, WaitFd(f, n, {e}, d)
        PROVE  OneOwner'
    BY <1>0, <2>4 DEF WaitFd, SwitchOut, Owns, TypeOK
  <2>5. ASSUME NEW g \in Fibers, Cancel(f, g) PROVE OneOwner'
    BY <1>1, <2>5 DEF Cancel, waits
  <2>6. CASE Yield(f) \/ FileOpFails(f)
    BY <2>6, <1>1 DEF Yield, FileOpFails, waits
  <2>7. ASSUME NEW n \in Fds, FileOp(f, n) PROVE OneOwner'
    BY <2>7 DEF FileOp, Owns, OneOwner, NumbersKnown, TypeOK
  <2> QED BY <1>2, <2>1, <2>2, <2>3, <2>4, <2>5, <2>6, <2>7 DEF Call
<1>3. ASSUME NEW f \in Fibers, Return(f) PROVE OneOwner'
  <2>1. CASE ReadReturns(f) \/ WaitReturns(f) \/ CloseFdEnds(f) \/ FileOpReturns(f)
    BY <1>0, <2>1 DEF ReadReturns, WaitReturns, CloseFdEnds, FileOpReturns, Owns, TypeOK
  <2>2. CASE ReadWaits(f) \/ FileOpWaits(f)
    BY <1>0, <2>2 DEF ReadWaits, FileOpWaits, SwitchOut, Owns, TypeOK
  <2>3. CASE End(f)
    BY <2>3, <1>1 DEF End, waits
  <2> QED BY <1>3, <2>1, <2>2, <2>3 DEF Return
<1>4. UNCHANGED vars \/ UNCHANGED Numbers => UNCHANGED <<op, wfd>>
  BY DEF vars, waits, Numbers
<1> QED BY <1>1, <1>2, <1>3, <1>4, StepCases, LoopLeavesCalls, OutsideLeavesCalls

\* A step that makes no fiber busy and moves no scheduler keeps OneRuns; so does one
\* that lets a busy fiber and its scheduler go from one place to another.
LEMMA NoneGetsBusy ==
  ASSUME OneRuns, \A g \in Fibers : Busy(g)' => at'[g] = at[g] /\ spc'[Home[g]] = spc[Home[g]]
  PROVE  OneRuns'
BY DEF OneRuns, Busy

LEMMA BusyMoves ==
  ASSUME TypeOK, OneRuns, NEW f \in Fibers, Busy(f), NEW x, NEW y,
         at' = [at EXCEPT ![f] = x], spc' = [spc EXCEPT ![Home[f]] = y],
         x = "running" => y = "fiber", x = "switched" => y = "switched"
  PROVE  OneRuns'
<1>1. \A g \in Fibers : g # f => at'[g] = at[g]
  BY DEF TypeOK
<1>2. \A g \in Fibers : g # f /\ Busy(g) => Home[g] # Home[f]
  BY DEF OneRuns
<1>3. \A s \in Scheds : s # Home[f] => spc'[s] = spc[s]
  BY DEF TypeOK
<1>4. \A g \in Fibers : g # f /\ Busy(g)' =>
        Busy(g) /\ Home[g] # Home[f] /\ at'[g] = at[g] /\ spc'[Home[g]] = spc[Home[g]]
  BY <1>1, <1>2, <1>3, HomeAssumption DEF Busy
<1>5. at'[f] = x /\ spc'[Home[f]] = y
  BY HomeAssumption DEF TypeOK
<1>6. \A g \in Fibers :
        /\ at'[g] = "running" => spc'[Home[g]] = "fiber"
        /\ at'[g] = "switched" => spc'[Home[g]] = "switched"
  BY <1>4, <1>5 DEF OneRuns, Busy
<1>7. \A g, h \in Fibers : Busy(g)' /\ Busy(h)' /\ Home[g] = Home[h] => g = h
  BY <1>4 DEF OneRuns
<1>8. (\A g, h \in Fibers : Busy(g) /\ Busy(h) /\ Home[g] = Home[h] => g = h)'
  BY <1>7 DEF Busy
<1> QED
  BY <1>6, <1>8 DEF OneRuns

LEMMA OneRunsNext == IInv /\ [Next]_vars => OneRuns'
<1> SUFFICES ASSUME IInv, [Next]_vars PROVE OneRuns'
  OBVIOUS
<1> USE HomeAssumption DEF IInv
<1>1. CASE UNCHANGED <<at, spc>>
  BY <1>1, NoneGetsBusy
<1>2. ASSUME NEW s \in Scheds, Loop(s) PROVE OneRuns'
  <2>1. spc[s] \notin {"fiber", "switched"} /\ \A o \in Scheds : o # s => spc'[o] = spc[o]
    BY <1>2 DEF Loop, DrainPipe, DrainInbox, Idle, EpollReturns, Walk, Moves, TypeOK
  <2>2. \A g \in Fibers : Busy(g)' => at'[g] = at[g]
    <3>1. CASE DrainInbox(s)
      BY <3>1 DEF DrainInbox, Woken, Busy
    <3>2. CASE Walk(s)
      BY <3>2 DEF Walk, Woken, Busy
    <3> QED
      BY <1>2, <3>1, <3>2 DEF Loop, DrainPipe, Idle, EpollReturns
  <2>3. \A g \in Fibers : Busy(g)' => Home[g] # s
    BY <2>1, <2>2 DEF OneRuns, Busy
  <2> QED BY <2>1, <2>2, <2>3, NoneGetsBusy
<1>3. ASSUME NEW f \in Fibers, Resume(f) \/ Reap(f) \/ Finalize(f) PROVE OneRuns'
  <2>1. CASE Resume(f)
    <3>1. \A g \in Fibers : Busy(g) => Home[g] # Home[f]
      BY <2>1 DEF Resume, Moves, OneRuns, Busy
    <3> QED BY <2>1, <3>1 DEF Resume, Moves, OneRuns, Busy, TypeOK
  <2>2. CASE Reap(f)
    BY <2>2, NoneGetsBusy DEF Reap, Busy, TypeOK
  <2>3. CASE Finalize(f)
    BY <2>3, BusyMoves DEF Finalize, Moves, Busy
  <2> QED BY <1>3, <2>1, <2>2, <2>3
<1>4. ASSUME NEW f \in Fibers, Call(f) PROVE OneRuns'
  <2>1. ASSUME NEW n \in Fds, Read(f, n) \/ Reopen(f, n) PROVE OneRuns'
    BY <1>1, <2>1 DEF Read, Reopen
  <2>2. ASSUME NEW n \in Fds, CloseFd(f, n) PROVE OneRuns'
    BY <2>2, NoneGetsBusy DEF CloseFd, Woken, Busy
  <2>4. ASSUME NEW n \in Fds, NEW e \in Events, NEW d \in {"never", "later"}, WaitFd(f, n, {e}, d)
        PROVE  OneRuns'
    BY <2>4, BusyMoves DEF WaitFd, SwitchOut, Moves, Begins, Busy
  <2>5. ASSUME NEW g \in Fibers, Cancel(f, g) PROVE OneRuns'
    BY <2>5, NoneGetsBusy DEF Cancel, Busy
  <2>6. CASE Yield(f)
    BY <2>6, BusyMoves DEF Yield, Moves, Begins, Busy
  <2>7. CASE FileOpFails(f) \/ \E n \in Fds : FileOp(f, n)
    BY <1>1, <2>7 DEF FileOpFails, FileOp
  <2> QED BY <1>4, <2>1, <2>2, <2>4, <2>5, <2>6, <2>7 DEF Call
<1>5. ASSUME NEW f \in Fibers, Return(f) PROVE OneRuns'
  <2>1. CASE ReadReturns(f) \/ WaitReturns(f) \/ CloseFdEnds(f) \/ FileOpReturns(f)
    BY <1>1, <2>1 DEF ReadReturns, WaitReturns, CloseFdEnds, FileOpReturns
  <2>2. CASE ReadWaits(f) \/ FileOpWaits(f)
    <3>1. /\ at[f] = "running" /\ at' = [at EXCEPT ![f] = "switched"]
          /\ spc' = [spc EXCEPT ![Home[f]] = "switched"]
      BY <2>2 DEF ReadWaits, FileOpWaits, SwitchOut, Moves
    <3> QED BY <3>1, BusyMoves DEF Busy
  <2>3. CASE End(f)
    BY <2>3, BusyMoves DEF End, Moves, Busy
  <2> QED BY <1>5, <2>1, <2>2, <2>3 DEF Return
<1>6. UNCHANGED vars => UNCHANGED <<at, spc>>
  BY DEF vars
<1> QED BY <1>1, <1>2, <1>3, <1>4, <1>5, <1>6, StepCases, OutsideLeavesCalls DEF Dispatch

LEMMA BatchNext == IInv /\ [Next]_vars => BatchKnown'
<1> SUFFICES ASSUME IInv, [Next]_vars PROVE BatchKnown'
  OBVIOUS
<1> USE HomeAssumption DEF IInv
<1>1. ASSUME UNCHANGED batch, \A s \in Scheds : spc[s] = "walk" => spc'[s] = "walk"
      PROVE  BatchKnown'
  BY <1>1 DEF BatchKnown
<1>2. ASSUME NEW s \in Scheds, Loop(s) PROVE BatchKnown'
  <2>1. CASE EpollReturns(s)
    BY <2>1 DEF EpollReturns, Moves, BatchKnown, TypeOK
  <2>2. CASE Walk(s)
    BY <2>2 DEF Walk, Moves, BatchKnown, TypeOK
  <2>3. CASE DrainPipe(s) \/ DrainInbox(s) \/ Idle(s)
    BY <1>1, <2>3 DEF DrainPipe, DrainInbox, Idle, Moves, TypeOK
  <2> QED BY <1>2, <2>1, <2>2, <2>3 DEF Loop
<1>3. ASSUME NEW f \in Fibers, Resume(f) \/ Reap(f) \/ Finalize(f) PROVE BatchKnown'
  BY <1>1, <1>3 DEF Resume, Reap, Finalize, Moves, TypeOK
<1>4. ASSUME NEW f \in Fibers, Call(f) \/ Return(f) PROVE BatchKnown'
  <2>1. UNCHANGED batch
    BY <1>4 DEF Call, Read, CloseFd, Reopen, WaitFd, Cancel, Yield, FileOp, FileOpFails, Return,
                ReadReturns, ReadWaits, WaitReturns, CloseFdEnds, FileOpReturns, FileOpWaits, End
  <2>2. UNCHANGED spc \/ \E y : Moves(Home[f], "fiber", y)
    BY <1>4 DEF Call, Read, CloseFd, Reopen, WaitFd, Cancel, Yield, FileOp, FileOpFails, Return,
                ReadReturns, ReadWaits, WaitReturns, CloseFdEnds, FileOpReturns, FileOpWaits, End,
                SwitchOut
  <2> QED BY <1>1, <2>1, <2>2 DEF Moves, TypeOK
<1>5. UNCHANGED vars => UNCHANGED <<batch, spc>>
  BY DEF vars
<1> QED BY <1>1, <1>2, <1>3, <1>4, <1>5, StepCases, OutsideLeavesCalls DEF Dispatch

LEMMA DeadlineNext == IInv /\ [Next]_vars => DeadlineKnown'
<1> SUFFICES ASSUME IInv, [Next]_vars PROVE DeadlineKnown'
  OBVIOUS
<1> USE HomeAssumption DEF IInv
<1>1. ASSUME NEW s \in Scheds, Loop(s) PROVE DeadlineKnown'
  <2>1. CASE DrainInbox(s)
    BY <2>1 DEF DrainInbox, Freeable, Waiting, Woken, Reset, DeadlineKnown
  <2>2. CASE Walk(s)
    BY <2>2 DEF Walk, Waiting, Woken, Reset, DeadlineKnown
  <2>3. CASE DrainPipe(s) \/ Idle(s) \/ EpollReturns(s)
    BY <2>3 DEF DrainPipe, Idle, EpollReturns, DeadlineKnown, waits
  <2> QED BY <1>1, <2>1, <2>2, <2>3 DEF Loop
<1>2. ASSUME NEW f \in Fibers, Resume(f) \/ Reap(f) \/ Finalize(f) PROVE DeadlineKnown'
  <2>1. UNCHANGED <<due, op>> /\ \A g \in Fibers : g # f => at'[g] = at[g]
    BY <1>2 DEF Resume, Reap, Finalize, waits, TypeOK
  <2>2. at[f] = "ready" \/ (at[f] = "switched" /\ at'[f] = "waiting")
    BY <1>2 DEF Resume, Reap, Finalize, TypeOK
  <2> QED BY <2>1, <2>2 DEF DeadlineKnown
<1>3. ASSUME NEW f \in Fibers, Call(f) PROVE DeadlineKnown'
  <2>1. ASSUME NEW n \in Fds, Read(f, n) PROVE DeadlineKnown'
    BY <2>1 DEF Read, Begins, DeadlineKnown, TypeOK
  <2>2. ASSUME NEW n \in Fds, CloseFd(f, n) PROVE DeadlineKnown'
    BY <2>2 DEF CloseFd, Begins, Woken, Reset, DeadlineKnown, TypeOK
  <2>3. ASSUME NEW n \in Fds, Reopen(f, n) PROVE DeadlineKnown'
    BY <2>3 DEF Reopen, DeadlineKnown, waits
  <2>4. ASSUME NEW n \in Fds, NEW e \in Events, NEW d \in {"never", "later"}, WaitFd(f, n, {e}, d)
        PROVE  DeadlineKnown'
    BY <2>4 DEF WaitFd, SwitchOut, DeadlineKnown, TypeOK
  <2>5. ASSUME NEW g \in Fibers, Cancel(f, g) PROVE DeadlineKnown'
    BY <2>5 DEF Cancel, DeadlineKnown, waits
  <2>6. CASE Yield(f)
    BY <2>6 DEF Yield, Begins, DeadlineKnown, waits, TypeOK
  <2>7. CASE FileOpFails(f)
    BY <2>7 DEF FileOpFails, DeadlineKnown, waits
  <2>8. ASSUME NEW n \in Fds, FileOp(f, n) PROVE DeadlineKnown'
    BY <2>8 DEF FileOp, Begins, DeadlineKnown, TypeOK
  <2> QED BY <1>3, <2>1, <2>2, <2>3, <2>4, <2>5, <2>6, <2>7, <2>8 DEF Call
<1>4. ASSUME NEW f \in Fibers, Return(f) PROVE DeadlineKnown'
  <2>1. CASE ReadReturns(f) \/ WaitReturns(f) \/ CloseFdEnds(f) \/ FileOpReturns(f)
    BY <2>1 DEF ReadReturns, WaitReturns, CloseFdEnds, FileOpReturns, DeadlineKnown, TypeOK
  <2>2. CASE ReadWaits(f) \/ FileOpWaits(f)
    <3>1. /\ op' = op /\ due' = [due EXCEPT ![f] = "never"]
          /\ at' = [at EXCEPT ![f] = "switched"]
      BY <2>2 DEF ReadWaits, FileOpWaits, SwitchOut
    <3> QED BY <3>1 DEF DeadlineKnown, TypeOK
  <2>3. CASE End(f)
    BY <2>3 DEF End, DeadlineKnown, waits, TypeOK
  <2> QED BY <1>4, <2>1, <2>2, <2>3 DEF Return
<1>5. ASSUME NEW f \in Fibers, Helper(f) PROVE DeadlineKnown'
  BY <1>5 DEF Helper, HelperWorks, HelperSignals, HelperLeaves, DeadlineKnown, waits
<1>6. ASSUME NEW f \in Fibers, Expires(f) PROVE DeadlineKnown'
  BY <1>6 DEF Expires, DeadlineKnown, TypeOK
<1>7. ASSUME NEW n \in Fds, NEW c \in Conditions, Happens(n, c) PROVE DeadlineKnown'
  BY <1>7 DEF Happens, DeadlineKnown, waits
<1>8. CASE UNCHANGED vars
  BY <1>8 DEF DeadlineKnown, vars, waits
<1> QED BY <1>1, <1>2, <1>3, <1>4, <1>5, <1>6, <1>7, <1>8 DEF Next, Dispatch

LEMMA RecordNext == IInv /\ [Next]_vars => RecordKnown'
<1> SUFFICES ASSUME IInv, [Next]_vars PROVE RecordKnown'
  OBVIOUS
<1> USE DEF IInv
\* Fibers that make no file operation and end none.
<1>1. ASSUME NEW f \in Fibers, op[f] # "file", op'[f] # "file", UNCHANGED aio,
             \E x : op' = [op EXCEPT ![f] = x]
      PROVE  RecordKnown'
  BY <1>1 DEF RecordKnown, aio, TypeOK
<1>2. CASE UNCHANGED <<op, aio>>
  BY <1>2 DEF RecordKnown, aio
<1>3. ASSUME NEW f \in Fibers, Call(f) PROVE RecordKnown'
  <2>1. ASSUME NEW n \in Fds, Read(f, n) \/ CloseFd(f, n) PROVE RecordKnown'
    BY <1>1, <2>1 DEF Read, CloseFd, Begins, TypeOK
  <2>2. ASSUME NEW n \in Fds, Reopen(f, n) PROVE RecordKnown'
    BY <1>2, <2>2 DEF Reopen
  <2>3. ASSUME NEW n \in Fds, NEW e \in Events, NEW d \in {"never", "later"}, WaitFd(f, n, {e}, d)
        PROVE  RecordKnown'
    BY <1>1, <2>3 DEF WaitFd, Begins, TypeOK
  <2>4. CASE Yield(f) \/ FileOpFails(f) \/ \E g \in Fibers : Cancel(f, g)
    BY <1>2, <2>4 DEF Yield, FileOpFails, Cancel
  <2>5. ASSUME NEW n \in Fds, FileOp(f, n) PROVE RecordKnown'
    BY <2>5 DEF FileOp, RecordKnown, TypeOK
  <2> QED BY <1>3, <2>1, <2>2, <2>3, <2>4, <2>5 DEF Call
<1>4. ASSUME NEW f \in Fibers, Return(f) PROVE RecordKnown'
  <2>1. CASE ReadReturns(f) \/ WaitReturns(f) \/ CloseFdEnds(f)
    BY <1>1, <2>1 DEF ReadReturns, WaitReturns, CloseFdEnds, TypeOK
  <2>2. CASE ReadWaits(f) \/ FileOpWaits(f) \/ End(f)
    BY <1>2, <2>2 DEF ReadWaits, FileOpWaits, End
  <2>3. CASE FileOpReturns(f)
    <3>1. op[f] = "file" /\ op'[f] = "body" /\ ~inflight'[f] /\ refs'[f] = refs[f] - 1
      BY <2>3 DEF FileOpReturns, TypeOK
    <3>2. \A g \in Fibers :
            g # f => op'[g] = op[g] /\ inflight'[g] = inflight[g] /\ refs'[g] = refs[g]
      BY <2>3 DEF FileOpReturns, TypeOK
    <3>3. helper' = helper
      BY <2>3 DEF FileOpReturns
    <3>4. refs'[f] = IF helper[f] = "none" THEN 0 ELSE 1
      BY <3>1 DEF RecordKnown
    <3> QED BY <3>1, <3>2, <3>3, <3>4 DEF RecordKnown
  <2> QED BY <1>4, <2>1, <2>2, <2>3 DEF Return
<1>5. ASSUME NEW f \in Fibers, Helper(f) PROVE RecordKnown'
  <2>1. CASE HelperWorks(f) \/ HelperSignals(f)
    <3>1. UNCHANGED <<op, inflight, refs>>
      BY <2>1 DEF HelperWorks, HelperSignals
    <3>2. \A g \in Fibers : helper'[g] = "none" <=> helper[g] = "none"
      BY <2>1 DEF HelperWorks, HelperSignals, TypeOK
    <3> QED BY <3>1, <3>2 DEF RecordKnown
  <2>2. CASE HelperLeaves(f)
    <3>1. /\ UNCHANGED <<op, inflight>> /\ helper[f] = "leaves" /\ helper'[f] = "none"
          /\ refs'[f] = refs[f] - 1
      BY <2>2 DEF HelperLeaves, TypeOK
    <3>2. \A g \in Fibers : g # f => helper'[g] = helper[g] /\ refs'[g] = refs[g]
      BY <2>2 DEF HelperLeaves, TypeOK
    <3>3. refs'[f] = IF op[f] = "file" THEN 1 ELSE 0
      BY <3>1 DEF RecordKnown
    <3> QED BY <3>1, <3>2, <3>3 DEF RecordKnown
  <2> QED BY <1>5, <2>1, <2>2 DEF Helper
<1>6. ASSUME NEW f \in Fibers, Expires(f) PROVE RecordKnown'
  BY <1>2, <1>6 DEF Expires
<1>7. ASSUME NEW n \in Fds, NEW c \in Conditions, Happens(n, c) PROVE RecordKnown'
  BY <1>2, <1>7 DEF Happens
<1>8. UNCHANGED vars \/ UNCHANGED <<Numbers, aio, ready>> => UNCHANGED <<op, aio>>
  BY DEF vars, Numbers
<1> QED BY <1>2, <1>3, <1>4, <1>5, <1>6, <1>7, <1>8, LoopLeavesCalls DEF Next

LEMMA HelperNext == IInv /\ [Next]_vars => HelperKnown'
<1> SUFFICES ASSUME IInv, [Next]_vars PROVE HelperKnown'
  OBVIOUS
<1> USE HomeAssumption DEF IInv
<1>1. ASSUME NEW s \in Scheds, Loop(s) PROVE HelperKnown'
  <2> DEFINE Depends(g) == helper[g] \in {"works", "signals"}
  <2>1. ASSUME NEW g \in Fibers, Depends(g)
        PROVE  inflight[g] /\ due[g] = "never" /\ ready[wfd[g]] = {} /\ batch[Home[g]][wfd[g]] = {}
    BY <2>1 DEF HelperKnown, RecordKnown, DeadlineKnown
  <2>2. UNCHANGED <<helper, op, wfd, ready>>
    BY <1>1, LoopLeavesCalls DEF aio, Numbers
  <2>3. CASE DrainInbox(s)
    <3>1. \A g \in Fibers : disturbed[g] => disturbed'[g]
      BY <2>3 DEF DrainInbox
    <3>2. \A g \in Fibers : Depends(g) => at'[g] = at[g] \/ disturbed'[g]
      BY <2>1, <2>3 DEF DrainInbox, Freeable, Woken, HelperKnown
    <3> QED BY <2>2, <2>3, <3>1, <3>2 DEF DrainInbox, HelperKnown
  <2>4. CASE Walk(s)
    <3>1. \A g \in Waiting(s) : Depends(g) => ~Concerns(s, g) /\ due[g] # "over"
      BY <2>1 DEF Waiting, Concerns
    <3>2. \A g \in Fibers : Depends(g) => at'[g] = at[g]
      BY <2>4, <3>1 DEF Walk, Woken
    <3>3. \A g \in Fibers : Depends(g) => wfd[g] \in Fds
      BY DEF HelperKnown, NumbersKnown
    <3>4. \A g \in Fibers : Depends(g) => batch'[Home[g]][wfd[g]] = {}
      BY <2>1, <2>4, <3>3 DEF Walk, TypeOK
    <3>5. disturbed' = disturbed
      BY <2>4 DEF Walk
    <3> QED BY <2>2, <3>2, <3>4, <3>5 DEF HelperKnown
  <2>5. CASE EpollReturns(s)
    <3>1. \A g \in Fibers : Depends(g) => wfd[g] \in Fds /\ Reported(s, wfd[g]) = {}
      BY <2>1 DEF HelperKnown, NumbersKnown, Reported
    <3>2. \A g \in Fibers : Depends(g) => batch'[Home[g]][wfd[g]] = {}
      BY <2>1, <2>5, <3>1 DEF EpollReturns, TypeOK
    <3> QED BY <2>2, <2>5, <3>2 DEF EpollReturns, HelperKnown
  <2>6. CASE DrainPipe(s) \/ Idle(s)
    BY <2>2, <2>6 DEF DrainPipe, Idle, HelperKnown
  <2> QED BY <1>1, <2>3, <2>4, <2>5, <2>6 DEF Loop
<1>2. ASSUME NEW f \in Fibers, Resume(f) \/ Reap(f) \/ Finalize(f) PROVE HelperKnown'
  <2>1. UNCHANGED <<helper, op, wfd, ready, batch, disturbed>>
    BY <1>2 DEF Resume, Reap, Finalize, kernel, waits, aio
  <2>2. CASE Resume(f) \/ Reap(f)
    <3>1. disturbed[f] \/ helper[f] \notin {"works", "signals"}
      BY <2>2 DEF Resume, Reap, HelperKnown
    <3>2. \A g \in Fibers : g # f => at'[g] = at[g]
      BY <2>2 DEF Resume, Reap, TypeOK
    <3> QED BY <2>1, <3>1, <3>2 DEF HelperKnown
  <2>3. CASE Finalize(f)
    BY <2>1, <2>3 DEF Finalize, HelperKnown, TypeOK
  <2> QED BY <1>2, <2>2, <2>3
<1>3. ASSUME NEW f \in Fibers, Call(f) PROVE HelperKnown'
  <2>1. ASSUME NEW n \in Fds, Read(f, n) PROVE HelperKnown'
    BY <2>1 DEF Read, Begins, HelperKnown, kernel, aio, TypeOK
  <2>2. ASSUME NEW n \in Fds, CloseFd(f, n) PROVE HelperKnown'
    <3>1. \A g \in Fibers : helper[g] \in {"works", "signals"} => wfd[g] # n
      BY <2>2 DEF CloseFd, Held, HelperKnown
    <3> QED BY <2>2, <3>1 DEF CloseFd, Begins, Woken, HelperKnown, aio, TypeOK
  <2>3. ASSUME NEW n \in Fds, Reopen(f, n) PROVE HelperKnown'
    BY <2>3 DEF Reopen, HelperKnown, waits, aio
  <2>4. ASSUME NEW n \in Fds, NEW e \in Events, NEW d \in {"never", "later"}, WaitFd(f, n, {e}, d)
        PROVE  HelperKnown'
    BY <2>4 DEF WaitFd, Begins, SwitchOut, HelperKnown, kernel, aio, TypeOK
  <2>5. ASSUME NEW g \in Fibers, Cancel(f, g) PROVE HelperKnown'
    <3>1. \A h \in Fibers : helper[h] \in {"works", "signals"} => inflight[h]
      BY DEF HelperKnown, RecordKnown
    <3>2. \A h \in Fibers : helper[h] \in {"works", "signals"} => at'[h] = at[h]
      BY <2>5, <3>1 DEF Cancel, Freeable
    <3> QED BY <2>5, <3>2 DEF Cancel, HelperKnown, waits, aio
  <2>6. CASE Yield(f)
    BY <2>6 DEF Yield, Begins, HelperKnown, kernel, waits, aio, TypeOK
  <2>7. CASE FileOpFails(f)
    BY <2>7 DEF FileOpFails, HelperKnown, kernel, waits, aio
  <2>8. ASSUME NEW n \in Fds, FileOp(f, n) PROVE HelperKnown'
    <3>1. n \in Fds /\ batch[Home[f]][n] = {}
      BY <2>8 DEF FileOp, Begins, OneRuns, BatchKnown
    <3>2. \A g \in Fibers : g # f =>
            /\ helper'[g] = helper[g] /\ op'[g] = op[g] /\ wfd'[g] = wfd[g] /\ at'[g] = at[g]
            /\ ready[wfd[g]] = {} => ready'[wfd[g]] = {}
      BY <2>8 DEF FileOp, TypeOK
    <3>3. /\ op'[f] = "file" /\ at'[f] = "running" /\ wfd'[f] = n /\ ready'[n] = {}
          /\ \A g \in Fibers : g # f => disturbed'[g] = disturbed[g]
      BY <2>8, <3>1 DEF FileOp, Begins, TypeOK
    <3>4. batch' = batch
      BY <2>8 DEF FileOp
    <3> QED BY <3>1, <3>2, <3>3, <3>4 DEF HelperKnown
  <2> QED BY <1>3, <2>1, <2>2, <2>3, <2>4, <2>5, <2>6, <2>7, <2>8 DEF Call
<1>4. ASSUME NEW f \in Fibers, Return(f) PROVE HelperKnown'
  <2>1. CASE ReadReturns(f)
    <3>1. \A n \in Fds : ready[n] = {} => ready'[n] = {}
      <4>1. ready' = ready \/ ready' = [ready EXCEPT ![wfd[f]] = @ \ {"in"}]
        BY <2>1 DEF ReadReturns
      <4>2. ASSUME NEW n \in Fds, ready[n] = {}, ready' = [ready EXCEPT ![wfd[f]] = @ \ {"in"}]
            PROVE  ready'[n] = {}
        <5>1. CASE wfd[f] = n
          BY <4>2, <5>1 DEF TypeOK
        <5>2. CASE wfd[f] # n
          BY <4>2, <5>2 DEF TypeOK
        <5> QED BY <5>1, <5>2
      <4> QED BY <4>1, <4>2
    <3>2. \A g \in Fibers : helper[g] \in {"works", "signals"} => wfd[g] \in Fds
      BY DEF HelperKnown, NumbersKnown
    <3>3. /\ op[f] = "read" /\ UNCHANGED <<helper, at, batch>>
          /\ \A g \in Fibers : disturbed[g] => disturbed'[g]
      BY <2>1 DEF ReadReturns, aio
    <3>4. \A g \in Fibers : g # f => op'[g] = op[g] /\ wfd'[g] = wfd[g]
      BY <2>1 DEF ReadReturns, TypeOK
    <3> QED BY <3>1, <3>2, <3>3, <3>4 DEF HelperKnown
  <2>2. CASE WaitReturns(f)
    BY <2>2 DEF WaitReturns, HelperKnown, kernel, aio, TypeOK
  <2>3. CASE CloseFdEnds(f)
    BY <2>3 DEF CloseFdEnds, Closes, HelperKnown, aio, TypeOK
  <2>4. CASE FileOpReturns(f)
    BY <2>4 DEF FileOpReturns, Closes, HelperKnown, TypeOK
  <2>5. CASE ReadWaits(f) \/ FileOpWaits(f)
    <3>1. /\ UNCHANGED <<helper, op, ready, batch, disturbed>>
          /\ wfd' = [wfd EXCEPT ![f] = wfd[f]] /\ at' = [at EXCEPT ![f] = "switched"]
      BY <2>5 DEF ReadWaits, FileOpWaits, SwitchOut, kernel, aio
    <3>2. wfd' = wfd
      BY <3>1 DEF TypeOK
    <3> QED BY <3>1, <3>2 DEF HelperKnown, TypeOK
  <2>6. CASE End(f)
    BY <2>6 DEF End, HelperKnown, kernel, waits, aio, TypeOK
  <2> QED BY <1>4, <2>1, <2>2, <2>3, <2>4, <2>5, <2>6 DEF Return
<1>5. ASSUME NEW f \in Fibers, Helper(f) PROVE HelperKnown'
  <2>1. CASE HelperWorks(f) \/ HelperLeaves(f)
    <3>1. UNCHANGED <<op, at, wfd, ready, batch, disturbed>>
      BY <2>1 DEF HelperWorks, HelperLeaves, kernel, waits
    <3>2. \A g \in Fibers :
            helper'[g] \in {"works", "signals"} => helper[g] \in {"works", "signals"}
      BY <2>1 DEF HelperWorks, HelperLeaves, TypeOK
    <3> QED BY <3>1, <3>2 DEF HelperKnown
  <2>2. CASE HelperSignals(f)
    BY <2>2 DEF HelperSignals, HelperKnown, Owns, OneOwner, waits, TypeOK
  <2> QED BY <1>5, <2>1, <2>2 DEF Helper
<1>6. ASSUME NEW f \in Fibers, Expires(f) PROVE HelperKnown'
  BY <1>6 DEF Expires, HelperKnown, kernel, aio
<1>7. ASSUME NEW n \in Fds, NEW c \in Conditions, Happens(n, c) PROVE HelperKnown'
  BY <1>7 DEF Happens, Held, HelperKnown, waits, aio
<1>8. CASE UNCHANGED vars
  BY <1>8 DEF HelperKnown, vars, kernel, waits, aio
<1> QED BY <1>1, <1>2, <1>3, <1>4, <1>5, <1>6, <1>7, <1>8 DEF Next, Dispatch

-----------------------------------------------------------------------------
LEMMA InitInvariant == Init => IInv
<1> SUFFICES ASSUME Init PROVE IInv
  OBVIOUS
<1>1. TypeOK
  BY InitTyped
<1>2. /\ NumbersKnown /\ OneRuns /\ BatchKnown /\ OneOwner
      /\ DeadlineKnown /\ RecordKnown /\ HelperKnown
  BY HomeAssumption DEF Init, NumbersKnown, OneRuns, Busy, BatchKnown, OneOwner, DeadlineKnown,
       RecordKnown, HelperKnown, Owns, waits, aio
<1> QED BY <1>1, <1>2 DEF IInv

LEMMA NextInvariant == IInv /\ [Next]_vars => IInv'
<1> SUFFICES ASSUME IInv, [Next]_vars PROVE IInv'
  OBVIOUS
<1>1. TypeOK'
  BY NextTyped DEF IInv
<1> QED
  BY <1>1, NumbersNext, OneRunsNext, BatchNext, OneOwnerNext, DeadlineNext, RecordNext, HelperNext
  DEF IInv

\* A file operation's buffer, on the stack of its fiber, is there until the helper
\* thread has left it, unless a close request for an earlier use of the eventfd's
\* number woke the fiber, and its record is there in any case (__maka_aio_worker,
\* __maka_cancel_fiber_local, __maka_reap_cancelled).
THEOREM ReactorHelperHasItsBuffer == Spec => []HelperHasItsBuffer
<1>1. IInv => HelperHasItsBuffer
  <2>1. ASSUME IInv, NEW f \in Fibers, helper[f] # "none" PROVE refs[f] > 0
    <3>1. refs[f] \in {1 + 0, 1 + 1}
      BY <2>1 DEF IInv, RecordKnown
    <3> QED BY <3>1
  <2>2. ASSUME IInv, NEW f \in Fibers, helper[f] = "works" PROVE at[f] # "freed" \/ disturbed[f]
    BY <2>2 DEF IInv, HelperKnown
  <2> QED
    BY <2>1, <2>2 DEF IInv, HelperHasItsBuffer
<1> QED
  BY <1>1, InitInvariant, NextInvariant, PTL DEF Spec

-----------------------------------------------------------------------------
(***************************************************************************)
(* Nobody is stranded.                                                     *)
(***************************************************************************)
\* A fiber closes while it runs.
CloserKnown == \A g \in Fibers : op[g] = "close" => at[g] = "running"

\* A request is on its way to the fiber, or its descriptor is open, armed for it,
\* and nobody is about to close it.
Reached(f) ==
  \/ wfd[f] \in inbox[Home[f]]
  \/ /\ wfd[f] \in open
     /\ at[f] = "waiting" => wev[f] \subseteq interest[Home[f]][wfd[f]]
     /\ \A g \in Fibers : Owns(g) /\ wfd[g] = wfd[f] => g = f
WaitersReached ==
  \A f \in Fibers :
    at[f] \in {"switched", "waiting"} /\ due[f] = "never" /\ ~lapsed[f] => Reached(f)

LEMMA CloserNext == IInv /\ CloserKnown /\ [Next]_vars => CloserKnown'
<1> SUFFICES ASSUME IInv, CloserKnown, [Next]_vars PROVE CloserKnown'
  OBVIOUS
<1> USE HomeAssumption DEF IInv
\* Those who close are let alone, and nobody joins them.
<1>1. ASSUME \A g \in Fibers : op'[g] = "close" =>
               op[g] = "close" /\ (at[g] = "running" => at'[g] = "running")
      PROVE  CloserKnown'
  BY <1>1 DEF CloserKnown
<1>2. ASSUME NEW s \in Scheds, Loop(s) PROVE CloserKnown'
  <2>1. UNCHANGED <<op, wfd>>
    BY <1>2, LoopLeavesCalls DEF Numbers
  <2>2. CASE DrainInbox(s)
    <3>1. \A g \in Fibers : at[g] = "running" => at'[g] = "running"
      BY <2>2 DEF DrainInbox, Freeable, Waiting, Woken
    <3> QED BY <1>1, <2>1, <3>1
  <2>3. CASE Walk(s)
    <3>1. \A g \in Fibers : at[g] = "running" => at'[g] = "running"
      BY <2>3 DEF Walk, Waiting, Woken
    <3> QED BY <1>1, <2>1, <2>3, <3>1 DEF Walk, remote
  <2>4. CASE DrainPipe(s) \/ Idle(s) \/ EpollReturns(s)
    BY <1>1, <2>1, <2>4 DEF DrainPipe, Idle, EpollReturns, remote
  <2> QED BY <1>2, <2>2, <2>3, <2>4 DEF Loop
<1>3. ASSUME NEW f \in Fibers, Resume(f) \/ Reap(f) \/ Finalize(f) PROVE CloserKnown'
  BY <1>1, <1>3 DEF Resume, Reap, Finalize, remote, waits, TypeOK
<1>4. ASSUME NEW f \in Fibers, Call(f) PROVE CloserKnown'
  <2>1. ASSUME NEW n \in Fds, Read(f, n) PROVE CloserKnown'
    BY <1>1, <2>1 DEF Read, remote, TypeOK
  <2>2. ASSUME NEW n \in Fds, CloseFd(f, n) PROVE CloserKnown'
    <3>2. \A g \in Fibers : at[g] = "running" => at'[g] = "running"
      BY <2>2 DEF CloseFd, Waiting, Woken
    <3>3. at'[f] = "running"
      BY <2>2, <3>2 DEF CloseFd, Begins, TypeOK
    <3>4. \A g \in Fibers : g # f => op'[g] = op[g]
      BY <2>2 DEF CloseFd, TypeOK
    <3> QED BY <3>2, <3>3, <3>4 DEF CloserKnown
  <2>3. ASSUME NEW n \in Fds, Reopen(f, n) PROVE CloserKnown'
    BY <1>1, <2>3 DEF Reopen, remote, waits
  <2>4. ASSUME NEW n \in Fds, NEW e \in Events, NEW d \in {"never", "later"}, WaitFd(f, n, {e}, d)
        PROVE  CloserKnown'
    BY <1>1, <2>4 DEF WaitFd, SwitchOut, remote, TypeOK
  <2>5. ASSUME NEW g \in Fibers, Cancel(f, g) PROVE CloserKnown'
    <3>1. \A h \in Fibers : at[h] = "running" => at'[h] = "running"
      BY <2>5 DEF Cancel, Freeable, Waiting
    <3> QED BY <1>1, <2>5, <3>1 DEF Cancel
  <2>6. CASE Yield(f)
    BY <1>1, <2>6 DEF Yield, Begins, remote, waits, TypeOK
  <2>7. CASE FileOpFails(f)
    BY <1>1, <2>7 DEF FileOpFails, remote, waits
  <2>8. ASSUME NEW n \in Fds, FileOp(f, n) PROVE CloserKnown'
    BY <1>1, <2>8 DEF FileOp, remote, TypeOK
  <2> QED BY <1>4, <2>1, <2>2, <2>3, <2>4, <2>5, <2>6, <2>7, <2>8 DEF Call
<1>5. ASSUME NEW f \in Fibers, Return(f) PROVE CloserKnown'
  <2>1. CASE ReadReturns(f) \/ WaitReturns(f) \/ CloseFdEnds(f) \/ FileOpReturns(f)
    BY <1>1, <2>1 DEF ReadReturns, WaitReturns, CloseFdEnds, FileOpReturns, remote, TypeOK
  <2>2. CASE ReadWaits(f) \/ FileOpWaits(f)
    BY <1>1, <2>2 DEF ReadWaits, FileOpWaits, SwitchOut, remote, TypeOK
  <2>3. CASE End(f)
    BY <1>1, <2>3 DEF End, remote, waits, TypeOK
  <2> QED BY <1>5, <2>1, <2>2, <2>3 DEF Return
<1>6. UNCHANGED vars => UNCHANGED <<op, wfd, at, inbox>>
  BY DEF vars, waits, remote
<1> QED BY <1>1, <1>2, <1>3, <1>4, <1>5, <1>6, StepCases, OutsideLeavesCalls
        DEF Dispatch, Numbers, remote

\* Arming a scheduler's descriptors anew serves those who stay on its list, and
\* no other scheduler's.
LEMMA RearmedServes ==
  ASSUME TypeOK, NEW s \in Scheds, NEW N, NEW W \in SUBSET Fibers, NEW f \in W,
         wfd[f] \in open, wfd[f] \in N \/ wev[f] \subseteq interest[s][wfd[f]]
  PROVE  wev[f] \subseteq Rearmed(s, N, W)[s][wfd[f]]
<1>1. wev[f] \subseteq Mask(wfd[f], W)
  BY DEF Mask
<1>2. wfd[f] \in Fds
  BY DEF TypeOK
<1> QED
  BY <1>1, <1>2 DEF Rearmed, Set, TypeOK

LEMMA RearmedElsewhere ==
  ASSUME TypeOK, NEW s \in Scheds, NEW o \in Scheds, o # s, NEW N, NEW W
  PROVE  Rearmed(s, N, W)[o] = interest[o]
BY DEF Rearmed, TypeOK

\* Nobody starts to close the number of one who waits, and a descriptor stays open
\* and armed unless a request is there.
LEMMA StaysReached ==
  ASSUME NEW f \in Fibers, Reached(f), wfd'[f] = wfd[f], wev'[f] = wev[f],
         inbox[Home[f]] \subseteq inbox'[Home[f]],
         wfd[f] \in open => wfd[f] \in open',
         at'[f] = "waiting" =>
           at[f] = "waiting" /\ interest[Home[f]][wfd[f]] \subseteq interest'[Home[f]][wfd[f]],
         \A g \in Fibers : Owns(g)' /\ wfd'[g] = wfd[f]
                             => Owns(g) /\ wfd[g] = wfd[f]
  PROVE  Reached(f)'
BY DEF Owns, Reached

LEMMA ReachedNext ==
  IInv /\ CloserKnown /\ WaitersReached /\ [Next]_vars => WaitersReached'
<1> SUFFICES ASSUME IInv, CloserKnown, WaitersReached, [Next]_vars,
                    NEW w \in Fibers, at'[w] \in {"switched", "waiting"}, due'[w] = "never", ~lapsed'[w]
             PROVE  Reached(w)'
  BY DEF WaitersReached
<1> USE HomeAssumption DEF IInv, Owns
<1>1. TypeOK
  OBVIOUS
<1>0. ASSUME at[w] # "running" PROVE lapsed'[w] = lapsed[w]
  <2>1. CASE lapsed' = lapsed
    BY <2>1
  <2>2. ASSUME NEW f \in Fibers, at[f] = "running", NEW x, lapsed' = [lapsed EXCEPT ![f] = x]
        PROVE  lapsed'[w] = lapsed[w]
    BY <1>0, <2>2 DEF TypeOK
  <2>3. ASSUME NEW s \in Scheds, Loop(s) PROVE lapsed' = lapsed
    BY <2>3 DEF Loop, DrainPipe, DrainInbox, Idle, EpollReturns, Walk, waits
  <2>4. ASSUME NEW f \in Fibers, Resume(f) \/ Reap(f) \/ Finalize(f) PROVE lapsed' = lapsed
    BY <2>4 DEF Resume, Reap, Finalize, waits
  <2>5. ASSUME NEW f \in Fibers, Call(f)
        PROVE  lapsed' = lapsed \/ (at[f] = "running" /\ \E x : lapsed' = [lapsed EXCEPT ![f] = x])
    BY <2>5 DEF Call, Begins, Read, CloseFd, Reopen, WaitFd, SwitchOut, Cancel, Yield, FileOp,
                FileOpFails, waits
  <2>6. ASSUME NEW f \in Fibers, Return(f)
        PROVE  lapsed' = lapsed \/ (at[f] = "running" /\ \E x : lapsed' = [lapsed EXCEPT ![f] = x])
    BY <2>6 DEF Return, ReadReturns, ReadWaits, WaitReturns, CloseFdEnds, FileOpReturns, FileOpWaits,
                SwitchOut, End, waits
  <2>7. ASSUME \/ \E f \in Fibers : Helper(f) \/ Expires(f)
               \/ \E n \in Fds, c \in Conditions : Happens(n, c)
               \/ UNCHANGED vars
        PROVE  lapsed' = lapsed
    BY <2>7 DEF Helper, HelperWorks, HelperSignals, HelperLeaves, Expires, Happens, waits, vars
  <2> QED BY <2>1, <2>2, <2>3, <2>4, <2>5, <2>6, <2>7, StepCases DEF Dispatch
<1>2. ASSUME at[w] \in {"switched", "waiting"}, due[w] = "never"
      PROVE  Reached(w) /\ op[w] # "close"
  BY <1>0, <1>2 DEF WaitersReached, CloserKnown
<1>3. ASSUME NEW s \in Scheds, Loop(s) PROVE Reached(w)'
  <2>1. UNCHANGED Numbers /\ UNCHANGED <<op, wfd, open>>
    BY <1>3, LoopLeavesCalls DEF Numbers
  <2>2. at[w] = at'[w] /\ due[w] = "never" /\ wev'[w] = wev[w]
    <3>1. CASE DrainInbox(s)
      BY <3>1 DEF DrainInbox, Woken, Reset, TypeOK
    <3>2. CASE Walk(s)
      BY <3>2 DEF Walk, Woken, Reset, TypeOK
    <3>3. CASE DrainPipe(s) \/ Idle(s) \/ EpollReturns(s)
      BY <3>3 DEF DrainPipe, Idle, EpollReturns, waits
    <3> QED BY <1>3, <3>1, <3>2, <3>3 DEF Loop
  <2>3. Reached(w)
    BY <1>2, <2>2
  <2>4. ASSUME NEW N, NEW W \in SUBSET Fibers, interest' = Rearmed(s, N, W),
               Home[w] = s => w \in W /\ wfd[w] \notin inbox[s],
               \A o \in Scheds : o # s => inbox'[o] = inbox[o]
        PROVE  Reached(w)'
    <3>1. CASE Home[w] = s
      <4>1. wfd[w] \in open /\ (at[w] = "waiting" => wev[w] \subseteq interest[s][wfd[w]])
        BY <2>3, <2>4, <3>1 DEF Reached
      <4>2. at[w] = "waiting" => wev[w] \subseteq interest'[s][wfd[w]]
        BY <1>1, <2>4, <3>1, <4>1, RearmedServes
      <4> QED BY <2>1, <2>2, <2>3, <2>4, <3>1, <4>1, <4>2 DEF Reached
    <3>2. CASE Home[w] # s
      <4>1. interest'[Home[w]] = interest[Home[w]] /\ inbox'[Home[w]] = inbox[Home[w]]
        BY <1>1, <2>4, <3>2, RearmedElsewhere
      <4> QED BY <2>1, <2>2, <2>3, <4>1, StaysReached
    <3> QED BY <3>1, <3>2
  <2>5. CASE DrainInbox(s)
    <3> DEFINE closed == {f \in Waiting(s) : wfd[f] \in inbox[s]}
               freed == Freeable(cancels[s], Waiting(s) \ closed)
               left == Waiting(s) \ (closed \cup freed)
               N == inbox[s] \cup {wfd[f] : f \in freed}
    <3>1. interest' = Rearmed(s, N, left) /\ spc[s] = "inbox"
      BY <2>5 DEF DrainInbox, Moves
    <3>2. \A o \in Scheds : o # s => inbox'[o] = inbox[o]
      BY <2>5 DEF DrainInbox, TypeOK
    <3>3. left \in SUBSET Fibers
      BY WaitingType
    <3>4. at'[w] = (IF w \in freed THEN "freed" ELSE IF w \in closed THEN "ready" ELSE at[w])
      BY <2>5 DEF DrainInbox, Woken
    <3>5. Home[w] = s => w \in Waiting(s)
      BY <2>2, <3>1 DEF OneRuns, Waiting
    <3>6. Home[w] = s => w \in left /\ wfd[w] \notin inbox[s]
      BY <3>4, <3>5
    <3> HIDE DEF N, left
    <3> QED BY <2>4, <3>1, <3>2, <3>3, <3>6
  <2>6. CASE Walk(s)
    <3> DEFINE told == {f \in Waiting(s) : Concerns(s, f)}
               late == {f \in Waiting(s) \ told : due[f] = "over"}
               left == Waiting(s) \ (told \cup late)
               N == {n \in Fds : batch[s][n] # {}} \cup {wfd[f] : f \in late}
    <3>1. interest' = Rearmed(s, N, left) /\ spc[s] = "walk" /\ inbox' = inbox
      BY <2>6 DEF Walk, Moves, remote
    <3>2. left \in SUBSET Fibers
      BY WaitingType
    <3>3. at'[w] = (IF w \in told \cup late THEN "ready" ELSE at[w])
      BY <2>6 DEF Walk, Woken
    <3>4. Home[w] = s => w \in Waiting(s)
      BY <2>2, <3>1 DEF OneRuns, Waiting
    <3>5. Home[w] = s => w \in left
      BY <3>3, <3>4
    <3>6. CASE wfd[w] \in inbox[Home[w]]
      BY <2>1, <3>1, <3>6 DEF Reached
    <3>7. CASE wfd[w] \notin inbox[Home[w]]
      <4> HIDE DEF N, left
      <4> QED BY <2>4, <3>1, <3>2, <3>5, <3>7
    <3> QED BY <3>6, <3>7
  <2>7. CASE DrainPipe(s) \/ Idle(s) \/ EpollReturns(s)
    <3>1. UNCHANGED <<interest, inbox>>
      BY <2>7 DEF DrainPipe, Idle, EpollReturns, kernel, remote
    <3> QED BY <2>1, <2>2, <2>3, <3>1, StaysReached
  <2> QED BY <1>3, <2>5, <2>6, <2>7 DEF Loop
<1>4. ASSUME NEW f \in Fibers, Resume(f) \/ Reap(f) \/ Finalize(f) PROVE Reached(w)'
  <2>1. /\ UNCHANGED Numbers /\ UNCHANGED <<op, wfd, wev, due, open, inbox>>
        /\ \A g \in Fibers : g # f => at'[g] = at[g]
    BY <1>4 DEF Resume, Reap, Finalize, Numbers, kernel, remote, waits, TypeOK
  <2>2. CASE Resume(f) \/ Reap(f)
    <3>1. w # f /\ interest' = interest
      BY <2>2 DEF Resume, Reap, kernel, TypeOK
    <3> QED BY <1>2, <2>1, <3>1, StaysReached
  <2>3. CASE Finalize(f)
    <3> DEFINE W == Waiting(Home[f]) \cup {f}
    <3>1. W \in SUBSET Fibers
      BY WaitingType
    <3>2. interest' = Rearmed(Home[f], {wfd[f]}, W) /\ at[f] = "switched"
      BY <2>3 DEF Finalize
    <3>3. at[w] \in {"switched", "waiting"} /\ Reached(w)
      BY <1>2, <2>1, <3>2
    <3>4. CASE Home[w] = Home[f]
      <4>1. w = f \/ w \in Waiting(Home[f])
        BY <2>1, <3>2, <3>3, <3>4 DEF OneRuns, Busy, Waiting
      <4>2. ASSUME wfd[w] \in open, at[w] = "waiting" => wev[w] \subseteq interest[Home[w]][wfd[w]]
            PROVE  wev[w] \subseteq interest'[Home[w]][wfd[w]]
        <5>1. w \in W /\ (wfd[w] \in {wfd[f]} \/ wev[w] \subseteq interest[Home[f]][wfd[w]])
          BY <3>4, <4>1, <4>2 DEF Waiting
        <5> HIDE DEF W
        <5> QED BY <1>1, <3>1, <3>2, <3>4, <4>2, <5>1, RearmedServes
      <4> QED BY <2>1, <3>3, <4>2 DEF Reached
    <3>5. CASE Home[w] # Home[f]
      <4>1. interest'[Home[w]] = interest[Home[w]]
        BY <1>1, <3>2, <3>5, RearmedElsewhere
      <4>2. at'[w] = at[w]
        BY <2>1, <3>5
      <4> QED BY <2>1, <3>3, <4>1, <4>2, StaysReached
    <3> QED BY <3>4, <3>5
  <2> QED BY <1>4, <2>2, <2>3
<1>5. ASSUME NEW f \in Fibers, Call(f) PROVE Reached(w)'
  <2>1. ASSUME NEW n \in Fds, Read(f, n) PROVE Reached(w)'
    <3>1. /\ w # f /\ at'[w] = at[w] /\ due'[w] = due[w] /\ wfd'[w] = wfd[w] /\ wev'[w] = wev[w]
          /\ UNCHANGED <<open, interest, inbox>>
      BY <2>1 DEF Read, Begins, kernel, remote, TypeOK
    <3>2. \A g \in Fibers : Owns(g)' => op'[g] = op[g] /\ wfd'[g] = wfd[g]
      BY <2>1 DEF Read, TypeOK
    <3> QED BY <1>2, <3>1, <3>2, StaysReached
  <2>2. ASSUME NEW n \in Fds, CloseFd(f, n) PROVE Reached(w)'
    <3>1. /\ w # f /\ at'[w] = at[w] /\ due[w] = "never" /\ wfd'[w] = wfd[w] /\ wev'[w] = wev[w]
          /\ ~(w \in Waiting(Home[f]) /\ wfd[w] = n) /\ at[f] = "running" /\ open' = open
      BY <2>2 DEF CloseFd, Begins, Woken, Reset, TypeOK
    <3>2. Reached(w)
      BY <1>2, <3>1
    <3>3. \A s \in Scheds : inbox[s] \subseteq inbox'[s] /\ (s # Home[f] => n \in inbox'[s])
      BY <2>2 DEF CloseFd, Targets
    <3>4. CASE wfd[w] = n
      <4>1. Home[w] # Home[f]
        BY <3>1, <3>4 DEF OneRuns, Busy, Waiting
      <4> QED BY <3>1, <3>3, <3>4, <4>1 DEF Reached
    <3>5. CASE wfd[w] # n
      <4>1. interest'[Home[w]][wfd[w]] = interest[Home[w]][wfd[w]]
        BY <2>2, <3>5 DEF CloseFd, TypeOK
      <4>2. \A g \in Fibers : Owns(g)' /\ wfd'[g] = wfd[w]
                                => Owns(g) /\ wfd[g] = wfd[w]
        BY <2>2, <3>5 DEF CloseFd, TypeOK
      <4> QED BY <3>1, <3>2, <3>3, <4>1, <4>2, StaysReached
    <3> QED BY <3>4, <3>5
  <2>3. ASSUME NEW n \in Fds, Reopen(f, n) PROVE Reached(w)'
    <3>1. open \subseteq open' /\ UNCHANGED <<at, due, wfd, wev, op, inbox, interest>>
      BY <2>3 DEF Reopen, waits, remote
    <3> QED BY <1>2, <3>1, StaysReached
  <2>4. ASSUME NEW n \in Fds, NEW e \in Events, NEW d \in {"never", "later"}, WaitFd(f, n, {e}, d)
        PROVE  Reached(w)'
    <3>1. /\ at[f] = "running" /\ n \in open /\ UNCHANGED <<open, interest, inbox>>
          /\ wfd'[f] = n /\ at'[f] = "switched" /\ op'[f] = "wait"
          /\ \A g \in Fibers : g # f =>
               /\ at'[g] = at[g] /\ due'[g] = due[g] /\ wfd'[g] = wfd[g] /\ wev'[g] = wev[g]
               /\ op'[g] = op[g]
      BY <2>4 DEF WaitFd, Begins, Held, SwitchOut, kernel, remote, TypeOK
    <3>2. CASE w = f
      <4>1. ~Lapses(f, n)
        BY <2>4, <3>2 DEF WaitFd, SwitchOut, TypeOK
      <4> QED BY <3>1, <3>2, <4>1 DEF Lapses, Reached
    <3>3. CASE w # f
      BY <1>2, <3>1, <3>3, StaysReached
    <3> QED BY <3>2, <3>3
  <2>5. ASSUME NEW g \in Fibers, Cancel(f, g) PROVE Reached(w)'
    <3> DEFINE freed == IF Home[g] = Home[f] THEN Freeable({g}, Waiting(Home[f])) ELSE {}
               W == Waiting(Home[f]) \ freed
               N == {wfd[h] : h \in freed}
    <3>1. /\ UNCHANGED Numbers /\ UNCHANGED <<op, wfd, wev, due, open>>
          /\ interest' = Rearmed(Home[f], N, W) /\ at[f] = "running"
      BY <2>5 DEF Cancel, Begins, Numbers, waits
    <3>2. inbox' = inbox
      BY <2>5 DEF Cancel, remote
    <3>3. at'[w] = at[w] /\ w \notin freed
      BY <2>5 DEF Cancel
    <3>4. Reached(w)
      BY <1>2, <3>1, <3>3
    <3>5. W \in SUBSET Fibers
      BY WaitingType
    <3>6. CASE Home[w] = Home[f]
      <4>1. at[w] = "waiting" /\ w \in W
        BY <3>1, <3>3, <3>6 DEF OneRuns, Busy, Waiting
      <4> HIDE DEF W, N
      <4>2. ASSUME wfd[w] \in open, wev[w] \subseteq interest[Home[w]][wfd[w]]
            PROVE  wev[w] \subseteq interest'[Home[w]][wfd[w]]
        BY <1>1, <3>1, <3>5, <3>6, <4>1, <4>2, RearmedServes
      <4> QED BY <3>1, <3>2, <3>3, <3>4, <4>1, <4>2 DEF Reached
    <3>7. CASE Home[w] # Home[f]
      <4> HIDE DEF W, N
      <4>1. interest'[Home[w]] = interest[Home[w]]
        BY <1>1, <3>1, <3>7, RearmedElsewhere
      <4> QED BY <3>1, <3>2, <3>3, <3>4, <4>1, StaysReached
    <3> QED BY <3>6, <3>7
  <2>6. CASE Yield(f)
    <3>1. w # f /\ at'[w] = at[w] /\ UNCHANGED <<due, wfd, wev, op, open, inbox, interest>>
      BY <2>6 DEF Yield, kernel, remote, waits, TypeOK
    <3> QED BY <1>2, <3>1, StaysReached
  <2>7. CASE FileOpFails(f)
    <3>1. UNCHANGED <<at, due, wfd, wev, op, open, inbox, interest>>
      BY <2>7 DEF FileOpFails, kernel, remote, waits
    <3> QED BY <1>2, <3>1, StaysReached
  <2>8. ASSUME NEW n \in Fds, FileOp(f, n) PROVE Reached(w)'
    <3>1. /\ at' = at /\ at[f] = "running" /\ due' = due /\ wev' = wev /\ n \notin open
          /\ open \subseteq open' /\ interest' = interest /\ inbox' = inbox /\ wfd'[f] = n
          /\ \A g \in Fibers : g # f => wfd'[g] = wfd[g] /\ op'[g] = op[g]
      BY <2>8 DEF FileOp, Begins, remote, TypeOK
    <3>2. w # f /\ Reached(w)
      BY <1>2, <3>1
    <3>3. CASE wfd[w] = n
      BY <3>1, <3>2, <3>3 DEF Reached
    <3>4. CASE wfd[w] # n
      BY <3>1, <3>2, <3>4, StaysReached
    <3> QED BY <3>3, <3>4
  <2> QED BY <1>5, <2>1, <2>2, <2>3, <2>4, <2>5, <2>6, <2>7, <2>8 DEF Call
<1>6. ASSUME NEW f \in Fibers, Return(f) PROVE Reached(w)'
  <2>1. CASE ReadReturns(f) \/ WaitReturns(f)
    <3>1. /\ w # f /\ at' = at /\ due' = due /\ wev' = wev /\ wfd'[w] = wfd[w]
          /\ UNCHANGED <<open, interest, inbox>>
      BY <2>1 DEF ReadReturns, WaitReturns, kernel, remote, TypeOK
    <3>2. \A g \in Fibers : Owns(g)' => op'[g] = op[g] /\ wfd'[g] = wfd[g]
      BY <2>1 DEF ReadReturns, WaitReturns, TypeOK
    <3> QED BY <1>2, <3>1, <3>2, StaysReached
  <2>2. CASE CloseFdEnds(f) \/ FileOpReturns(f)
    <3>1. /\ at' = at /\ at[f] = "running" /\ due' = due /\ wev' = wev /\ inbox' = inbox
          /\ open' = open \ {wfd[f]} /\ op[f] \in {"close", "file"}
          /\ \A s \in Scheds, n \in Fds : n # wfd[f] => interest'[s][n] = interest[s][n]
      BY <2>2 DEF CloseFdEnds, FileOpReturns, Closes, remote, TypeOK
    <3>2. w # f /\ Reached(w) /\ wfd'[w] = wfd[w]
      BY <1>2, <2>2, <3>1 DEF CloseFdEnds, FileOpReturns, TypeOK
    <3>3. \A g \in Fibers : Owns(g)' => op'[g] = op[g] /\ wfd'[g] = wfd[g]
      BY <2>2 DEF CloseFdEnds, FileOpReturns, TypeOK
    <3>4. CASE wfd[w] = wfd[f]
      BY <3>1, <3>2, <3>4 DEF Reached
    <3>5. CASE wfd[w] # wfd[f] /\ wfd[w] \in open
      <4>1. interest'[Home[w]][wfd[w]] = interest[Home[w]][wfd[w]]
        BY <3>1, <3>5 DEF TypeOK
      <4> QED BY <3>1, <3>2, <3>3, <3>5, <4>1, StaysReached
    <3>6. CASE wfd[w] \notin open
      BY <3>1, <3>2, <3>6 DEF Reached
    <3> QED BY <3>4, <3>5, <3>6
  <2>3. CASE ReadWaits(f) \/ FileOpWaits(f)
    <3>1. /\ at[f] = "running" /\ UNCHANGED <<op, open, interest, inbox>> /\ wfd' = wfd
          /\ at'[f] = "switched"
          /\ \A g \in Fibers : g # f =>
               at'[g] = at[g] /\ due'[g] = due[g] /\ wev'[g] = wev[g]
      BY <2>3 DEF ReadWaits, FileOpWaits, SwitchOut, kernel, remote, TypeOK
    <3>2. CASE w # f
      BY <1>2, <3>1, <3>2, StaysReached
    <3>3. CASE w = f /\ ReadWaits(f)
      <4>1. wfd[f] \in Fds /\ wfd[f] \in open
        BY <3>3 DEF ReadWaits, NumbersKnown
      <4>2. ~Lapses(f, wfd[f])
        BY <3>3 DEF ReadWaits, SwitchOut, TypeOK
      <4> QED BY <3>1, <3>3, <4>1, <4>2 DEF Lapses, Reached
    <3>4. CASE w = f /\ FileOpWaits(f)
      <4>1. wfd[f] \in Fds /\ wfd[f] \in open /\ op[f] = "file"
        BY <3>4 DEF FileOpWaits, NumbersKnown
      <4>2. \A g \in Fibers : Owns(g) /\ wfd[g] = wfd[f] => g = f
        BY <4>1 DEF OneOwner
      <4> QED BY <3>1, <3>4, <4>1, <4>2 DEF Reached
    <3> QED BY <2>3, <3>2, <3>3, <3>4
  <2>4. CASE End(f)
    <3>1. w # f /\ at'[w] = at[w] /\ UNCHANGED <<due, wfd, wev, op, open, inbox, interest>>
      BY <2>4 DEF End, kernel, remote, waits, TypeOK
    <3> QED BY <1>2, <3>1, StaysReached
  <2> QED BY <1>6, <2>1, <2>2, <2>3, <2>4 DEF Return
<1>7. ASSUME \/ \E f \in Fibers : Helper(f) \/ Expires(f)
             \/ \E n \in Fds, c \in Conditions : Happens(n, c)
      PROVE  Reached(w)'
  <2>1. UNCHANGED <<at, wfd, wev, op, open, inbox, interest>>
    BY <1>7, OutsideLeavesCalls DEF Numbers, remote
  <2>2. due[w] = "never"
    BY <1>7 DEF Helper, HelperWorks, HelperSignals, HelperLeaves, Expires, Happens, waits, TypeOK
  <2> QED BY <1>2, <2>1, <2>2, StaysReached
<1>8. CASE UNCHANGED vars
  <2>1. UNCHANGED <<at, due, wfd, wev, op, open, inbox, interest>>
    BY <1>8 DEF vars, kernel, remote, waits
  <2> QED BY <1>2, <2>1, StaysReached
<1> QED BY <1>3, <1>4, <1>5, <1>6, <1>7, <1>8, StepCases DEF Dispatch

\* Whoever is on a scheduler's list has a registration for all it waits for, a
\* request in the inbox, or a deadline (__maka_fd_recompute, __maka_close_fd, the
\* drain of the inbox), unless it went to wait for a number that had lapsed.
THEOREM ReactorNoWaiterStranded == Spec => []NoWaiterStranded
<1> DEFINE Inv == IInv /\ CloserKnown /\ WaitersReached
<1>1. Init => Inv
  <2>1. Init => CloserKnown /\ WaitersReached
    BY DEF Init, CloserKnown, WaitersReached, waits
  <2> QED BY <2>1, InitInvariant
<1>2. Inv /\ [Next]_vars => Inv'
  BY NextInvariant, CloserNext, ReachedNext
<1>3. Inv => NoWaiterStranded
  BY DEF WaitersReached, Reached, NoWaiterStranded
<1> QED
  <2> HIDE DEF Inv
  <2> QED BY <1>1, <1>2, <1>3, PTL DEF Spec

=============================================================================
