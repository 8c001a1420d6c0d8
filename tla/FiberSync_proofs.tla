-------------------------- MODULE FiberSync_proofs --------------------------
(***************************************************************************)
(* Proofs about FiberSync for any number of fibers, threads, units of work *)
(* and calls.  Until destroy is called the holders exclude each other and  *)
(* the words say who is inside; whenever it is called, no wake is lost     *)
(* (IInv), once_do does not return early (OnceKnown), and destroy outlasts *)
(* those it counts and is told of them (UInv).                             *)
(***************************************************************************)
EXTENDS FiberSync, FiniteSetTheorems, TLAPS

-----------------------------------------------------------------------------
(***************************************************************************)
(* Who is inside, counted.                                                 *)
(***************************************************************************)
LEMMA InsideFinite == \A w : IsFiniteSet(Inside(w)) /\ Cardinality(Inside(w)) \in Nat
<1> SUFFICES ASSUME NEW w PROVE IsFiniteSet(Inside(w)) /\ Cardinality(Inside(w)) \in Nat
  OBVIOUS
<1>1. IsFiniteSet(Clients)
  BY ActorsAssumption, FS_Union DEF Clients
<1>2. Inside(w) \subseteq Clients
  BY DEF Inside
<1>3. IsFiniteSet(Inside(w))
  BY <1>1, <1>2, FS_Subset
<1> QED
  BY <1>3, FS_CardinalityType

\* A step after which the same clients are inside, for the same operations.
LEMMA InsideSame ==
  ASSUME \A x \in Clients : (pc'[x] = "in") <=> (pc[x] = "in"),
         \A x \in Clients : pc[x] = "in" => want'[x] = want[x]
  PROVE  \A w : Inside(w)' = Inside(w)
BY DEF Inside

\* Client a gets in.
LEMMA InsideAdd ==
  ASSUME NEW a \in Clients, pc[a] # "in", pc'[a] = "in", UNCHANGED want,
         \A x \in Clients \ {a} : (pc'[x] = "in") <=> (pc[x] = "in")
  PROVE  /\ Cardinality(Inside(want[a])') = Cardinality(Inside(want[a])) + 1
         /\ \A w : w # want[a] => Inside(w)' = Inside(w)
<1>1. Inside(want[a])' = Inside(want[a]) \cup {a} /\ a \notin Inside(want[a])
  BY DEF Inside
<1>2. Cardinality(Inside(want[a]) \cup {a}) = Cardinality(Inside(want[a])) + 1
  BY <1>1, InsideFinite, FS_AddElement
<1>3. \A w : w # want[a] => Inside(w)' = Inside(w)
  BY DEF Inside
<1> QED
  BY <1>1, <1>2, <1>3

\* Client a gets out.
LEMMA InsideRemove ==
  ASSUME NEW a \in Clients, pc[a] = "in", pc'[a] # "in", UNCHANGED want,
         \A x \in Clients \ {a} : (pc'[x] = "in") <=> (pc[x] = "in")
  PROVE  /\ Cardinality(Inside(want[a])') = Cardinality(Inside(want[a])) - 1
         /\ Cardinality(Inside(want[a])) >= 1
         /\ \A w : w # want[a] => Inside(w)' = Inside(w)
<1>1. Inside(want[a])' = Inside(want[a]) \ {a} /\ a \in Inside(want[a])
  BY DEF Inside
<1>2. Cardinality(Inside(want[a]) \ {a}) = Cardinality(Inside(want[a])) - 1
  BY <1>1, InsideFinite, FS_RemoveElement
<1>3. \A w : w # want[a] => Inside(w)' = Inside(w)
  BY DEF Inside
<1>4. Cardinality(Inside(want[a])) >= 1
  BY <1>1, InsideFinite, FS_EmptySet
<1> QED
  BY <1>1, <1>2, <1>3, <1>4

\* Nobody is counted, nobody is inside.
LEMMA InsideNone ==
  ASSUME NEW w PROVE Cardinality(Inside(w)) = 0 <=> \A x \in Clients : pc[x] = "in" => want[x] # w
<1>1. Cardinality(Inside(w)) = 0 <=> Inside(w) = {}
  BY InsideFinite, FS_EmptySet
<1> QED
  BY <1>1 DEF Inside

-----------------------------------------------------------------------------
(***************************************************************************)
(* Steps that leave the words, the waiter list and who is inside alone:    *)
(* one client moves from one place outside to another.                     *)
(***************************************************************************)
Outside == PC \ {"in", "bump", "parked", "work", "dec"}

\* destroy has begun after the step just if it had begun before.
BegunKept == (dpc' = "none") <=> (dpc = "none")

LEMMA SignalKeeps == ASSUME NEW c, SignalDrained(c) PROVE BegunKept
BY DEF SignalDrained, BegunKept

\* Who is on the way, for the kinds whose waiters do not see to it themselves.
LEMMA OnTheWayKept ==
  ASSUME OnTheWay, kind # "mutex", UNCHANGED kind, BegunKept,
         \A d \in Doers : pc[d] = "dec" => pc'[d] = "dec",
         \A x \in Clients : pc[x] = "in" => pc'[x] = "in"
  PROVE  OnTheWay'
BY DEF OnTheWay, BegunKept

LEMMA QuietStep ==
  ASSUME IInv, NEW a \in Clients, NEW label \in Outside, BegunKept,
         pc[a] \notin {"in", "bump", "parked"}, Goto(a, label),
         UNCHANGED <<kind, word, readers, runner, parked>>,
         \A x \in Clients \ {a} : want'[x] = want[x],
         label # "idle" => want'[a] \in Wants(kind),
         label \in {"armed", "ready"} => a \in Fibers,
         label \in {"waiting", "woken"} => a \in Threads,
         label = "waiting" => Blocked(a)',
         kind = "mutex" => label \in {"try", "slow", "armed", "ready", "woken"} \/ word # 0 \/ pc[a] = "idle"
  PROVE  PlacesKnown' /\ ParkedKnown' /\ OneRunner' /\ Exclusion' /\ NoLostWakeup'
<1>1. /\ pc \in [Actors -> PC]
      /\ a \in Actors
      /\ pc'[a] = label
      /\ \A x \in Actors : x # a => pc'[x] = pc[x]
  BY DEF IInv, TypeOK, Goto, Actors
<1>2. PlacesKnown'
  BY <1>1, ActorsAssumption DEF IInv, PlacesKnown, Outside, Wants, Clients, Actors
<1>3. ParkedKnown'
  BY <1>1 DEF IInv, ParkedKnown, ParkedSet, Outside, Clients, Actors
<1>4. OneRunner'
  BY <1>1 DEF IInv, OneRunner, Outside, Clients, Actors
<1>5. Exclusion'
  <2>1. \A w : Inside(w)' = Inside(w)
    BY <1>1, InsideSame DEF Outside, Actors
  <2> QED
    BY <2>1 DEF IInv, Exclusion, BegunKept
<1>6. NoLostWakeup'
  <2> SUFFICES ASSUME NEW x \in Clients, pc'[x] \in {"parked", "waiting"}, ~Blocked(x)'
               PROVE  OnTheWay'
    BY DEF NoLostWakeup
  <2>1. x # a /\ pc[x] = pc'[x]
    BY <1>1 DEF Outside, Actors
  <2>2. ~Blocked(x)
    BY <2>1 DEF Blocked, OnceOver
  <2>3. OnTheWay
    BY <2>1, <2>2 DEF IInv, NoLostWakeup
  <2>4. CASE kind = "mutex"
    <3>1. want[x] = "lock" /\ word = 0
      BY <2>1, <2>2, <2>4 DEF IInv, PlacesKnown, Wants, Blocked
    <3>2. PICK y \in Clients : pc[y] \in {"try", "slow", "armed", "ready", "woken"}
      BY <2>3, <2>4 DEF OnTheWay
    <3>3. pc'[y] \in {"try", "slow", "armed", "ready", "woken"}
      BY <3>1, <3>2, <2>4, <1>1 DEF Actors
    <3> QED
      BY <3>3, <2>4 DEF OnTheWay
  <2>5. CASE kind # "mutex"
    <3>1. \A d \in Doers : pc'[d] = pc[d]
      BY <1>1, ActorsAssumption DEF Actors, Clients
    <3>2. \A y \in Clients : pc[y] = "in" => pc'[y] = "in"
      BY <1>1 DEF Actors
    <3> QED
      BY <2>3, <2>5, <3>1, <3>2, OnTheWayKept
  <2> QED
    BY <2>4, <2>5
<1> QED
  BY <1>2, <1>3, <1>4, <1>5, <1>6

LEMMA CallIInv == ASSUME IInv, NEW a \in Clients, Call(a) PROVE IInv'
<1>1. PICK w \in Wants(kind) : want' = [want EXCEPT ![a] = w]
  BY DEF Call
<1>2. w \in {"none", "lock", "read", "write", "wait", "do"}
  BY <1>1, KindsAssumption DEF IInv, TypeOK, Wants
<1>3. /\ UNCHANGED <<kind, word, readers, waiters, inflight, runner, parked, dpc, ended>>
      /\ Goto(a, "try") /\ pc[a] = "idle" /\ BegunKept
      /\ calls' \in [Clients -> 0 .. MaxCalls]
  BY MaxCallsAssumption DEF Call, counters, IInv, TypeOK, BegunKept
<1>4. TypeOK'
  BY <1>1, <1>2, <1>3 DEF IInv, TypeOK, Goto, PC
<1>5. want'[a] = w /\ \A x \in Clients \ {a} : want'[x] = want[x]
  BY <1>1 DEF IInv, TypeOK
<1>6. PlacesKnown' /\ ParkedKnown' /\ OneRunner' /\ Exclusion' /\ NoLostWakeup'
  <2>1. "try" \in Outside
    BY DEF Outside, PC
  <2> QED
    BY <1>1, <1>3, <1>5, <2>1, QuietStep
<1> QED
  BY <1>4, <1>6 DEF IInv

LEMMA TryFailsIInv == ASSUME IInv, NEW a \in Clients, TryFails(a) PROVE IInv'
<1>1. want[a] \in Wants(kind) /\ pc[a] = "try" /\ BegunKept
  BY DEF TryFails, Enlist, IInv, PlacesKnown, BegunKept
<1>2. CASE Goto(a, "slow") /\ UNCHANGED <<kind, word, readers, counters, parked, want, calls, dpc, ended>>
  <2>1. TypeOK'
    BY <1>2 DEF IInv, TypeOK, Goto, PC, counters
  <2>2. "slow" \in Outside
    BY DEF Outside, PC
  <2>3. PlacesKnown' /\ ParkedKnown' /\ OneRunner' /\ Exclusion' /\ NoLostWakeup'
    BY <1>1, <1>2, <2>2, QuietStep DEF counters
  <2> QED
    BY <2>1, <2>3 DEF IInv
<1>3. CASE want[a] \in {"read", "write"} /\ Enlist(a)
  <2>1. Blocked(a)
    BY <1>3 DEF TryFails
  <2>2. kind = "rwlock"
    BY <1>1, <1>3, KindsAssumption DEF Wants, IInv, TypeOK
  <2>3. TypeOK'
    BY SMTT(30), <1>3 DEF Enlist, IInv, TypeOK, Goto, PC
  <2>4. UNCHANGED <<kind, word, readers, runner, parked, want>>
    BY <1>3 DEF Enlist
  <2>5. CASE a \in Fibers
    <3>1. Goto(a, "armed") /\ "armed" \in Outside
      BY <1>3, <2>5 DEF Enlist, Outside, PC
    <3>2. PlacesKnown' /\ ParkedKnown' /\ OneRunner' /\ Exclusion' /\ NoLostWakeup'
      BY <1>1, <2>2, <2>4, <2>5, <3>1, QuietStep
    <3> QED
      BY <2>3, <3>2 DEF IInv
  <2>6. CASE a \notin Fibers
    <3>1. Goto(a, "waiting") /\ "waiting" \in Outside /\ a \in Threads
      BY <1>3, <2>6 DEF Enlist, Outside, PC, Clients
    <3>2. Blocked(a)'
      BY <2>1, <2>4 DEF Blocked, OnceOver
    <3>3. PlacesKnown' /\ ParkedKnown' /\ OneRunner' /\ Exclusion' /\ NoLostWakeup'
      BY <1>1, <2>2, <2>4, <2>6, <3>1, <3>2, QuietStep
    <3> QED
      BY <2>3, <3>3 DEF IInv
  <2> QED
    BY <2>5, <2>6
<1> QED
  BY <1>2, <1>3 DEF TryFails

LEMMA SlowWaitsIInv == ASSUME IInv, NEW a \in Clients, SlowWaits(a) PROVE IInv'
<1>1. pc[a] = "slow" /\ BlockedStill(a) /\ Enlist(a) /\ want[a] \in Wants(kind) /\ BegunKept
  BY DEF SlowWaits, Enlist, IInv, PlacesKnown, BegunKept
<1>2. TypeOK'
  BY <1>1 DEF Enlist, IInv, TypeOK, Goto, PC
<1>3. UNCHANGED <<kind, word, readers, runner, parked, want>>
  BY <1>1 DEF Enlist
<1>4. kind = "mutex" => word # 0
  BY <1>1 DEF Wants, BlockedStill, Blocked
<1>5. CASE a \in Fibers
  <2>1. Goto(a, "armed") /\ "armed" \in Outside
    BY <1>1, <1>5 DEF Enlist, Outside, PC
  <2>2. PlacesKnown' /\ ParkedKnown' /\ OneRunner' /\ Exclusion' /\ NoLostWakeup'
    BY <1>1, <1>3, <1>4, <1>5, <2>1, QuietStep
  <2> QED
    BY <1>2, <2>2 DEF IInv
<1>6. CASE a \notin Fibers
  <2>1. Goto(a, "waiting") /\ "waiting" \in Outside /\ a \in Threads
    BY <1>1, <1>6 DEF Enlist, Outside, PC, Clients
  <2>2. Blocked(a)'
    BY <1>1, <1>3, <1>6 DEF BlockedStill, Blocked, OnceOver
  <2>3. PlacesKnown' /\ ParkedKnown' /\ OneRunner' /\ Exclusion' /\ NoLostWakeup'
    BY <1>1, <1>3, <1>4, <1>6, <2>1, <2>2, QuietStep
  <2> QED
    BY <1>2, <2>3 DEF IInv
<1> QED
  BY <1>5, <1>6

LEMMA SlowPassesIInv == ASSUME IInv, NEW a \in Clients, SlowPasses(a) PROVE IInv'
<1>1. /\ pc[a] = "slow" /\ want[a] \in Wants(kind) /\ BegunKept
      /\ UNCHANGED <<kind, word, readers, runner, parked, want>>
  BY SignalKeeps DEF SlowPasses, IInv, PlacesKnown, counters
<1>2. TypeOK'
  BY DEF SlowPasses, SignalDrained, IInv, TypeOK, Goto, PC, counters
<1>3. PICK label \in {"idle", "try"} :
        Goto(a, label) /\ (label = "idle" => want[a] = "do" \/ want[a] = "wait")
  BY DEF SlowPasses
<1>4. label \in Outside /\ (kind = "mutex" => label = "try")
  BY <1>1, <1>3 DEF Outside, PC, Wants
<1>5. PlacesKnown' /\ ParkedKnown' /\ OneRunner' /\ Exclusion' /\ NoLostWakeup'
  BY <1>1, <1>3, <1>4, QuietStep
<1> QED
  BY <1>2, <1>5 DEF IInv

LEMMA ResumeIInv == ASSUME IInv, NEW a \in Fibers, Resume(a) PROVE IInv'
<1>1. /\ pc[a] = "ready" /\ a \in Clients /\ want[a] \in Wants(kind) /\ BegunKept
      /\ UNCHANGED <<kind, word, readers, runner, parked, want>>
  BY DEF Resume, IInv, PlacesKnown, counters, Clients, BegunKept
<1>2. TypeOK'
  BY DEF Resume, IInv, TypeOK, Goto, PC, counters
<1>3. PICK label \in {"idle", "try"} : Goto(a, label) /\ (label = "idle" => want[a] = "do")
  BY DEF Resume
<1>4. label \in Outside /\ (kind = "mutex" => label = "try")
  BY <1>1, <1>3 DEF Outside, PC, Wants
<1>5. PlacesKnown' /\ ParkedKnown' /\ OneRunner' /\ Exclusion' /\ NoLostWakeup'
  BY <1>1, <1>3, <1>4, QuietStep
<1> QED
  BY <1>2, <1>5 DEF IInv

LEMMA WakesIInv == ASSUME IInv, NEW a \in Clients, Wakes(a) PROVE IInv'
<1>1. /\ pc[a] = "woken" /\ want[a] \in Wants(kind) /\ a \in Threads /\ BegunKept
      /\ UNCHANGED <<kind, word, readers, runner, parked, want>>
  BY SignalKeeps DEF Wakes, IInv, PlacesKnown, BegunKept
<1>2. TypeOK'
  BY DEF Wakes, SignalDrained, IInv, TypeOK, Goto, PC
<1>3. PICK label \in {"waiting", "slow", "try"} :
        Goto(a, label) /\ (label = "waiting" => Blocked(a))
  BY DEF Wakes
<1>4. label \in Outside
  BY <1>3 DEF Outside, PC
<1>5. label = "waiting" => Blocked(a)' /\ (kind = "mutex" => word # 0)
  BY <1>1, <1>3 DEF Blocked, OnceOver, Wants
<1>6. PlacesKnown' /\ ParkedKnown' /\ OneRunner' /\ Exclusion' /\ NoLostWakeup'
  BY <1>1, <1>3, <1>4, <1>5, QuietStep
<1> QED
  BY <1>2, <1>6 DEF IInv

LEMMA SpuriousWakeupIInv == ASSUME IInv, NEW a \in Threads, SpuriousWakeup(a) PROVE IInv'
<1>1. /\ pc[a] = "waiting" /\ a \in Clients /\ want[a] \in Wants(kind) /\ BegunKept
      /\ UNCHANGED <<kind, word, readers, runner, parked, want>>
      /\ Goto(a, "woken") /\ "woken" \in Outside
  BY DEF SpuriousWakeup, IInv, PlacesKnown, counters, Clients, Outside, PC, BegunKept
<1>2. TypeOK'
  BY DEF SpuriousWakeup, IInv, TypeOK, Goto, PC, counters
<1>3. PlacesKnown' /\ ParkedKnown' /\ OneRunner' /\ Exclusion' /\ NoLostWakeup'
  BY <1>1, QuietStep
<1> QED
  BY <1>2, <1>3 DEF IInv

\* The finalize pushes a fiber on the list only while it is blocked.
LEMMA PushSeq ==
  ASSUME NEW S, NEW s \in Seq(S), NEW e \in S
  PROVE  /\ <<e>> \o s \in Seq(S)
         /\ Len(<<e>> \o s) = Len(s) + 1
         /\ (<<e>> \o s)[1] = e
         /\ \A i \in 1 .. Len(s) : (<<e>> \o s)[i + 1] = s[i]
OBVIOUS

LEMMA FinalizeIInv == ASSUME IInv, NEW a \in Fibers, Finalize(a) PROVE IInv'
<1>1. /\ pc[a] = "armed" /\ a \in Clients /\ want[a] \in Wants(kind)
      /\ UNCHANGED <<kind, word, readers, runner, want>>
      /\ dpc' \in {"none", "drain", "wait", "freed"} /\ inflight' \in Int /\ BegunKept
      /\ UNCHANGED <<waiters, calls, ended>>
  BY SignalKeeps DEF Finalize, SignalDrained, IInv, TypeOK, PlacesKnown, Clients
<1>2. CASE UNCHANGED parked /\ Goto(a, "ready")
  <2>1. TypeOK'
    BY <1>1, <1>2 DEF IInv, TypeOK, Goto, PC
  <2>2. "ready" \in Outside
    BY DEF Outside, PC
  <2>3. PlacesKnown' /\ ParkedKnown' /\ OneRunner' /\ Exclusion' /\ NoLostWakeup'
    BY <1>1, <1>2, <2>2, QuietStep
  <2> QED
    BY <2>1, <2>3 DEF IInv
<1>3. CASE Parks(a) /\ parked' = <<a>> \o parked /\ Goto(a, "parked")
  <2>1. /\ a \in Actors
        /\ pc \in [Actors -> PC]
        /\ pc'[a] = "parked"
        /\ \A x \in Actors : x # a => pc'[x] = pc[x]
    BY <1>1, <1>3 DEF IInv, TypeOK, Goto, Actors
  <2>2. /\ parked' \in Seq(Fibers)
        /\ Len(parked') = Len(parked) + 1
        /\ parked'[1] = a
        /\ \A i \in 1 .. Len(parked) : parked'[i + 1] = parked[i]
    BY <1>3, PushSeq DEF IInv, TypeOK
  <2>3. TypeOK'
    BY <1>1, <1>3, <2>2 DEF IInv, TypeOK, Goto, PC
  <2>4. PlacesKnown'
    BY <1>1, <2>1, ActorsAssumption DEF IInv, PlacesKnown, Wants, Clients, Actors
  <2>5. ParkedKnown'
    <3>1. a \notin ParkedSet /\ Len(parked) \in Nat
      BY <1>1 DEF IInv, ParkedKnown, TypeOK
    <3>2. ParkedSet' = ParkedSet \cup {a}
      <4>1. \A i \in 1 .. Len(parked') : i = 1 \/ i - 1 \in 1 .. Len(parked)
        BY <2>2, <3>1
      <4>2. \A i \in 1 .. Len(parked') : parked'[i] = a \/ parked'[i] \in ParkedSet
        <5> SUFFICES ASSUME NEW i \in 1 .. Len(parked'), i # 1 PROVE parked'[i] \in ParkedSet
          BY <2>2
        <5>1. i - 1 \in 1 .. Len(parked) /\ (i - 1) + 1 = i
          BY <4>1
        <5>2. parked'[i] = parked[i - 1]
          BY <5>1, <2>2
        <5> QED
          BY <5>1, <5>2 DEF ParkedSet
      <4>3. \A i \in 1 .. Len(parked) : i + 1 \in 1 .. Len(parked')
        BY <2>2, <3>1
      <4>4. 1 \in 1 .. Len(parked')
        BY <2>2, <3>1
      <4> QED
        BY <2>2, <4>2, <4>3, <4>4 DEF ParkedSet
    <3>3. \A f \in Fibers : pc'[f] = "parked" <=> f \in ParkedSet'
      BY <2>1, <3>2 DEF IInv, ParkedKnown, Actors, Clients
    <3>4. \A i, j \in 1 .. Len(parked') : parked'[i] = parked'[j] => i = j
      <4> SUFFICES ASSUME NEW i \in 1 .. Len(parked'), NEW j \in 1 .. Len(parked'),
                          parked'[i] = parked'[j]
                   PROVE  i = j
        OBVIOUS
      <4>1. \A k \in 1 .. Len(parked') :
              k = 1 \/ (k - 1 \in 1 .. Len(parked) /\ parked'[k] = parked[k - 1])
        BY <2>2, <3>1
      <4>2. \A k \in 1 .. Len(parked) : parked[k] # a
        BY <3>1 DEF ParkedSet
      <4>3. CASE i = 1 \/ j = 1
        BY <2>2, <4>1, <4>2, <4>3
      <4>4. CASE i # 1 /\ j # 1
        <5>1. parked[i - 1] = parked[j - 1] /\ i - 1 \in 1 .. Len(parked) /\ j - 1 \in 1 .. Len(parked)
          BY <4>1, <4>4
        <5>2. i - 1 = j - 1
          BY <5>1 DEF IInv, ParkedKnown
        <5> QED
          BY <5>2
      <4> QED
        BY <4>3, <4>4
    <3> QED
      BY <3>3, <3>4 DEF ParkedKnown
  <2>6. OneRunner'
    BY <1>1, <2>1 DEF IInv, OneRunner, Clients, Actors
  <2>7. Exclusion'
    <3>1. \A w : Inside(w)' = Inside(w)
      BY <1>1, <2>1, InsideSame DEF Actors
    <3> QED
      BY <1>1, <3>1 DEF IInv, Exclusion, BegunKept
  <2>8. NoLostWakeup'
    <3> SUFFICES ASSUME NEW x \in Clients, pc'[x] \in {"parked", "waiting"}, ~Blocked(x)'
                 PROVE  OnTheWay'
      BY DEF NoLostWakeup
    <3>1. ~Blocked(x)
      BY <1>1 DEF Blocked, OnceOver
    <3>2. x # a /\ pc[x] = pc'[x]
      BY <1>3, <3>1, <2>1 DEF Parks, Actors
    <3>3. OnTheWay
      BY <3>1, <3>2 DEF IInv, NoLostWakeup
    <3>4. kind # "mutex"
      BY <1>1, <1>3, <3>1, <3>2 DEF Parks, Blocked, Wants, IInv, PlacesKnown
    <3>5. \A d \in Doers : pc'[d] = pc[d]
      BY <1>1, <2>1, ActorsAssumption DEF Actors, Clients
    <3>6. \A y \in Clients : pc[y] = "in" => pc'[y] = "in"
      BY <1>1, <2>1 DEF Actors
    <3> QED
      BY <1>1, <3>3, <3>4, <3>5, <3>6, OnTheWayKept
  <2> QED
    BY <2>3, <2>4, <2>5, <2>6, <2>7, <2>8 DEF IInv
<1> QED
  BY <1>2, <1>3 DEF Finalize

-----------------------------------------------------------------------------
(***************************************************************************)
(* Getting in.                                                             *)
(***************************************************************************)
LEMMA TryEnterIInv == ASSUME IInv, NEW a \in Clients, TryEnter(a) PROVE IInv'
<1>1. /\ pc[a] = "try" /\ want[a] \in Wants(kind) /\ a \in Actors /\ pc \in [Actors -> PC]
      /\ UNCHANGED <<kind, runner, parked, want, dpc>> /\ BegunKept
      /\ word \in Int /\ readers \in Int
  BY DEF TryEnter, counters, IInv, TypeOK, PlacesKnown, Actors, BegunKept
<1>2. TypeOK'
  BY DEF TryEnter, counters, IInv, TypeOK, Goto, PC
<1>3. CASE want[a] = "wait" /\ UNCHANGED <<word, readers>> /\ Goto(a, "idle")
  <2>1. "idle" \in Outside /\ kind # "mutex"
    BY <1>1, <1>3 DEF Outside, PC, Wants
  <2>2. PlacesKnown' /\ ParkedKnown' /\ OneRunner' /\ Exclusion' /\ NoLostWakeup'
    BY <1>1, <1>3, <2>1, QuietStep
  <2> QED
    BY <1>2, <2>2 DEF IInv
<1>4. ASSUME NEW label \in {"in", "bump"}, Goto(a, label),
             label = "bump" => kind = "once", label = "in" => kind # "waitgroup",
             kind \in {"mutex", "rwlock", "once"},
             \/ word = 0 /\ word' = 1 /\ (kind = "rwlock" => readers = 0) /\ UNCHANGED readers
             \/ kind = "rwlock" /\ word = 0 /\ UNCHANGED word /\ readers' = readers + 1,
             OneRunner', Exclusion'
      PROVE  IInv'
  <2>1. /\ pc'[a] = label
        /\ \A x \in Actors : x # a => pc'[x] = pc[x]
    BY <1>1, <1>4 DEF Goto
  <2>2. PlacesKnown'
    BY <1>1, <1>4, <2>1, ActorsAssumption DEF IInv, PlacesKnown, Wants, Clients, Actors
  <2>3. ParkedKnown'
    BY <1>1, <1>4, <2>1 DEF IInv, ParkedKnown, ParkedSet, Clients, Actors
  <2>4. NoLostWakeup'
    <3> SUFFICES ASSUME NEW x \in Clients, pc'[x] \in {"parked", "waiting"}
                 PROVE  Blocked(x)' \/ OnTheWay'
      BY DEF NoLostWakeup
    <3>1. pc[x] = pc'[x] /\ want[x] \in Wants(kind)
      BY <1>4, <2>1 DEF Actors, IInv, PlacesKnown
    <3>2. CASE word' = 1
      BY <1>1, <1>4, <3>1, <3>2 DEF Blocked, OnceOver, Wants
    <3>3. CASE kind = "rwlock" /\ word = 0 /\ UNCHANGED word /\ readers' = readers + 1 /\ dpc = "none"
      <4>1. Blocked(x)
        BY <3>1, <3>3 DEF IInv, NoLostWakeup, OnTheWay
      <4>2. readers \in Nat
        BY <3>3, InsideFinite DEF IInv, Exclusion
      <4> QED
        BY <1>1, <3>1, <3>3, <4>1, <4>2 DEF Blocked, Wants
    <3>4. CASE kind = "rwlock" /\ dpc # "none"
      BY <1>1, <1>4, <2>1, <3>4 DEF OnTheWay
    <3> QED
      BY <1>4, <3>2, <3>3, <3>4
  <2> QED
    BY <1>2, <1>4, <2>2, <2>3, <2>4 DEF IInv
<1>5. CASE Goto(a, "in") /\ want[a] \in {"lock", "read", "write"}
  <2>1. /\ pc'[a] = "in"
        /\ \A x \in Clients \ {a} : (pc'[x] = "in") <=> (pc[x] = "in")
    BY <1>1, <1>5 DEF Goto, Actors
  <2>2. /\ Cardinality(Inside(want[a])') = Cardinality(Inside(want[a])) + 1
        /\ \A w : w # want[a] => Inside(w)' = Inside(w)
    BY <1>1, <2>1, InsideAdd
  <2>3. kind # "once" /\ OneRunner'
    BY <1>1, <1>5 DEF Wants, OneRunner
  <2>4. CASE want[a] = "lock"
    <3>1. word = 0 /\ word' = 1 /\ UNCHANGED readers /\ kind = "mutex"
      BY <1>1, <2>4, KindsAssumption DEF TryEnter, Wants, IInv, TypeOK
    <3>2. Exclusion'
      BY <1>1, <2>2, <2>4, <3>1 DEF IInv, Exclusion
    <3> QED
      BY <1>4, <1>5, <2>3, <3>1, <3>2
  <2>5. CASE want[a] = "read"
    <3>1. word = 0 /\ UNCHANGED word /\ readers' = readers + 1 /\ kind = "rwlock"
      BY <1>1, <2>5, KindsAssumption DEF TryEnter, Wants, IInv, TypeOK
    <3>2. Exclusion'
      BY <1>1, <2>2, <2>5, <3>1 DEF IInv, Exclusion
    <3> QED
      BY <1>4, <1>5, <2>3, <3>1, <3>2
  <2>6. CASE want[a] = "write"
    <3>1. word = 0 /\ readers = 0 /\ word' = 1 /\ UNCHANGED readers /\ kind = "rwlock"
      BY <1>1, <2>6, KindsAssumption DEF TryEnter, WriteFree, Wants, IInv, TypeOK
    <3>2. Exclusion'
      BY <1>1, <2>2, <2>6, <3>1 DEF IInv, Exclusion
    <3> QED
      BY <1>4, <1>5, <2>3, <3>1, <3>2
  <2> QED
    BY <1>5, <2>4, <2>5, <2>6
<1>6. CASE want[a] = "do" /\ word = 0 /\ word' = 1 /\ UNCHANGED readers /\ Goto(a, "bump")
  <2>1. kind = "once"
    BY <1>1, <1>6, KindsAssumption DEF Wants, IInv, TypeOK
  <2>2. /\ pc'[a] = "bump"
        /\ \A x \in Actors : x # a => pc'[x] = pc[x]
    BY <1>1, <1>6 DEF Goto
  <2>3. \A x \in Clients : pc[x] \notin {"bump", "in"}
    BY <1>6, <2>1 DEF IInv, OneRunner
  <2>4. OneRunner'
    BY <1>6, <2>2, <2>3 DEF OneRunner, Actors
  <2>5. Exclusion'
    <3>1. \A w : Inside(w)' = Inside(w)
      BY <1>1, <2>2, InsideSame DEF Actors
    <3> QED
      BY <1>1, <2>1, <3>1 DEF IInv, Exclusion
  <2> QED
    BY <1>4, <1>6, <2>1, <2>4, <2>5
<1> QED
  BY <1>3, <1>5, <1>6 DEF TryEnter

-----------------------------------------------------------------------------
(***************************************************************************)
(* Waking.  at is where everybody is once the waker has moved.             *)
(***************************************************************************)
LEMMA WakingEffect ==
  ASSUME NEW at \in [Actors -> PC], NEW fs, NEW ts, pc' = Waking(at, fs, ts)
  PROVE  /\ pc' \in [Actors -> PC]
         /\ \A x \in Actors : pc'[x] = IF x \in fs THEN "ready" ELSE IF x \in ts THEN "woken" ELSE at[x]
BY DEF Waking, PC

\* After everybody was woken nobody waits, and nobody else has moved.
LEMMA WakeEverybody ==
  ASSUME IInv, NEW at \in [Actors -> PC], NEW ts \in SUBSET At("waiting"),
         pc' = Waking(at, ParkedSet, ts), parked' = <<>>, UNCHANGED <<kind, want>>,
         \A x \in Actors : at[x] = pc[x] \/ (at[x] = "idle" /\ pc[x] \in {"idle", "in", "dec"}),
         ts = At("waiting") \/ \A x \in Clients : pc[x] = "waiting" => Blocked(x)' \/ OnTheWay'
  PROVE  /\ pc' \in [Actors -> PC]
         /\ parked' \in Seq(Fibers)
         /\ PlacesKnown' /\ ParkedKnown' /\ NoLostWakeup'
         /\ \A x \in Clients : pc'[x] \in {"bump", "in"} <=> at[x] \in {"bump", "in"}
         /\ \A x \in Clients : (pc'[x] = "in") <=> (at[x] = "in")
         /\ \A d \in Doers : pc'[d] = at[d]
<1>1. /\ pc' \in [Actors -> PC]
      /\ \A x \in Actors : pc'[x] = IF x \in ParkedSet THEN "ready"
                                    ELSE IF x \in ts THEN "woken" ELSE at[x]
  BY WakingEffect
<1>2. ParkedSet \subseteq Fibers
  BY DEF ParkedSet, IInv, TypeOK
<1>3. \A x \in ParkedSet : pc[x] = "parked"
  BY <1>2 DEF IInv, ParkedKnown
<1>4. \A x \in ts : x \in Threads /\ pc[x] = "waiting"
  BY DEF At, IInv, PlacesKnown, Actors
<1>5. \A d \in Doers : d \notin ParkedSet /\ d \notin ts
  BY <1>2, <1>4, ActorsAssumption
<1>6. \A x \in Clients : pc'[x] # "parked"
  BY <1>1, <1>2 DEF IInv, PlacesKnown, ParkedKnown, Clients, Actors
<1>7. PlacesKnown'
  <2>1. ASSUME NEW x \in Clients
        PROVE  /\ pc'[x] \notin {"work", "dec"}
               /\ pc'[x] # "idle" => want'[x] \in Wants(kind)'
               /\ pc'[x] \in {"armed", "parked", "ready"} => x \in Fibers
               /\ pc'[x] \in {"waiting", "woken"} => x \in Threads
               /\ pc'[x] = "bump" => kind' = "once"
               /\ pc'[x] = "in" => kind' # "waitgroup"
    <3>1. x \in Actors
      BY DEF Actors
    <3>2. Wants(kind)' = Wants(kind) /\ want' = want /\ kind' = kind
      BY DEF Wants
    <3>3. CASE x \in ParkedSet
      BY <1>1, <1>2, <1>3, <3>1, <3>2, <3>3 DEF IInv, PlacesKnown
    <3>4. CASE x \notin ParkedSet /\ x \in ts
      BY <1>1, <1>4, <3>1, <3>2, <3>4 DEF IInv, PlacesKnown
    <3>5. CASE x \notin ParkedSet /\ x \notin ts
      BY <1>1, <3>1, <3>2, <3>5 DEF IInv, PlacesKnown
    <3> QED
      BY <3>3, <3>4, <3>5
  <2>2. ASSUME NEW d \in Doers
        PROVE  pc'[d] \in {"idle", "work", "dec"} /\ (pc'[d] # "idle" => kind' = "waitgroup")
    BY <1>1, <1>5, <2>2 DEF IInv, PlacesKnown, Actors
  <2> QED
    BY <2>1, <2>2 DEF PlacesKnown
<1>8. ParkedKnown'
  BY <1>6 DEF ParkedKnown, ParkedSet, Clients
<1>9. NoLostWakeup'
  <2> SUFFICES ASSUME NEW x \in Clients, pc'[x] \in {"parked", "waiting"}
               PROVE  Blocked(x)' \/ OnTheWay'
    BY DEF NoLostWakeup
  <2>1. x \notin ts /\ pc[x] = "waiting" /\ x \in Actors
    BY <1>1, <1>6 DEF Actors
  <2>2. ts # At("waiting")
    BY <2>1 DEF At
  <2> QED
    BY <2>1, <2>2
<1>10. /\ \A x \in Clients : pc'[x] \in {"bump", "in"} <=> at[x] \in {"bump", "in"}
       /\ \A x \in Clients : (pc'[x] = "in") <=> (at[x] = "in")
  <2> SUFFICES ASSUME NEW x \in Clients
               PROVE  /\ pc'[x] \in {"bump", "in"} <=> at[x] \in {"bump", "in"}
                      /\ (pc'[x] = "in") <=> (at[x] = "in")
    OBVIOUS
  <2>1. x \in Actors
    BY DEF Actors
  <2> QED
    BY <1>1, <1>3, <1>4, <2>1
<1>11. \A d \in Doers : pc'[d] = at[d]
  BY <1>1, <1>5 DEF Actors
<1> QED
  BY <1>1, <1>7, <1>8, <1>9, <1>10, <1>11

LEMMA LeftKnown ==
  ASSUME IInv, NEW a \in Actors
  PROVE  /\ Left(a) \in [Actors -> PC]
         /\ Left(a)[a] = "idle"
         /\ \A x \in Actors : x # a => Left(a)[x] = pc[x]
BY DEF IInv, TypeOK, Left, PC

LEMMA RwUnlockIInv == ASSUME IInv, NEW a \in Clients, RwUnlock(a) PROVE IInv'
<1>1. /\ pc[a] = "in" /\ want[a] \in {"read", "write"} /\ want[a] \in Wants(kind)
      /\ UNCHANGED <<kind, waiters, inflight, runner, want, calls, dpc, ended>>
      /\ pc' = Waking(Left(a), ParkedSet, At("waiting")) /\ parked' = <<>>
      /\ a \in Actors /\ word \in Int /\ readers \in Int
  BY DEF RwUnlock, WakeAll, counters, IInv, PlacesKnown, TypeOK, Actors
<1>2. kind = "rwlock"
  BY <1>1, KindsAssumption DEF Wants, IInv, TypeOK
<1>3. /\ Left(a) \in [Actors -> PC] /\ Left(a)[a] = "idle"
      /\ \A x \in Actors : x # a => Left(a)[x] = pc[x]
  BY <1>1, LeftKnown
<1>4. /\ pc' \in [Actors -> PC] /\ parked' \in Seq(Fibers)
      /\ PlacesKnown' /\ ParkedKnown' /\ NoLostWakeup'
      /\ \A x \in Clients : (pc'[x] = "in") <=> (Left(a)[x] = "in")
  BY <1>1, <1>3, WakeEverybody
<1>5. /\ Cardinality(Inside(want[a])') = Cardinality(Inside(want[a])) - 1
      /\ Cardinality(Inside(want[a])) >= 1
      /\ \A w : w # want[a] => Inside(w)' = Inside(w)
  <2>1. pc'[a] # "in" /\ \A x \in Clients \ {a} : (pc'[x] = "in") <=> (pc[x] = "in")
    BY <1>3, <1>4 DEF Actors
  <2> QED
    BY <1>1, <2>1, InsideRemove
<1>6. Exclusion'
  <2> SUFFICES ASSUME dpc = "none" PROVE Exclusion'
    BY <1>1, <1>2 DEF Exclusion
  <2>1. CASE word # 0
    <3>1. word' = 0 /\ readers' = readers
      BY <2>1 DEF RwUnlock, HeldByWriter
    <3>2. want[a] = "write" /\ word = 1 /\ readers = 0
      BY <1>1, <1>2, <1>5, <2>1, InsideFinite DEF IInv, Exclusion
    <3> QED
      BY <1>1, <1>2, <1>5, <3>1, <3>2 DEF IInv, Exclusion
  <2>2. CASE word = 0
    <3>1. word' = 0 /\ readers' = readers - 1
      BY <2>2 DEF RwUnlock, HeldByWriter
    <3>2. want[a] = "read" /\ readers >= 1
      BY <1>1, <1>2, <1>5, <2>2 DEF IInv, Exclusion
    <3> QED
      BY <1>1, <1>2, <1>5, <2>2, <3>1, <3>2 DEF IInv, Exclusion
  <2> QED
    BY <2>1, <2>2
<1>7. TypeOK'
  <2>1. word' \in Int /\ readers' \in Int
    BY <1>1 DEF RwUnlock
  <2> QED
    BY <1>1, <1>4, <2>1 DEF IInv, TypeOK
<1> QED
  BY <1>1, <1>2, <1>4, <1>6, <1>7 DEF IInv, OneRunner

LEMMA OncePublishIInv == ASSUME IInv, NEW a \in Clients, OncePublish(a) PROVE IInv'
<1>1. /\ pc[a] = "in" /\ want[a] = "do" /\ want[a] \in Wants(kind)
      /\ UNCHANGED <<kind, readers, waiters, inflight, want, calls>>
      /\ word' = 2 /\ runner' = runner - 1 /\ ended' = TRUE
      /\ dpc' \in {"none", "drain", "wait", "freed"}
      /\ pc' = Waking(Left(a), ParkedSet, At("waiting")) /\ parked' = <<>>
      /\ a \in Actors /\ runner \in Nat
  BY DEF OncePublish, WakeAll, SignalDrained, IInv, PlacesKnown, TypeOK, Actors
<1>2. kind = "once"
  BY <1>1, KindsAssumption DEF Wants, IInv, TypeOK
<1>3. /\ Left(a) \in [Actors -> PC] /\ Left(a)[a] = "idle"
      /\ \A x \in Actors : x # a => Left(a)[x] = pc[x]
  BY <1>1, LeftKnown
<1>4. /\ pc' \in [Actors -> PC] /\ parked' \in Seq(Fibers)
      /\ PlacesKnown' /\ ParkedKnown' /\ NoLostWakeup'
      /\ \A x \in Clients : pc'[x] \in {"bump", "in"} <=> Left(a)[x] \in {"bump", "in"}
      /\ \A x \in Clients : (pc'[x] = "in") <=> (Left(a)[x] = "in")
  BY <1>1, <1>3, WakeEverybody
<1>5. /\ Cardinality(Inside("do")') = Cardinality(Inside("do")) - 1
      /\ Cardinality(Inside("do")) >= 1
  <2>1. pc'[a] # "in" /\ \A x \in Clients \ {a} : (pc'[x] = "in") <=> (pc[x] = "in")
    BY <1>3, <1>4 DEF Actors
  <2> QED
    BY <1>1, <2>1, InsideRemove
<1>6. Exclusion' /\ runner' \in Nat
  BY <1>1, <1>2, <1>5 DEF IInv, Exclusion
<1>7. OneRunner'
  <2>1. \A x \in Clients : pc'[x] \in {"bump", "in"} => pc[x] \in {"bump", "in"}
    BY <1>3, <1>4 DEF Actors
  <2> QED
    BY <1>1, <1>2, <2>1 DEF IInv, OneRunner
<1>8. TypeOK'
  BY <1>1, <1>4, <1>6 DEF IInv, TypeOK
<1> QED
  BY <1>4, <1>6, <1>7, <1>8 DEF IInv

\* The mutex's unlock hands the wake to the first of the list: what stays on
\* the list stays parked.
LEMMA PopSeq ==
  ASSUME NEW S, NEW s \in Seq(S), s # <<>>
  PROVE  /\ Len(s) \in Nat /\ Len(s) >= 1
         /\ Head(s) = s[1] /\ s[1] \in S
         /\ Tail(s) \in Seq(S)
         /\ Len(Tail(s)) = Len(s) - 1
         /\ \A i \in 1 .. Len(s) - 1 : Tail(s)[i] = s[i + 1]
OBVIOUS

LEMMA MutexUnlockIInv == ASSUME IInv, NEW a \in Clients, MutexUnlock(a) PROVE IInv'
<1> DEFINE fs == IF parked = <<>> THEN {} ELSE {Head(parked)}
<1>1. /\ pc[a] = "in" /\ want[a] = "lock" /\ want[a] \in Wants(kind)
      /\ UNCHANGED <<kind, readers, waiters, inflight, runner, want, calls, dpc, ended>>
      /\ word' = 0
      /\ parked' = IF parked = <<>> THEN <<>> ELSE Tail(parked)
      /\ a \in Actors /\ word \in Int /\ parked \in Seq(Fibers)
  BY DEF MutexUnlock, counters, IInv, PlacesKnown, TypeOK, Actors
<1>2. PICK ts \in SUBSET At("waiting") :
        /\ Cardinality(ts) = 1 \/ At("waiting") = {}
        /\ pc' = Waking(Left(a), fs, ts)
  BY DEF MutexUnlock
<1>3. kind = "mutex"
  BY <1>1, KindsAssumption DEF Wants, IInv, TypeOK
<1>4. /\ Left(a) \in [Actors -> PC] /\ Left(a)[a] = "idle"
      /\ \A x \in Actors : x # a => Left(a)[x] = pc[x]
  BY <1>1, LeftKnown
<1>5. /\ pc' \in [Actors -> PC]
      /\ \A x \in Actors : pc'[x] = IF x \in fs THEN "ready" ELSE IF x \in ts THEN "woken" ELSE Left(a)[x]
  <2> HIDE DEF fs
  <2> QED
    BY <1>2, <1>4, WakingEffect
<1>6. \A x \in fs : x \in Fibers /\ pc[x] = "parked"
  <2> SUFFICES ASSUME parked # <<>> PROVE Head(parked) \in Fibers /\ pc[Head(parked)] = "parked"
    OBVIOUS
  <2>1. Head(parked) = parked[1] /\ parked[1] \in Fibers /\ 1 \in 1 .. Len(parked)
    BY <1>1, PopSeq
  <2> QED
    BY <2>1 DEF IInv, ParkedKnown, ParkedSet
<1>7. \A x \in ts : x \in Threads /\ pc[x] = "waiting"
  BY DEF At, IInv, PlacesKnown, Actors
<1>8. pc'[a] = "idle"
  BY <1>1, <1>4, <1>5, <1>6, <1>7
<1>9. \A x \in Clients : x # a => (pc'[x] = pc[x] \/ (x \in fs /\ pc'[x] = "ready") \/ (x \in ts /\ pc'[x] = "woken"))
  BY <1>4, <1>5 DEF Actors
<1>10. \A d \in Doers : pc'[d] = pc[d]
  <2> SUFFICES ASSUME NEW d \in Doers PROVE pc'[d] = pc[d]
    OBVIOUS
  <2>1. d \in Actors /\ d # a /\ d \notin Fibers /\ d \notin Threads
    BY ActorsAssumption DEF Actors, Clients
  <2>2. d \notin fs /\ d \notin ts
    BY <1>6, <1>7, <2>1
  <2> QED
    BY <1>4, <1>5, <2>1, <2>2
<1>11. PlacesKnown'
  <2>1. want' = want /\ kind' = kind /\ Wants(kind)' = Wants(kind)
    BY <1>1 DEF Wants
  <2>2. ASSUME NEW x \in Clients
        PROVE  /\ pc'[x] \notin {"work", "dec"}
               /\ pc'[x] # "idle" => want'[x] \in Wants(kind)'
               /\ pc'[x] \in {"armed", "parked", "ready"} => x \in Fibers
               /\ pc'[x] \in {"waiting", "woken"} => x \in Threads
               /\ pc'[x] = "bump" => kind' = "once"
               /\ pc'[x] = "in" => kind' # "waitgroup"
    <3>1. CASE x = a
      BY <1>8, <3>1
    <3>2. CASE x # a /\ pc'[x] = pc[x]
      BY <2>1, <3>2 DEF IInv, PlacesKnown
    <3>3. CASE x \in fs /\ pc'[x] = "ready"
      BY <1>6, <2>1, <3>3 DEF IInv, PlacesKnown
    <3>4. CASE x \in ts /\ pc'[x] = "woken"
      BY <1>7, <2>1, <3>4 DEF IInv, PlacesKnown
    <3> QED
      BY <1>9, <3>1, <3>2, <3>3, <3>4
  <2> QED
    BY <1>10, <2>1, <2>2 DEF PlacesKnown, IInv
<1>12. ParkedKnown'
  <2>1. \A f \in Fibers : pc'[f] = "parked" <=> (pc[f] = "parked" /\ f \notin fs)
    <3> SUFFICES ASSUME NEW f \in Fibers
                 PROVE  pc'[f] = "parked" <=> (pc[f] = "parked" /\ f \notin fs)
      OBVIOUS
    <3>1. f \in Actors /\ f \in Clients
      BY DEF Actors, Clients
    <3>2. f \in ts => pc[f] = "waiting"
      BY <1>7
    <3> QED
      BY <1>1, <1>4, <1>5, <3>1, <3>2
  <2>2. CASE parked = <<>>
    BY <1>1, <2>1, <2>2 DEF IInv, ParkedKnown, ParkedSet
  <2>3. CASE parked # <<>>
    <3>1. /\ Len(parked) \in Nat /\ Len(parked) >= 1 /\ Head(parked) = parked[1]
          /\ Len(parked') = Len(parked) - 1
          /\ \A i \in 1 .. Len(parked) - 1 : parked'[i] = parked[i + 1]
      BY <1>1, <2>3, PopSeq
    <3>2. \A i \in 1 .. Len(parked') :
            i + 1 \in 1 .. Len(parked) /\ i + 1 # 1 /\ parked'[i] = parked[i + 1]
      BY <3>1
    <3>3. \A f : f \in ParkedSet' <=> f \in ParkedSet /\ f # parked[1]
      <4>1. ASSUME NEW f, f \in ParkedSet' PROVE f \in ParkedSet /\ f # parked[1]
        <5>1. PICK i \in 1 .. Len(parked') : parked'[i] = f
          BY <4>1 DEF ParkedSet
        <5>2. i + 1 \in 1 .. Len(parked) /\ i + 1 # 1 /\ parked[i + 1] = f /\ 1 \in 1 .. Len(parked)
          BY <3>1, <3>2, <5>1
        <5>3. parked[i + 1] # parked[1]
          BY <5>2 DEF IInv, ParkedKnown
        <5> QED
          BY <5>2, <5>3 DEF ParkedSet
      <4>2. ASSUME NEW f, f \in ParkedSet, f # parked[1] PROVE f \in ParkedSet'
        <5>1. PICK i \in 1 .. Len(parked) : parked[i] = f
          BY <4>2 DEF ParkedSet
        <5>2. i # 1 /\ i - 1 \in 1 .. Len(parked') /\ (i - 1) + 1 = i
          BY <3>1, <4>2, <5>1
        <5>3. parked'[i - 1] = f
          BY <3>2, <5>1, <5>2
        <5> QED
          BY <5>2, <5>3 DEF ParkedSet
      <4> QED
        BY <4>1, <4>2
    <3>4. \A f \in Fibers : pc'[f] = "parked" <=> f \in ParkedSet'
      BY <2>1, <2>3, <3>1, <3>3 DEF IInv, ParkedKnown
    <3>5. \A i, j \in 1 .. Len(parked') : parked'[i] = parked'[j] => i = j
      <4> SUFFICES ASSUME NEW i \in 1 .. Len(parked'), NEW j \in 1 .. Len(parked'),
                          parked'[i] = parked'[j]
                   PROVE  i = j
        OBVIOUS
      <4>1. i + 1 \in 1 .. Len(parked) /\ j + 1 \in 1 .. Len(parked) /\ parked[i + 1] = parked[j + 1]
        BY <3>2
      <4>2. i + 1 = j + 1
        BY <4>1 DEF IInv, ParkedKnown
      <4> QED
        BY <3>1, <4>2
    <3> QED
      BY <3>4, <3>5 DEF ParkedKnown
  <2> QED
    BY <2>2, <2>3
<1>13. Exclusion'
  <2>1. \A x \in Clients \ {a} : (pc'[x] = "in") <=> (pc[x] = "in")
    BY <1>6, <1>7, <1>9
  <2>2. /\ Cardinality(Inside("lock")') = Cardinality(Inside("lock")) - 1
        /\ Cardinality(Inside("lock")) >= 1
    BY <1>1, <1>8, <2>1, InsideRemove
  <2> QED
    BY <1>1, <1>3, <2>2 DEF IInv, Exclusion
<1>14. NoLostWakeup'
  <2> SUFFICES ASSUME NEW x \in Clients, pc'[x] \in {"parked", "waiting"}
               PROVE  \E y \in Clients : pc'[y] \in {"ready", "woken"}
    BY <1>1, <1>3 DEF NoLostWakeup, OnTheWay
  <2>1. pc[x] = pc'[x] /\ x \in Actors
    BY <1>8, <1>9 DEF Actors
  <2>2. CASE pc[x] = "parked"
    <3>1. parked # <<>>
      BY <2>2 DEF IInv, PlacesKnown, ParkedKnown, ParkedSet
    <3>2. Head(parked) \in fs
      BY <3>1
    <3>3. Head(parked) \in Fibers
      BY <1>6, <3>2
    <3>4. Head(parked) \in Clients /\ Head(parked) \in Actors
      BY <3>3 DEF Clients, Actors
    <3>5. pc'[Head(parked)] = "ready"
      BY <1>5, <3>2, <3>4
    <3> QED
      BY <3>4, <3>5
  <2>3. CASE pc[x] = "waiting"
    <3>1. Cardinality(ts) = 1
      BY <1>2, <2>1, <2>3 DEF At
    <3>2. ts # {}
      BY <3>1, FS_EmptySet
    <3>3. PICK t \in ts : TRUE
      BY <3>2
    <3>4. t \in Clients /\ t \in Actors /\ t \notin fs
      BY <1>6, <1>7, <3>3 DEF Clients, Actors
    <3>5. pc'[t] = "woken"
      BY <1>5, <3>3, <3>4
    <3> QED
      BY <3>4, <3>5
  <2> QED
    BY <2>1, <2>2, <2>3
<1>15. TypeOK'
  <2>1. parked' \in Seq(Fibers)
    BY <1>1, PopSeq
  <2> QED
    BY <1>1, <1>5, <2>1 DEF IInv, TypeOK
<1> QED
  BY <1>3, <1>1, <1>11, <1>12, <1>13, <1>14, <1>15 DEF IInv, OneRunner

-----------------------------------------------------------------------------
(***************************************************************************)
(* The wait group's units of work, the runner of the Once, and destroy.    *)
(***************************************************************************)
LEMMA WgAddIInv == ASSUME IInv, NEW a \in Clients, NEW d \in Doers, WgAdd(a, d) PROVE IInv'
<1>1. /\ kind = "waitgroup" /\ pc[d] = "idle" /\ d \in Actors /\ d \notin Clients
      /\ UNCHANGED <<kind, readers, waiters, inflight, runner, parked, want, dpc, ended>>
      /\ word' = word + 1 /\ word \in Int /\ pc \in [Actors -> PC]
      /\ calls' \in [Clients -> 0 .. MaxCalls]
  BY ActorsAssumption, MaxCallsAssumption DEF WgAdd, counters, IInv, TypeOK, Actors, Clients
<1>2. pc'[d] = "work" /\ \A x \in Actors : x # d => pc'[x] = pc[x]
  BY <1>1 DEF WgAdd, Goto
<1>3. \A x \in Clients : pc'[x] = pc[x]
  BY <1>1, <1>2 DEF Actors
<1>4. TypeOK'
  BY <1>1 DEF WgAdd, Goto, PC, IInv, TypeOK
<1>5. PlacesKnown'
  BY <1>1, <1>2, <1>3 DEF IInv, PlacesKnown, Wants, Actors
<1>6. ParkedKnown' /\ OneRunner'
  BY <1>1, <1>3 DEF IInv, ParkedKnown, ParkedSet, OneRunner, Clients
<1>7. Exclusion'
  BY <1>1 DEF Exclusion
<1>8. NoLostWakeup'
  <2> SUFFICES ASSUME NEW x \in Clients, pc'[x] \in {"parked", "waiting"}, ~Blocked(x)'
               PROVE  \E e \in Doers : pc'[e] = "dec"
    BY <1>1 DEF NoLostWakeup, OnTheWay
  <2>1. want[x] = "wait" /\ pc[x] = pc'[x]
    BY <1>1, <1>3 DEF IInv, PlacesKnown, Wants
  <2>2. ~Blocked(x)
    BY <1>1, <2>1 DEF Blocked
  <2>3. PICK e \in Doers : pc[e] = "dec"
    BY <1>1, <2>1, <2>2 DEF IInv, NoLostWakeup, OnTheWay
  <2> QED
    BY <1>1, <1>2, <2>3 DEF Actors
<1> QED
  BY <1>4, <1>5, <1>6, <1>7, <1>8 DEF IInv

LEMMA WgDoneIInv == ASSUME IInv, NEW d \in Doers, WgDone(d) PROVE IInv'
<1>1. /\ pc[d] = "work" /\ d \in Actors /\ d \notin Clients
      /\ UNCHANGED <<kind, readers, waiters, inflight, runner, parked, want, calls, dpc, ended>>
      /\ word' = word - 1 /\ word \in Int /\ pc \in [Actors -> PC]
  BY ActorsAssumption DEF WgDone, counters, IInv, TypeOK, Actors, Clients
<1>2. /\ pc'[d] = IF LastDone THEN "dec" ELSE "idle"
      /\ \A x \in Actors : x # d => pc'[x] = pc[x]
  BY <1>1 DEF WgDone, Goto
<1>3. \A x \in Clients : pc'[x] = pc[x]
  BY <1>1, <1>2 DEF Actors
<1>4. TypeOK'
  BY <1>1 DEF WgDone, Goto, PC, IInv, TypeOK
<1>5. PlacesKnown'
  BY <1>1, <1>2, <1>3 DEF IInv, PlacesKnown, Wants, Actors
<1>6. ParkedKnown'
  BY <1>1, <1>3 DEF IInv, ParkedKnown, ParkedSet, Clients
<1>7. kind = "waitgroup"
  BY <1>1 DEF IInv, PlacesKnown
<1>8. OneRunner' /\ Exclusion'
  BY <1>1, <1>7 DEF OneRunner, Exclusion
<1>9. NoLostWakeup'
  <2> SUFFICES ASSUME NEW x \in Clients, pc'[x] \in {"parked", "waiting"}, ~Blocked(x)'
               PROVE  \E e \in Doers : pc'[e] = "dec"
    BY <1>1, <1>7 DEF NoLostWakeup, OnTheWay
  <2>1. want[x] = "wait" /\ pc[x] = pc'[x]
    BY <1>1, <1>3, <1>7 DEF IInv, PlacesKnown, Wants
  <2>2. word <= 1
    BY <1>1, <2>1 DEF Blocked
  <2> QED
    BY <1>2, <2>2 DEF LastDone
<1> QED
  BY <1>1, <1>2, <1>4, <1>5, <1>6, <1>7, <1>8, <1>9 DEF IInv

LEMMA WgWakeIInv == ASSUME IInv, NEW d \in Doers, WgWake(d) PROVE IInv'
<1>1. /\ pc[d] = "dec" /\ d \in Actors /\ d \notin Clients
      /\ UNCHANGED <<kind, word, readers, waiters, inflight, runner, want, calls, dpc, ended>>
      /\ pc' = Waking(Left(d), ParkedSet, At("waiting")) /\ parked' = <<>>
  BY ActorsAssumption DEF WgWake, WakeAll, counters, Actors, Clients
<1>2. /\ Left(d) \in [Actors -> PC] /\ Left(d)[d] = "idle"
      /\ \A x \in Actors : x # d => Left(d)[x] = pc[x]
  BY <1>1, LeftKnown
<1>3. /\ pc' \in [Actors -> PC] /\ parked' \in Seq(Fibers)
      /\ PlacesKnown' /\ ParkedKnown' /\ NoLostWakeup'
  BY <1>1, <1>2, WakeEverybody
<1>4. kind = "waitgroup"
  BY <1>1 DEF IInv, PlacesKnown
<1>5. TypeOK'
  BY <1>1, <1>3 DEF IInv, TypeOK
<1> QED
  BY <1>1, <1>3, <1>4, <1>5 DEF IInv, OneRunner, Exclusion

LEMMA OnceBumpIInv == ASSUME IInv, NEW a \in Clients, OnceBump(a) PROVE IInv'
<1>1. /\ pc[a] = "bump" /\ a \in Actors /\ want[a] \in Wants(kind) /\ kind = "once"
      /\ UNCHANGED <<kind, word, readers, waiters, inflight, parked, want, calls, dpc, ended>>
      /\ runner' = runner + 1 /\ runner \in Nat /\ pc \in [Actors -> PC]
  BY DEF OnceBump, IInv, PlacesKnown, TypeOK, Actors
<1>2. pc'[a] = "in" /\ \A x \in Actors : x # a => pc'[x] = pc[x]
  BY <1>1 DEF OnceBump, Goto
<1>3. want[a] = "do" /\ \A x \in Clients : pc[x] # "in"
  BY <1>1 DEF IInv, OneRunner, Wants
<1>4. TypeOK'
  BY <1>1 DEF OnceBump, Goto, PC, IInv, TypeOK
<1>5. PlacesKnown'
  BY <1>1, <1>2, ActorsAssumption DEF IInv, PlacesKnown, Wants, Actors, Clients
<1>6. ParkedKnown' /\ OneRunner'
  BY <1>1, <1>2 DEF IInv, ParkedKnown, ParkedSet, OneRunner, Clients, Actors
<1>7. Exclusion'
  <2>1. Cardinality(Inside("do")) = 0
    BY <1>3, InsideNone
  <2>2. Cardinality(Inside("do")') = Cardinality(Inside("do")) + 1
    BY <1>1, <1>2, <1>3, InsideAdd DEF Actors
  <2> QED
    BY <1>1, <2>1, <2>2 DEF IInv, Exclusion
<1>8. NoLostWakeup'
  <2> SUFFICES ASSUME NEW x \in Clients, pc'[x] \in {"parked", "waiting"}
               PROVE  Blocked(x)'
    BY DEF NoLostWakeup
  <2>1. x # a /\ pc[x] = pc'[x] /\ want[x] = "do"
    BY <1>1, <1>2 DEF IInv, PlacesKnown, Wants, Actors
  <2>2. Blocked(x)
    BY <1>1, <2>1 DEF IInv, NoLostWakeup, OnTheWay
  <2> QED
    BY <1>1, <2>1, <2>2 DEF Blocked, OnceOver
<1> QED
  BY <1>4, <1>5, <1>6, <1>7, <1>8 DEF IInv

\* destroy is called by a client outside, or by one that holds the lock.
LEMMA DestroyIInv == ASSUME IInv, NEW a \in Clients, Destroy(a) PROVE IInv'
<1>1. /\ a \in Actors /\ pc[a] \in {"idle", "in"} /\ (pc[a] = "in" => want[a] # "do")
      /\ UNCHANGED <<kind, waiters, inflight, runner, want, calls, ended>>
      /\ pc' = Waking(Left(a), ParkedSet, At("waiting")) /\ parked' = <<>>
      /\ word' = IF kind = "once" THEN 2 ELSE 0
      /\ readers' = 0
      /\ dpc' \in {"drain", "wait", "freed"}
  BY DEF Destroy, MayDestroy, DestroyTurn, counters, Actors
<1>2. /\ Left(a) \in [Actors -> PC] /\ Left(a)[a] = "idle"
      /\ \A x \in Actors : x # a => Left(a)[x] = pc[x]
  BY <1>1, LeftKnown
<1>3. /\ pc' \in [Actors -> PC] /\ parked' \in Seq(Fibers)
      /\ PlacesKnown' /\ ParkedKnown' /\ NoLostWakeup'
      /\ \A x \in Clients : pc'[x] \in {"bump", "in"} <=> Left(a)[x] \in {"bump", "in"}
      /\ \A x \in Clients : (pc'[x] = "in") <=> (Left(a)[x] = "in")
  BY <1>1, <1>2, WakeEverybody
<1>4. TypeOK'
  BY <1>1, <1>3 DEF IInv, TypeOK
<1>5. Inside("do")' = Inside("do")
  BY <1>1, <1>2, <1>3 DEF Inside, Actors
<1>6. Exclusion'
  BY <1>1, <1>5 DEF IInv, Exclusion
<1>7. OneRunner'
  <2>1. \A x \in Clients : pc'[x] \in {"bump", "in"} => pc[x] \in {"bump", "in"}
    BY <1>2, <1>3 DEF Actors
  <2> QED
    BY <1>1, <2>1 DEF IInv, OneRunner
<1> QED
  BY <1>3, <1>4, <1>6, <1>7 DEF IInv

LEMMA DestroyLoopsIInv == IInv /\ DestroyLoops => IInv'
<1> SUFFICES ASSUME IInv, DestroyLoops PROVE IInv'
  OBVIOUS
<1>1. /\ UNCHANGED <<kind, word, readers, waiters, inflight, runner, want, calls, ended>>
      /\ pc' = Waking(pc, ParkedSet, {}) /\ parked' = <<>>
      /\ dpc' \in {"none", "drain", "wait", "freed"} /\ BegunKept
      /\ pc \in [Actors -> PC]
  BY DEF DestroyLoops, DestroyTurn, counters, IInv, TypeOK, BegunKept
<1>2. ASSUME NEW x \in Clients, pc[x] = "waiting" PROVE Blocked(x)' \/ OnTheWay'
  <2>1. CASE Blocked(x)
    BY <1>1, <2>1 DEF Blocked, OnceOver
  <2>2. CASE OnTheWay
    <3>1. /\ pc' \in [Actors -> PC]
          /\ \A y \in Actors : pc'[y] = IF y \in ParkedSet THEN "ready" ELSE pc[y]
      BY <1>1 DEF Waking, PC
    <3>2. \A d \in Doers : d \notin ParkedSet /\ d \in Actors
      BY ActorsAssumption DEF ParkedSet, IInv, TypeOK, Actors
    <3>3. CASE kind = "mutex"
      <4>1. PICK y \in Clients : pc[y] \in {"try", "slow", "armed", "ready", "woken"}
        BY <2>2, <3>3 DEF OnTheWay
      <4>2. pc'[y] \in {"try", "slow", "armed", "ready", "woken"}
        BY <3>1, <4>1 DEF Actors
      <4> QED
        BY <1>1, <3>3, <4>2 DEF OnTheWay
    <3>4. CASE kind # "mutex"
      <4>1. \A d \in Doers : pc'[d] = pc[d]
        BY <3>1, <3>2
      <4>2. \A y \in Clients : pc[y] = "in" => pc'[y] = "in"
        <5>1. ParkedSet \subseteq Fibers
          BY DEF ParkedSet, IInv, TypeOK
        <5>2. \A y \in ParkedSet : pc[y] = "parked"
          BY <5>1 DEF IInv, ParkedKnown
        <5> QED
          BY <3>1, <5>2 DEF Actors
      <4> QED
        BY <1>1, <2>2, <3>4, <4>1, <4>2, OnTheWayKept
    <3> QED
      BY <3>3, <3>4
  <2> QED
    BY <1>2, <2>1, <2>2 DEF IInv, NoLostWakeup
<1>3. /\ pc' \in [Actors -> PC] /\ parked' \in Seq(Fibers)
      /\ PlacesKnown' /\ ParkedKnown' /\ NoLostWakeup'
      /\ \A x \in Clients : pc'[x] \in {"bump", "in"} <=> pc[x] \in {"bump", "in"}
      /\ \A x \in Clients : (pc'[x] = "in") <=> (pc[x] = "in")
  BY <1>1, <1>2, WakeEverybody
<1>4. TypeOK'
  BY <1>1, <1>3 DEF IInv, TypeOK
<1>5. \A w : Inside(w)' = Inside(w)
  BY <1>1, <1>3, InsideSame
<1>6. Exclusion' /\ OneRunner'
  BY <1>1, <1>3, <1>5 DEF IInv, Exclusion, OneRunner, BegunKept
<1> QED
  BY <1>3, <1>4, <1>6 DEF IInv

-----------------------------------------------------------------------------
LEMMA InitIInv == Init => IInv
<1> SUFFICES ASSUME Init PROVE IInv
  OBVIOUS
<1>1. TypeOK
  <2>1. pc \in [Actors -> PC]
    BY DEF Init, PC
  <2>2. want \in [Clients -> {"none", "lock", "read", "write", "wait", "do"}]
    BY DEF Init
  <2>3. calls \in [Clients -> 0 .. MaxCalls]
    BY MaxCallsAssumption DEF Init
  <2>4. parked \in Seq(Fibers)
    BY DEF Init
  <2>5. /\ kind \in Kinds /\ word = 0 /\ readers = 0 /\ waiters = 0 /\ inflight = 0
        /\ runner = 0 /\ dpc = "none" /\ ended = FALSE
    BY DEF Init
  <2>6. ended \in BOOLEAN
    BY <2>5
  <2> QED
    BY <2>1, <2>2, <2>3, <2>4, <2>5, <2>6 DEF TypeOK
<1>2. \A x \in Actors : pc[x] = "idle"
  BY DEF Init
<1>2a. PlacesKnown /\ OneRunner
  BY <1>2 DEF PlacesKnown, OneRunner, Actors
<1>2b. NoLostWakeup
  BY <1>2 DEF NoLostWakeup, Actors
<1>3. ParkedKnown
  BY DEF Init, ParkedKnown, ParkedSet, Actors, Clients
<1>4. Exclusion
  <2>1. \A x \in Clients : pc[x] # "in"
    BY DEF Init, Actors
  <2>2. \A w : Cardinality(Inside(w)) = 0
    BY <2>1, InsideNone
  <2> QED
    BY <2>2 DEF Init, Exclusion
<1> QED
  BY <1>1, <1>2a, <1>2b, <1>3, <1>4 DEF IInv

LEMMA StutterIInv == IInv /\ UNCHANGED <<kind, word, readers, counters, parked, pc, want, calls, ended>>
                       /\ dpc' \in {"none", "drain", "wait", "freed"} /\ BegunKept => IInv'
<1> SUFFICES ASSUME IInv, dpc' \in {"none", "drain", "wait", "freed"}, BegunKept,
                    UNCHANGED <<kind, word, readers, counters, parked, pc, want, calls, ended>>
             PROVE  IInv'
  OBVIOUS
<1>1. UNCHANGED <<kind, word, readers, waiters, inflight, runner, parked, pc, want, calls, ended>>
  BY DEF counters
<1>2. TypeOK'
  BY <1>1 DEF IInv, TypeOK
<1>3. PlacesKnown' /\ OneRunner'
  BY <1>1 DEF IInv, PlacesKnown, OneRunner, Wants
<1>4. ParkedKnown'
  BY <1>1 DEF IInv, ParkedKnown, ParkedSet
<1>5. Exclusion'
  <2>1. \A w : Inside(w)' = Inside(w)
    BY <1>1, InsideSame
  <2> QED
    BY <1>1, <2>1 DEF IInv, Exclusion, BegunKept
<1>6. NoLostWakeup'
  <2>1. OnTheWay => OnTheWay'
    BY <1>1 DEF OnTheWay, BegunKept
  <2>2. \A x \in Clients : Blocked(x)' <=> Blocked(x)
    BY <1>1 DEF Blocked, OnceOver
  <2> QED
    BY <1>1, <2>1, <2>2 DEF IInv, NoLostWakeup
<1> QED
  BY <1>2, <1>3, <1>4, <1>5, <1>6 DEF IInv

LEMMA NextIInv == IInv /\ [Next]_vars => IInv'
<1> SUFFICES ASSUME IInv, [Next]_vars PROVE IInv'
  OBVIOUS
<1>1. ASSUME NEW a \in Clients, Call(a) PROVE IInv'
  BY <1>1, CallIInv
<1>2. ASSUME NEW a \in Clients, ClientStep(a) PROVE IInv'
  BY <1>2, TryEnterIInv, TryFailsIInv, SlowWaitsIInv, SlowPassesIInv, WakesIInv,
     MutexUnlockIInv, RwUnlockIInv, OnceBumpIInv, OncePublishIInv DEF ClientStep
<1>3. ASSUME NEW a \in Clients, Destroy(a) PROVE IInv'
  BY <1>3, DestroyIInv
<1>4. ASSUME NEW a \in Clients, NEW d \in Doers, WgAdd(a, d) PROVE IInv'
  BY <1>4, WgAddIInv
<1>5. ASSUME NEW a \in Threads, SpuriousWakeup(a) PROVE IInv'
  BY <1>5, SpuriousWakeupIInv
<1>6. ASSUME NEW f \in Fibers, FiberStep(f) PROVE IInv'
  BY <1>6, FinalizeIInv, ResumeIInv DEF FiberStep
<1>7. ASSUME NEW d \in Doers, DoerStep(d) PROVE IInv'
  BY <1>7, WgDoneIInv, WgWakeIInv DEF DoerStep
<1>8. CASE DestroyLoops
  BY <1>8, DestroyLoopsIInv
<1>9. CASE DestroyWakesUp
  BY <1>9, StutterIInv DEF DestroyWakesUp, BegunKept
<1>10. CASE UNCHANGED vars
  <2>1. dpc' \in {"none", "drain", "wait", "freed"} /\ BegunKept
    BY <1>10 DEF vars, IInv, TypeOK, BegunKept
  <2> QED
    BY <1>10, <2>1, StutterIInv DEF vars, counters
<1> QED
  BY <1>1, <1>2, <1>3, <1>4, <1>5, <1>6, <1>7, <1>8, <1>9, <1>10 DEF Next

\* The inductive invariant of the fiber-aware objects: the types, where actors
\* can be, that the waiter list holds exactly the parked fibers, and the two
\* properties below.
THEOREM SyncInvariant == Spec => []IInv
<1>1. Init => IInv
  BY InitIInv
<1>2. IInv /\ [Next]_vars => IInv'
  BY NextIInv
<1> QED
  BY <1>1, <1>2, PTL DEF Spec

\* Until destroy is called the holders of a Mutex and of a RwLock exclude each
\* other, and the words the code goes by count them; so it is, whatever destroy
\* does, with the runner of a Once.
THEOREM SyncExclusion == Spec => []Exclusion
<1>1. IInv => Exclusion
  BY DEF IInv
<1> QED
  BY <1>1, SyncInvariant, PTL

\* Nobody is left parked or waiting once what it waits for has happened, unless
\* somebody who will wake it is on the way: the park protocol loses no wake.
THEOREM SyncNoLostWakeup == Spec => []NoLostWakeup
<1>1. IInv => NoLostWakeup
  BY DEF IInv
<1> QED
  BY <1>1, SyncInvariant, PTL

-----------------------------------------------------------------------------
(***************************************************************************)
(* What destroy counts on: inflight_parkers is how many fibers are         *)
(* announced and not finalized.                                            *)
(***************************************************************************)
Armed == {a \in Clients : pc[a] = "armed"}
Announced == inflight = Cardinality(Armed)

LEMMA ArmedFinite == IsFiniteSet(Armed) /\ Cardinality(Armed) \in Nat
<1>1. IsFiniteSet(Clients)
  BY ActorsAssumption, FS_Union DEF Clients
<1>2. IsFiniteSet(Armed)
  BY <1>1, FS_Subset DEF Armed
<1> QED
  BY <1>2, FS_CardinalityType

LEMMA ArmedSame ==
  ASSUME Announced, UNCHANGED inflight, \A x \in Clients : pc'[x] = "armed" <=> pc[x] = "armed"
  PROVE  Announced'
<1>1. Armed' = Armed
  BY DEF Armed
<1> QED
  BY <1>1 DEF Announced

LEMMA ArmedAdd ==
  ASSUME Announced, NEW a \in Clients, inflight' = inflight + 1, pc[a] # "armed", pc'[a] = "armed",
         \A x \in Clients \ {a} : pc'[x] = pc[x]
  PROVE  Announced'
<1>1. Armed' = Armed \cup {a} /\ a \notin Armed
  BY DEF Armed
<1>2. Cardinality(Armed') = Cardinality(Armed) + 1
  BY <1>1, ArmedFinite, FS_AddElement
<1> QED
  BY <1>2 DEF Announced

LEMMA ArmedRemove ==
  ASSUME Announced, NEW a \in Clients, inflight' = inflight - 1, pc[a] = "armed", pc'[a] # "armed",
         \A x \in Clients \ {a} : pc'[x] = pc[x]
  PROVE  Announced'
<1>1. Armed' = Armed \ {a} /\ a \in Armed
  BY DEF Armed
<1>2. Cardinality(Armed') = Cardinality(Armed) - 1
  BY <1>1, ArmedFinite, FS_RemoveElement
<1> QED
  BY <1>2 DEF Announced

\* Steps that wake others: none of those is announced.
LEMMA WakingAnnounced ==
  ASSUME IInv, Announced, UNCHANGED inflight, NEW at \in [Actors -> PC], NEW ts,
         NEW fs \in SUBSET ParkedSet, ts \subseteq At("waiting"), pc' = Waking(at, fs, ts),
         \A x \in Clients : at[x] = pc[x] \/ (at[x] = "idle" /\ pc[x] # "armed")
  PROVE  Announced'
<1>1. \A x \in Clients : x \in Actors /\ pc'[x] = IF x \in fs THEN "ready" ELSE IF x \in ts THEN "woken" ELSE at[x]
  BY DEF Waking, Actors
<1>2. \A x \in fs : pc[x] = "parked"
  <2>1. ParkedSet \subseteq Fibers
    BY DEF ParkedSet, IInv, TypeOK
  <2> QED
    BY <2>1 DEF IInv, ParkedKnown
<1>3. \A x \in ts : pc[x] = "waiting"
  BY DEF At
<1>4. \A x \in Clients : pc'[x] = "armed" <=> pc[x] = "armed"
  BY <1>1, <1>2, <1>3
<1> QED
  BY <1>4, ArmedSame

\* a goes from one place to another that is not the announcement.
LEMMA GotoAnnounced ==
  ASSUME IInv, Announced, UNCHANGED inflight, NEW a \in Actors, NEW label,
         pc[a] # "armed", label # "armed", pc' = [pc EXCEPT ![a] = label]
  PROVE  Announced'
<1>1. \A x \in Clients : pc'[x] = "armed" <=> pc[x] = "armed"
  BY DEF IInv, TypeOK, Actors
<1> QED
  BY <1>1, ArmedSame

LEMMA EnlistAnnounced ==
  ASSUME IInv, Announced, NEW a \in Clients, pc[a] # "armed", Enlist(a)
  PROVE  Announced'
<1>1. pc \in [Actors -> PC] /\ a \in Actors /\ \A x \in Clients : x \in Actors
  BY DEF IInv, TypeOK, Actors
<1>2. CASE a \in Fibers
  <2>1. inflight' = inflight + 1 /\ pc' = [pc EXCEPT ![a] = "armed"]
    BY <1>2 DEF Enlist, Goto
  <2> QED
    BY <1>1, <2>1, ArmedAdd
<1>3. CASE a \notin Fibers
  <2>1. UNCHANGED inflight /\ pc' = [pc EXCEPT ![a] = "waiting"]
    BY <1>3 DEF Enlist, Goto
  <2> QED
    BY <1>1, <2>1, GotoAnnounced
<1> QED
  BY <1>2, <1>3

LEMMA NextAnnounced == ASSUME IInv, Announced, Next PROVE Announced'
<1>1. pc \in [Actors -> PC] /\ ParkedSet \in SUBSET ParkedSet /\ {} \in SUBSET ParkedSet
      /\ \A x \in Clients : x \in Actors
  BY DEF IInv, TypeOK, Actors
<1>2. \A a : Left(a) \in [Actors -> PC]
  BY <1>1 DEF Left, PC
<1>3. \A a \in Actors, x \in Clients : pc[a] # "armed" => Left(a)[x] = pc[x] \/ (Left(a)[x] = "idle" /\ pc[x] # "armed")
  BY <1>1 DEF Left
<1>4. ASSUME NEW a \in Clients, Call(a) PROVE Announced'
  <2>1. pc' = [pc EXCEPT ![a] = "try"] /\ pc[a] = "idle" /\ UNCHANGED inflight
    BY <1>4 DEF Call, Goto, counters
  <2> QED
    BY <1>1, <2>1, GotoAnnounced
<1>5. ASSUME NEW a \in Clients, TryEnter(a) \/ SlowPasses(a) \/ OnceBump(a) PROVE Announced'
  <2>1. PICK label \in {"in", "idle", "bump", "try"} : pc' = [pc EXCEPT ![a] = label]
    BY <1>5 DEF TryEnter, SlowPasses, OnceBump, Goto
  <2>2. pc[a] # "armed" /\ UNCHANGED inflight
    BY <1>5 DEF TryEnter, SlowPasses, OnceBump, counters
  <2> QED
    BY <1>1, <2>1, <2>2, GotoAnnounced
<1>6. ASSUME NEW a \in Clients, TryFails(a) \/ SlowWaits(a) PROVE Announced'
  <2>1. pc[a] # "armed" /\ (Enlist(a) \/ (pc' = [pc EXCEPT ![a] = "slow"] /\ UNCHANGED inflight))
    BY <1>6 DEF TryFails, SlowWaits, Goto, counters
  <2> QED
    BY <1>1, <2>1, GotoAnnounced, EnlistAnnounced
<1>7. ASSUME NEW a \in Clients, Wakes(a) PROVE Announced'
  <2>1. PICK label \in {"waiting", "slow", "try"} : pc' = [pc EXCEPT ![a] = label]
    BY <1>7 DEF Wakes, Goto
  <2>2. pc[a] # "armed" /\ UNCHANGED inflight
    BY <1>7 DEF Wakes
  <2> QED
    BY <1>1, <2>1, <2>2, GotoAnnounced
<1>8. ASSUME NEW a \in Clients, MutexUnlock(a) PROVE Announced'
  <2>1. PICK ts \in SUBSET At("waiting") : pc' = Waking(Left(a), IF parked = <<>> THEN {} ELSE {Head(parked)}, ts)
    BY <1>8 DEF MutexUnlock
  <2>2. (IF parked = <<>> THEN {} ELSE {Head(parked)}) \in SUBSET ParkedSet
    <3>1. parked \in Seq(Fibers)
      BY DEF IInv, TypeOK
    <3>2. parked # <<>> => Head(parked) = parked[1] /\ 1 \in 1 .. Len(parked)
      BY <3>1
    <3> QED
      BY <3>2 DEF ParkedSet
  <2>3. pc[a] # "armed" /\ UNCHANGED inflight
    BY <1>8 DEF MutexUnlock, counters
  <2> QED
    BY <1>1, <1>2, <1>3, <2>1, <2>2, <2>3, WakingAnnounced
<1>9. ASSUME NEW a \in Clients, RwUnlock(a) \/ OncePublish(a) PROVE Announced'
  <2>1. pc[a] # "armed" /\ UNCHANGED inflight /\ pc' = Waking(Left(a), ParkedSet, At("waiting"))
    BY <1>9 DEF RwUnlock, OncePublish, WakeAll, counters
  <2> QED
    BY <1>1, <1>2, <1>3, <2>1, WakingAnnounced
<1>10. ASSUME NEW a \in Clients, Destroy(a) PROVE Announced'
  <2>1. pc[a] # "armed" /\ UNCHANGED inflight /\ pc' = Waking(Left(a), ParkedSet, At("waiting"))
    BY <1>10 DEF Destroy, MayDestroy, DestroyTurn, counters
  <2> QED
    BY <1>1, <1>2, <1>3, <2>1, WakingAnnounced
<1>11. ASSUME NEW a \in Clients, NEW d \in Doers, WgAdd(a, d) PROVE Announced'
  <2>1. pc' = [pc EXCEPT ![d] = "work"] /\ pc[d] = "idle" /\ UNCHANGED inflight /\ d \in Actors
    BY <1>11 DEF WgAdd, Goto, counters, Actors
  <2> QED
    BY <2>1, GotoAnnounced
<1>12. ASSUME NEW a \in Threads, SpuriousWakeup(a) PROVE Announced'
  <2>1. pc' = [pc EXCEPT ![a] = "woken"] /\ pc[a] = "waiting" /\ UNCHANGED inflight /\ a \in Actors
    BY <1>12 DEF SpuriousWakeup, Goto, counters, Actors, Clients
  <2> QED
    BY <2>1, GotoAnnounced
<1>13. ASSUME NEW f \in Fibers, Finalize(f) PROVE Announced'
  <2>1. pc[f] = "armed" /\ inflight' = inflight - 1 /\ f \in Clients
        /\ (pc' = [pc EXCEPT ![f] = "parked"] \/ pc' = [pc EXCEPT ![f] = "ready"])
    BY <1>13 DEF Finalize, Goto, Clients
  <2>2. pc'[f] # "armed" /\ \A x \in Clients \ {f} : pc'[x] = pc[x]
    BY <1>1, <2>1
  <2> QED
    BY <2>1, <2>2, ArmedRemove
<1>14. ASSUME NEW f \in Fibers, Resume(f) PROVE Announced'
  <2>1. PICK label \in {"idle", "try"} : pc' = [pc EXCEPT ![f] = label]
    BY <1>14 DEF Resume, Goto
  <2>2. pc[f] # "armed" /\ UNCHANGED inflight /\ f \in Actors
    BY <1>14 DEF Resume, counters, Actors, Clients
  <2> QED
    BY <2>1, <2>2, GotoAnnounced
<1>15. ASSUME NEW d \in Doers, WgDone(d) PROVE Announced'
  <2>1. PICK label \in {"dec", "idle"} : pc' = [pc EXCEPT ![d] = label]
    BY <1>15 DEF WgDone, Goto
  <2>2. pc[d] # "armed" /\ UNCHANGED inflight /\ d \in Actors
    BY <1>15 DEF WgDone, counters, Actors
  <2> QED
    BY <2>1, <2>2, GotoAnnounced
<1>16. ASSUME NEW d \in Doers, WgWake(d) PROVE Announced'
  <2>1. pc[d] # "armed" /\ UNCHANGED inflight /\ pc' = Waking(Left(d), ParkedSet, At("waiting")) /\ d \in Actors
    BY <1>16 DEF WgWake, WakeAll, counters, Actors
  <2> QED
    BY <1>1, <1>2, <1>3, <2>1, WakingAnnounced
<1>17. CASE DestroyLoops
  <2>1. UNCHANGED inflight /\ pc' = Waking(pc, ParkedSet, {})
    BY <1>17 DEF DestroyLoops, DestroyTurn, counters
  <2> QED
    BY <1>1, <2>1, WakingAnnounced
<1>18. CASE DestroyWakesUp
  BY <1>18, ArmedSame DEF DestroyWakesUp, counters
<1> QED
  BY <1>4, <1>5, <1>6, <1>7, <1>8, <1>9, <1>10, <1>11, <1>12, <1>13, <1>14, <1>15, <1>16, <1>17, <1>18
  DEF Next, ClientStep, FiberStep, DoerStep

-----------------------------------------------------------------------------
(***************************************************************************)
(* destroy on drained_cv: waiters is how many threads are in a condition   *)
(* wait, and only the runner of a Once is counted by runner.               *)
(***************************************************************************)
Sleeper(l) == l \in {"waiting", "woken"}
Sleepers == {a \in Clients : Sleeper(pc[a])}
Counted == waiters = Cardinality(Sleepers) /\ (kind # "once" => runner = 0)

LEMMA SleepersFinite == IsFiniteSet(Sleepers) /\ Cardinality(Sleepers) \in Nat
<1>1. IsFiniteSet(Clients)
  BY ActorsAssumption, FS_Union DEF Clients
<1>2. IsFiniteSet(Sleepers)
  BY <1>1, FS_Subset DEF Sleepers
<1> QED
  BY <1>2, FS_CardinalityType

LEMMA SleepersSame ==
  ASSUME Counted, UNCHANGED <<waiters, kind>>, kind = "once" \/ UNCHANGED runner,
         \A x \in Clients : Sleeper(pc'[x]) <=> Sleeper(pc[x])
  PROVE  Counted'
<1>1. Sleepers' = Sleepers
  BY DEF Sleepers
<1> QED
  BY <1>1 DEF Counted

LEMMA SleepersAdd ==
  ASSUME Counted, NEW a \in Clients, waiters' = waiters + 1, ~Sleeper(pc[a]), Sleeper(pc'[a]),
         \A x \in Clients \ {a} : pc'[x] = pc[x], UNCHANGED <<runner, kind>>
  PROVE  Counted'
<1>1. Sleepers' = Sleepers \cup {a} /\ a \notin Sleepers
  BY DEF Sleepers
<1>2. Cardinality(Sleepers') = Cardinality(Sleepers) + 1
  BY <1>1, SleepersFinite, FS_AddElement
<1> QED
  BY <1>2 DEF Counted

LEMMA SleepersRemove ==
  ASSUME Counted, NEW a \in Clients, waiters' = waiters - 1, Sleeper(pc[a]), ~Sleeper(pc'[a]),
         \A x \in Clients \ {a} : pc'[x] = pc[x], UNCHANGED <<runner, kind>>
  PROVE  Counted'
<1>1. Sleepers' = Sleepers \ {a} /\ a \in Sleepers
  BY DEF Sleepers
<1>2. Cardinality(Sleepers') = Cardinality(Sleepers) - 1
  BY <1>1, SleepersFinite, FS_RemoveElement
<1> QED
  BY <1>2 DEF Counted

\* Steps that wake others: those who were asleep are still in the condition wait.
LEMMA WakingCounted ==
  ASSUME IInv, Counted, UNCHANGED <<waiters, kind>>, kind = "once" \/ UNCHANGED runner,
         NEW at \in [Actors -> PC], NEW ts,
         NEW fs \in SUBSET ParkedSet, ts \subseteq At("waiting"), pc' = Waking(at, fs, ts),
         \A x \in Clients : at[x] = pc[x] \/ (at[x] = "idle" /\ ~Sleeper(pc[x]))
  PROVE  Counted'
<1>1. \A x \in Clients : x \in Actors /\ pc'[x] = IF x \in fs THEN "ready" ELSE IF x \in ts THEN "woken" ELSE at[x]
  BY DEF Waking, Actors
<1>2. \A x \in fs : pc[x] = "parked"
  <2>1. ParkedSet \subseteq Fibers
    BY DEF ParkedSet, IInv, TypeOK
  <2> QED
    BY <2>1 DEF IInv, ParkedKnown
<1>3. \A x \in ts : pc[x] = "waiting"
  BY DEF At
<1>4. \A x \in Clients : Sleeper(pc'[x]) <=> Sleeper(pc[x])
  BY <1>1, <1>2, <1>3 DEF Sleeper
<1> QED
  BY <1>4, SleepersSame

\* a goes from one place to another that is outside the condition wait as well, or inside.
LEMMA GotoCounted ==
  ASSUME IInv, Counted, UNCHANGED <<waiters, kind>>, kind = "once" \/ UNCHANGED runner,
         NEW a \in Actors, NEW label,
         Sleeper(pc[a]) <=> Sleeper(label), pc' = [pc EXCEPT ![a] = label]
  PROVE  Counted'
<1>1. \A x \in Clients : Sleeper(pc'[x]) <=> Sleeper(pc[x])
  BY DEF IInv, TypeOK, Actors
<1> QED
  BY <1>1, SleepersSame

LEMMA EnlistCounted ==
  ASSUME IInv, Counted, NEW a \in Clients, ~Sleeper(pc[a]), Enlist(a)
  PROVE  Counted'
<1>1. pc \in [Actors -> PC] /\ a \in Actors /\ (\A x \in Clients : x \in Actors) /\ UNCHANGED <<kind, runner>>
  BY DEF IInv, TypeOK, Actors, Enlist
<1>2. CASE a \in Fibers
  <2>1. UNCHANGED waiters /\ pc' = [pc EXCEPT ![a] = "armed"]
    BY <1>2 DEF Enlist, Goto
  <2> QED
    BY <1>1, <2>1, GotoCounted DEF Sleeper
<1>3. CASE a \notin Fibers
  <2>1. waiters' = waiters + 1 /\ pc' = [pc EXCEPT ![a] = "waiting"]
    BY <1>3 DEF Enlist, Goto
  <2>2. Sleeper(pc'[a]) /\ \A x \in Clients \ {a} : pc'[x] = pc[x]
    BY <1>1, <2>1 DEF Sleeper
  <2> QED
    BY <1>1, <2>1, <2>2, SleepersAdd
<1> QED
  BY <1>2, <1>3

LEMMA NextCounted == ASSUME IInv, Counted, Next PROVE Counted'
<1> USE DEF Sleeper, counters
<1>1. pc \in [Actors -> PC] /\ ParkedSet \in SUBSET ParkedSet /\ {} \in SUBSET ParkedSet
      /\ \A x \in Clients : x \in Actors
  BY DEF IInv, TypeOK, Actors
<1>2. \A a : Left(a) \in [Actors -> PC]
  BY <1>1 DEF Left, PC
<1>3. \A a \in Actors, x \in Clients :
        ~Sleeper(pc[a]) => Left(a)[x] = pc[x] \/ (Left(a)[x] = "idle" /\ ~Sleeper(pc[x]))
  BY <1>1 DEF Left
<1>4. ASSUME NEW a \in Clients, Call(a) PROVE Counted'
  <2>1. pc' = [pc EXCEPT ![a] = "try"] /\ pc[a] = "idle" /\ UNCHANGED <<waiters, runner, kind>>
    BY <1>4 DEF Call, Goto
  <2> QED
    BY <1>1, <2>1, GotoCounted
<1>5. ASSUME NEW a \in Clients, TryEnter(a) \/ SlowPasses(a) \/ OnceBump(a) PROVE Counted'
  <2>1. PICK label \in {"in", "idle", "bump", "try"} : pc' = [pc EXCEPT ![a] = label]
    BY <1>5 DEF TryEnter, SlowPasses, OnceBump, Goto
  <2>2. pc[a] \in {"try", "slow", "bump"} /\ UNCHANGED <<waiters, kind>> /\ (pc[a] = "bump" \/ UNCHANGED runner)
    BY <1>5 DEF TryEnter, SlowPasses, OnceBump
  <2>3. pc[a] = "bump" => kind = "once"
    BY DEF IInv, PlacesKnown
  <2> QED
    BY <1>1, <2>1, <2>2, <2>3, GotoCounted
<1>6. ASSUME NEW a \in Clients, TryFails(a) \/ SlowWaits(a) PROVE Counted'
  <2>1. /\ pc[a] \in {"try", "slow"}
        /\ Enlist(a) \/ (pc' = [pc EXCEPT ![a] = "slow"] /\ UNCHANGED <<waiters, runner, kind>>)
    BY <1>6 DEF TryFails, SlowWaits, Goto
  <2> QED
    BY <1>1, <2>1, GotoCounted, EnlistCounted
<1>7. ASSUME NEW a \in Clients, Wakes(a) PROVE Counted'
  <2>1. pc[a] = "woken" /\ UNCHANGED <<runner, kind>>
    BY <1>7 DEF Wakes
  <2>2. CASE want[a] # "do" /\ Blocked(a)
    <3>1. pc' = [pc EXCEPT ![a] = "waiting"] /\ UNCHANGED waiters
      BY <1>7, <2>2 DEF Wakes, Goto
    <3> QED
      BY <1>1, <2>1, <3>1, GotoCounted
  <2>3. CASE ~(want[a] # "do" /\ Blocked(a))
    <3>1. waiters' = waiters - 1 /\ \E l \in {"slow", "try"} : pc' = [pc EXCEPT ![a] = l]
      BY <1>7, <2>3 DEF Wakes, Goto
    <3>2. ~Sleeper(pc'[a]) /\ \A x \in Clients \ {a} : pc'[x] = pc[x]
      BY <1>1, <3>1
    <3> QED
      BY <2>1, <3>1, <3>2, SleepersRemove
  <2> QED
    BY <2>2, <2>3
<1>8. ASSUME NEW a \in Clients, MutexUnlock(a) PROVE Counted'
  <2>1. PICK ts \in SUBSET At("waiting") : pc' = Waking(Left(a), IF parked = <<>> THEN {} ELSE {Head(parked)}, ts)
    BY <1>8 DEF MutexUnlock
  <2>2. (IF parked = <<>> THEN {} ELSE {Head(parked)}) \in SUBSET ParkedSet
    <3>1. parked \in Seq(Fibers)
      BY DEF IInv, TypeOK
    <3>2. parked # <<>> => Head(parked) = parked[1] /\ 1 \in 1 .. Len(parked)
      BY <3>1
    <3> QED
      BY <3>2 DEF ParkedSet
  <2>3. pc[a] = "in" /\ UNCHANGED <<waiters, runner, kind>>
    BY <1>8 DEF MutexUnlock
  <2> QED
    BY <1>1, <1>2, <1>3, <2>1, <2>2, <2>3, WakingCounted
<1>9. ASSUME NEW a \in Clients, RwUnlock(a) \/ OncePublish(a) PROVE Counted'
  <2>1. /\ pc[a] = "in" /\ UNCHANGED <<waiters, kind>> /\ (want[a] = "do" \/ UNCHANGED runner)
        /\ pc' = Waking(Left(a), ParkedSet, At("waiting"))
    BY <1>9 DEF RwUnlock, OncePublish, WakeAll
  <2>2. want[a] = "do" => kind = "once"
    BY <2>1, KindsAssumption DEF IInv, TypeOK, PlacesKnown, Wants
  <2> QED
    BY <1>1, <1>2, <1>3, <2>1, <2>2, WakingCounted
<1>10. ASSUME NEW a \in Clients, Destroy(a) PROVE Counted'
  <2>1. pc[a] \in {"idle", "in"} /\ UNCHANGED <<waiters, runner, kind>> /\ pc' = Waking(Left(a), ParkedSet, At("waiting"))
    BY <1>10 DEF Destroy, MayDestroy, DestroyTurn
  <2> QED
    BY <1>1, <1>2, <1>3, <2>1, WakingCounted
<1>11. ASSUME NEW a \in Clients, NEW d \in Doers, WgAdd(a, d) PROVE Counted'
  <2>1. pc' = [pc EXCEPT ![d] = "work"] /\ pc[d] = "idle" /\ UNCHANGED <<waiters, runner, kind>> /\ d \in Actors
    BY <1>11 DEF WgAdd, Goto, Actors
  <2> QED
    BY <2>1, GotoCounted
<1>12. ASSUME NEW a \in Threads, SpuriousWakeup(a) PROVE Counted'
  <2>1. pc' = [pc EXCEPT ![a] = "woken"] /\ pc[a] = "waiting" /\ UNCHANGED <<waiters, runner, kind>> /\ a \in Actors
    BY <1>12 DEF SpuriousWakeup, Goto, Actors, Clients
  <2> QED
    BY <2>1, GotoCounted
<1>13. ASSUME NEW f \in Fibers, Finalize(f) \/ Resume(f) PROVE Counted'
  <2>1. PICK label \in {"parked", "ready", "idle", "try"} : pc' = [pc EXCEPT ![f] = label]
    BY <1>13 DEF Finalize, Resume, Goto
  <2>2. pc[f] \in {"armed", "ready"} /\ UNCHANGED <<waiters, runner, kind>> /\ f \in Actors
    BY <1>13 DEF Finalize, Resume, Actors, Clients
  <2> QED
    BY <2>1, <2>2, GotoCounted
<1>14. ASSUME NEW d \in Doers, WgDone(d) PROVE Counted'
  <2>1. PICK label \in {"dec", "idle"} : pc' = [pc EXCEPT ![d] = label]
    BY <1>14 DEF WgDone, Goto
  <2>2. pc[d] = "work" /\ UNCHANGED <<waiters, runner, kind>> /\ d \in Actors
    BY <1>14 DEF WgDone, Actors
  <2> QED
    BY <2>1, <2>2, GotoCounted
<1>15. ASSUME NEW d \in Doers, WgWake(d) PROVE Counted'
  <2>1. /\ pc[d] = "dec" /\ UNCHANGED <<waiters, runner, kind>> /\ d \in Actors
        /\ pc' = Waking(Left(d), ParkedSet, At("waiting"))
    BY <1>15 DEF WgWake, WakeAll, Actors
  <2> QED
    BY <1>1, <1>2, <1>3, <2>1, WakingCounted
<1>16. CASE DestroyLoops
  <2>1. UNCHANGED <<waiters, runner, kind>> /\ pc' = Waking(pc, ParkedSet, {})
    BY <1>16 DEF DestroyLoops, DestroyTurn
  <2> QED
    BY <1>1, <2>1, WakingCounted
<1>17. CASE DestroyWakesUp
  BY <1>17, SleepersSame DEF DestroyWakesUp
<1> QED
  BY <1>4, <1>5, <1>6, <1>7, <1>8, <1>9, <1>10, <1>11, <1>12, <1>13, <1>14, <1>15, <1>16, <1>17
  DEF Next, ClientStep, FiberStep, DoerStep

-----------------------------------------------------------------------------
(***************************************************************************)
(* destroy's wait.  While it lasts somebody is counted, and whoever finds  *)
(* a word set is held up by somebody inside, also when destroy has cleared *)
(* the word of those who were inside before.                               *)
(***************************************************************************)
WaitsForSomebody == dpc = "wait" => ~Drained

HeldBySomebody ==
  /\ kind = "mutex" => word = 0 \/ \E x \in Clients : pc[x] = "in"
  /\ kind = "rwlock" => /\ word \in {0, 1}
                        /\ word + readers <= Cardinality(Inside("read")) + Cardinality(Inside("write"))
  /\ dpc # "none" => (kind = "waitgroup" => word <= 0) /\ (kind = "once" => word = 2)

UInv ==
  /\ IInv /\ Announced /\ Counted /\ WaitsForSomebody /\ HeldBySomebody
  /\ CountedHaveLeft

\* Whom destroy counts no longer is gone.
LEMMA DrainedHaveLeft ==
  IInv /\ Announced /\ Counted /\ Drained /\ parked = <<>> =>
    /\ At("armed") \cup At("parked") \cup At("waiting") \cup At("woken") = {}
    /\ Inside("do") = {}
<1> SUFFICES ASSUME IInv, Announced, Counted, Drained, parked = <<>>
             PROVE  /\ At("armed") \cup At("parked") \cup At("waiting") \cup At("woken") = {}
                    /\ Inside("do") = {}
  OBVIOUS
<1>1. Armed = {} /\ Sleepers = {}
  BY ArmedFinite, SleepersFinite, FS_EmptySet DEF Announced, Counted, Drained
<1>2. \A f \in Fibers : pc[f] # "parked"
  BY DEF IInv, ParkedKnown, ParkedSet
<1>3. \A x \in Actors : pc[x] \notin {"armed", "parked", "waiting", "woken"}
  <2> TAKE x \in Actors
  <2>1. CASE x \in Clients
    BY <1>1, <1>2, <2>1 DEF Armed, Sleepers, Sleeper, IInv, PlacesKnown
  <2>2. CASE x \in Doers
    BY <2>2 DEF IInv, PlacesKnown
  <2> QED
    BY <2>1, <2>2 DEF Actors
<1>4. Inside("do") = {}
  <2>1. CASE kind = "once"
    <3>1. Cardinality(Inside("do")) = 0
      BY <2>1 DEF Drained, IInv, Exclusion
    <3> QED
      BY <3>1, InsideFinite, FS_EmptySet
  <2>2. CASE kind # "once"
    BY <2>2, KindsAssumption DEF Inside, IInv, TypeOK, PlacesKnown, Wants
  <2> QED
    BY <2>1, <2>2
<1> QED
  BY <1>3, <1>4 DEF At

\* Only these steps end destroy's work, or begin a wait.
LEMMA DestroySteps ==
  ASSUME Next, dpc' # dpc, dpc' # "drain"
  PROVE  DestroyLoops \/ \E a \in Clients : Destroy(a)
BY DEF Next, Call, ClientStep, TryEnter, TryFails, SlowWaits, Enlist, SlowPasses, Wakes,
   MutexUnlock, RwUnlock, OnceBump, OncePublish, WgAdd, SpuriousWakeup, FiberStep, Finalize, Resume,
   DoerStep, WgDone, WgWake, DestroyWakesUp, SignalDrained

LEMMA NextHaveLeft == ASSUME UInv, (IInv /\ Announced /\ Counted)', Next PROVE CountedHaveLeft'
<1> SUFFICES ASSUME dpc' = "freed"
             PROVE  /\ (At("armed") \cup At("parked") \cup At("waiting") \cup At("woken"))' = {}
                    /\ parked' = <<>> /\ Inside("do")' = {}
  BY DEF CountedHaveLeft
<1>1. CASE dpc = "freed"
  <2>1. /\ \A x \in Actors : pc[x] \notin {"armed", "parked", "waiting", "woken"}
        /\ parked = <<>> /\ Inside("do") = {}
    BY <1>1 DEF UInv, CountedHaveLeft, At
  <2>2. PICK f \in Fibers : Resume(f)
    BY <1>1, <2>1 DEF Next, Call, Destroy, MayDestroy, WgAdd, ClientStep, DoerStep, FiberStep, Finalize,
       SpuriousWakeup, DestroyLoops, DestroyWakesUp, Actors, Clients
  <2>3. /\ pc \in [Actors -> PC] /\ \E l \in {"idle", "try"} : pc' = [pc EXCEPT ![f] = l]
        /\ UNCHANGED <<parked, want>> /\ f \in Actors
    BY <2>2 DEF Resume, Goto, UInv, IInv, TypeOK, Actors, Clients
  <2>4. \A x \in Actors : pc'[x] = pc[x] \/ pc'[x] \in {"idle", "try"}
    BY <2>3
  <2>5. (At("armed") \cup At("parked") \cup At("waiting") \cup At("woken"))' = {}
    BY <2>1, <2>4 DEF At
  <2>6. Inside("do")' = {}
    BY <2>1, <2>3, <2>4 DEF Inside, Actors
  <2> QED
    BY <2>1, <2>3, <2>5, <2>6
<1>2. CASE dpc # "freed"
  <2>1. DestroyLoops \/ \E a \in Clients : Destroy(a)
    BY <1>2, DestroySteps
  <2>2. Drained' /\ parked' = <<>>
    BY <2>1 DEF DestroyLoops, Destroy, DestroyTurn, Drained, counters
  <2>3. (IInv /\ Announced /\ Counted /\ Drained /\ parked = <<>> =>
           /\ At("armed") \cup At("parked") \cup At("waiting") \cup At("woken") = {}
           /\ Inside("do") = {})'
    BY DrainedHaveLeft, PTL
  <2> QED
    BY <2>2, <2>3
<1> QED
  BY <1>1, <1>2

LEMMA NextWaits == ASSUME UInv, Next PROVE WaitsForSomebody'
<1> SUFFICES ASSUME dpc' = "wait" PROVE ~Drained'
  BY DEF WaitsForSomebody
<1>1. inflight \in Nat /\ waiters \in Nat /\ runner \in Nat
  BY ArmedFinite, SleepersFinite DEF UInv, IInv, TypeOK, Announced, Counted
<1>2. CASE dpc # "wait"
  <2>1. DestroyLoops \/ \E a \in Clients : Destroy(a)
    BY <1>2, DestroySteps
  <2> QED
    BY <2>1 DEF DestroyLoops, Destroy, DestroyTurn, Drained, counters
<1>3. CASE dpc = "wait"
  <2>1. waiters # 0 \/ runner # 0 \/ inflight # 0
    BY <1>3 DEF UInv, WaitsForSomebody, Drained
  <2>2. CASE UNCHANGED counters
    BY <2>1, <2>2 DEF Drained, counters
  <2>3. ASSUME NEW a \in Clients, Enlist(a) PROVE ~Drained'
    BY <1>1, <2>3 DEF Enlist, Drained
  <2>4. ASSUME NEW a \in Clients, ClientStep(a) PROVE ~Drained'
    <3>1. CASE Wakes(a)
      BY <1>1, <1>3, <2>1, <3>1 DEF Wakes, SignalDrained, Drained
    <3>2. CASE OnceBump(a)
      BY <1>1, <3>2 DEF OnceBump, Drained
    <3>3. ~OncePublish(a)
      BY <1>3 DEF OncePublish, SignalDrained
    <3> QED
      BY <2>2, <2>3, <2>4, <3>1, <3>2, <3>3
      DEF ClientStep, TryEnter, TryFails, SlowWaits, SlowPasses, MutexUnlock, RwUnlock
  <2>5. ASSUME NEW f \in Fibers, FiberStep(f) PROVE ~Drained'
    <3>1. CASE Finalize(f)
      BY <1>1, <1>3, <2>1, <3>1 DEF Finalize, SignalDrained, LastParker, Drained
    <3> QED
      BY <2>2, <2>5, <3>1 DEF FiberStep, Resume
  <2> QED
    BY <1>3, <2>2, <2>4, <2>5 DEF Next, Call, Destroy, MayDestroy, WgAdd, SpuriousWakeup, DoerStep, WgDone,
       WgWake, DestroyLoops, DestroyWakesUp
<1> QED
  BY <1>2, <1>3

\* A step that neither touches a word nor lets anybody in or out.
LEMMA HeldSame ==
  ASSUME HeldBySomebody, UNCHANGED <<kind, word, readers>>, BegunKept,
         kind \in {"mutex", "rwlock"} =>
           /\ \A x \in Clients : (pc'[x] = "in") <=> (pc[x] = "in")
           /\ \A x \in Clients : pc[x] = "in" => want'[x] = want[x]
  PROVE  HeldBySomebody'
<1>1. CASE kind \in {"mutex", "rwlock"}
  <2>1. \A w : Inside(w)' = Inside(w)
    BY <1>1, InsideSame
  <2> QED
    BY <1>1, <2>1 DEF HeldBySomebody, BegunKept
<1>2. CASE kind \notin {"mutex", "rwlock"}
  BY <1>2 DEF HeldBySomebody, BegunKept
<1> QED
  BY <1>1, <1>2

LEMMA HeldGoto ==
  ASSUME IInv, HeldBySomebody, UNCHANGED <<kind, word, readers>>, BegunKept,
         NEW a \in Actors, NEW label, pc' = [pc EXCEPT ![a] = label],
         kind \in {"mutex", "rwlock"} => pc[a] # "in" /\ label # "in",
         \A x \in Clients : x # a => want'[x] = want[x]
  PROVE  HeldBySomebody'
<1>1. \A x \in Actors : x # a => pc'[x] = pc[x]
  BY DEF IInv, TypeOK
<1>2. pc'[a] = label
  BY DEF IInv, TypeOK
<1> QED
  BY <1>1, <1>2, HeldSame DEF Actors

\* Nobody gets in or out of a lock where others are woken, but a.
LEMMA WakingIn ==
  ASSUME IInv, NEW at \in [Actors -> PC], NEW ts \in SUBSET At("waiting"),
         pc' = Waking(at, ParkedSet, ts),
         \A x \in Clients : at[x] # pc[x] => at[x] = "idle"
  PROVE  \A x \in Clients : (pc'[x] = "in") <=> (at[x] = "in")
<1>1. \A x \in Clients : x \in Actors /\ pc'[x] = IF x \in ParkedSet THEN "ready" ELSE IF x \in ts THEN "woken" ELSE at[x]
  BY DEF Waking, Actors
<1>2. \A x \in ParkedSet : pc[x] = "parked"
  <2>1. ParkedSet \subseteq Fibers
    BY DEF ParkedSet, IInv, TypeOK
  <2> QED
    BY <2>1 DEF IInv, ParkedKnown
<1>3. \A x \in ts : pc[x] = "waiting"
  BY DEF At
<1> QED
  BY <1>1, <1>2, <1>3

LEMMA TryEnterHeld == ASSUME UInv, NEW a \in Clients, TryEnter(a) PROVE HeldBySomebody'
<1> USE DEF UInv
<1>1. /\ pc[a] = "try" /\ want[a] \in Wants(kind) /\ a \in Actors /\ pc \in [Actors -> PC]
      /\ UNCHANGED <<kind, want, dpc>> /\ word \in Int /\ readers \in Int
  BY DEF TryEnter, IInv, TypeOK, PlacesKnown, Actors
<1>2. CASE want[a] = "wait"
  <2>1. UNCHANGED <<word, readers>> /\ pc' = [pc EXCEPT ![a] = "idle"] /\ BegunKept
    BY <1>1, <1>2 DEF TryEnter, Goto, BegunKept
  <2> QED
    BY <1>1, <2>1, HeldGoto
<1>3. CASE want[a] = "do"
  <2>1. kind = "once" /\ word = 0
    BY <1>1, <1>3, KindsAssumption DEF TryEnter, Wants, IInv, TypeOK
  <2>2. dpc = "none"
    BY <2>1 DEF HeldBySomebody
  <2> QED
    BY <1>1, <2>1, <2>2 DEF HeldBySomebody
<1>4. CASE want[a] \in {"lock", "read", "write"}
  <2>1. pc'[a] = "in" /\ \A x \in Clients \ {a} : (pc'[x] = "in") <=> (pc[x] = "in")
    BY <1>1, <1>4 DEF TryEnter, Goto, Actors
  <2>2. /\ Cardinality(Inside(want[a])') = Cardinality(Inside(want[a])) + 1
        /\ \A w : w # want[a] => Inside(w)' = Inside(w)
    BY <1>1, <2>1, InsideAdd
  <2>3. CASE want[a] = "lock"
    <3>1. kind = "mutex"
      BY <1>1, <2>3, KindsAssumption DEF Wants, IInv, TypeOK
    <3> QED
      BY <1>1, <2>1, <3>1 DEF HeldBySomebody
  <2>4. CASE want[a] = "read"
    <3>1. kind = "rwlock" /\ word' = 0 /\ word = 0 /\ readers' = readers + 1
      BY <1>1, <2>4, KindsAssumption DEF TryEnter, Wants, IInv, TypeOK
    <3> QED
      BY <1>1, <2>2, <2>4, <3>1, InsideFinite DEF HeldBySomebody
  <2>5. CASE want[a] = "write"
    <3>1. kind = "rwlock" /\ word' = 1 /\ word = 0 /\ readers' = readers
      BY <1>1, <2>5, KindsAssumption DEF TryEnter, WriteFree, Wants, IInv, TypeOK
    <3> QED
      BY <1>1, <2>2, <2>5, <3>1, InsideFinite DEF HeldBySomebody
  <2> QED
    BY <1>4, <2>3, <2>4, <2>5
<1> QED
  BY <1>2, <1>3, <1>4 DEF TryEnter

LEMMA RwUnlockHeld == ASSUME UInv, NEW a \in Clients, RwUnlock(a) PROVE HeldBySomebody'
<1> USE DEF UInv
<1>1. /\ pc[a] = "in" /\ want[a] \in {"read", "write"} /\ want[a] \in Wants(kind)
      /\ UNCHANGED <<kind, want, dpc>> /\ pc' = Waking(Left(a), ParkedSet, At("waiting"))
      /\ a \in Actors /\ word \in Int /\ readers \in Int
  BY DEF RwUnlock, WakeAll, IInv, PlacesKnown, TypeOK, Actors
<1>2. kind = "rwlock"
  BY <1>1, KindsAssumption DEF Wants, IInv, TypeOK
<1>3. Left(a) \in [Actors -> PC] /\ Left(a)[a] = "idle" /\ \A x \in Actors : x # a => Left(a)[x] = pc[x]
  BY <1>1, LeftKnown
<1>4. pc'[a] # "in" /\ \A x \in Clients \ {a} : (pc'[x] = "in") <=> (pc[x] = "in")
  <2>1. \A x \in Clients : (pc'[x] = "in") <=> (Left(a)[x] = "in")
    BY <1>1, <1>3, WakingIn DEF Actors
  <2> QED
    BY <1>3, <2>1 DEF Actors
<1>5. /\ Cardinality(Inside(want[a])') = Cardinality(Inside(want[a])) - 1
      /\ \A w : w # want[a] => Inside(w)' = Inside(w)
  BY <1>1, <1>4, InsideRemove
<1>6. /\ word' \in {0, 1}
      /\ word' + readers' = word + readers - 1
  BY <1>1, <1>2 DEF RwUnlock, HeldByWriter, HeldBySomebody
<1>7. Cardinality(Inside("read")) \in Nat /\ Cardinality(Inside("write")) \in Nat
  BY InsideFinite
<1>8. word + readers <= Cardinality(Inside("read")) + Cardinality(Inside("write"))
  BY <1>2 DEF HeldBySomebody
<1>9. CASE want[a] = "read"
  BY <1>1, <1>2, <1>5, <1>6, <1>7, <1>8, <1>9 DEF HeldBySomebody
<1>10. CASE want[a] = "write"
  BY <1>1, <1>2, <1>5, <1>6, <1>7, <1>8, <1>10 DEF HeldBySomebody
<1> QED
  BY <1>1, <1>9, <1>10

LEMMA NextHeld == ASSUME UInv, Next PROVE HeldBySomebody'
<1> USE DEF UInv
<1>1. pc \in [Actors -> PC] /\ (\A x \in Clients : x \in Actors) /\ (\A d \in Doers : d \in Actors /\ d \notin Clients)
  BY ActorsAssumption DEF IInv, TypeOK, Actors, Clients
<1>2. ASSUME NEW a \in Clients, Call(a) PROVE HeldBySomebody'
  <2>1. /\ pc' = [pc EXCEPT ![a] = "try"] /\ pc[a] = "idle" /\ UNCHANGED <<kind, word, readers, dpc>>
        /\ \A x \in Clients : x # a => want'[x] = want[x]
    BY <1>2 DEF Call, Goto, IInv, TypeOK
  <2> QED
    BY <1>1, <2>1, HeldGoto DEF BegunKept
<1>3. ASSUME NEW a \in Clients, TryFails(a) \/ SlowWaits(a) \/ SlowPasses(a) \/ Wakes(a) PROVE HeldBySomebody'
  <2>1. PICK l \in {"slow", "armed", "waiting", "idle", "try"} : pc' = [pc EXCEPT ![a] = l]
    BY <1>3 DEF TryFails, SlowWaits, SlowPasses, Wakes, Enlist, Goto
  <2>2. pc[a] \in {"try", "slow", "woken"} /\ UNCHANGED <<kind, word, readers, want>>
    BY <1>3 DEF TryFails, SlowWaits, SlowPasses, Wakes, Enlist
  <2>3. BegunKept
    BY <1>3, SignalKeeps DEF TryFails, SlowWaits, SlowPasses, Wakes, Enlist, BegunKept
  <2> QED
    BY <1>1, <2>1, <2>2, <2>3, HeldGoto
<1>4. ASSUME NEW a \in Clients, MutexUnlock(a) PROVE HeldBySomebody'
  <2>1. kind = "mutex"
    BY <1>4, KindsAssumption DEF MutexUnlock, IInv, TypeOK, PlacesKnown, Wants
  <2> QED
    BY <1>4, <2>1 DEF MutexUnlock, HeldBySomebody
<1>5. ASSUME NEW a \in Clients, OnceBump(a) PROVE HeldBySomebody'
  <2>1. /\ pc' = [pc EXCEPT ![a] = "in"] /\ pc[a] = "bump" /\ kind = "once"
        /\ UNCHANGED <<kind, word, readers, want, dpc>>
    BY <1>5 DEF OnceBump, Goto, IInv, PlacesKnown
  <2> QED
    BY <1>1, <2>1, HeldGoto DEF BegunKept
<1>6. ASSUME NEW a \in Clients, OncePublish(a) PROVE HeldBySomebody'
  <2>1. kind = "once" /\ kind' = kind /\ word' = 2
    BY <1>6, KindsAssumption DEF OncePublish, IInv, TypeOK, PlacesKnown, Wants
  <2> QED
    BY <2>1 DEF HeldBySomebody
<1>7. ASSUME NEW a \in Clients, Destroy(a) PROVE HeldBySomebody'
  <2>1. kind' = kind /\ readers' = 0 /\ word' = IF kind = "once" THEN 2 ELSE 0
    BY <1>7 DEF Destroy, DestroyTurn
  <2>2. (\A w : IsFiniteSet(Inside(w)) /\ Cardinality(Inside(w)) \in Nat)'
    BY InsideFinite, PTL
  <2>3. Cardinality(Inside("read")') \in Nat /\ Cardinality(Inside("write")') \in Nat
    BY <2>2
  <2> QED
    BY <2>1, <2>3 DEF HeldBySomebody
<1>8. ASSUME NEW a \in Clients, NEW d \in Doers, WgAdd(a, d) PROVE HeldBySomebody'
  BY <1>8 DEF WgAdd, HeldBySomebody
<1>9. ASSUME NEW a \in Threads, SpuriousWakeup(a) PROVE HeldBySomebody'
  <2>1. /\ pc' = [pc EXCEPT ![a] = "woken"] /\ pc[a] = "waiting" /\ a \in Actors
        /\ UNCHANGED <<kind, word, readers, want, dpc>>
    BY <1>9 DEF SpuriousWakeup, Goto, Actors, Clients
  <2> QED
    BY <2>1, HeldGoto DEF BegunKept
<1>10. ASSUME NEW f \in Fibers, FiberStep(f) PROVE HeldBySomebody'
  <2>1. PICK l \in {"parked", "ready", "idle", "try"} : pc' = [pc EXCEPT ![f] = l]
    BY <1>10 DEF FiberStep, Finalize, Resume, Goto
  <2>2. pc[f] \in {"armed", "ready"} /\ UNCHANGED <<kind, word, readers, want>> /\ f \in Actors
    BY <1>10 DEF FiberStep, Finalize, Resume, Actors, Clients
  <2>3. BegunKept
    BY <1>10, SignalKeeps DEF FiberStep, Finalize, Resume, BegunKept
  <2> QED
    BY <2>1, <2>2, <2>3, HeldGoto
<1>11. ASSUME NEW d \in Doers, DoerStep(d) PROVE HeldBySomebody'
  <2>1. kind = "waitgroup" /\ UNCHANGED <<kind, dpc>> /\ word \in Int /\ (word' = word - 1 \/ UNCHANGED word)
    BY <1>11 DEF DoerStep, WgDone, WgWake, IInv, TypeOK, PlacesKnown
  <2> QED
    BY <2>1 DEF HeldBySomebody
<1>12. CASE DestroyLoops
  <2>1. /\ UNCHANGED <<kind, word, readers, want>> /\ pc' = Waking(pc, ParkedSet, {}) /\ BegunKept
    BY <1>12 DEF DestroyLoops, DestroyTurn, BegunKept
  <2>2. \A x \in Clients : (pc'[x] = "in") <=> (pc[x] = "in")
    BY <1>1, <2>1, WakingIn
  <2> QED
    BY <2>1, <2>2, HeldSame
<1>13. CASE DestroyWakesUp
  BY <1>13, HeldSame DEF DestroyWakesUp, BegunKept
<1> QED
  BY <1>2, <1>3, <1>4, <1>5, <1>6, <1>7, <1>8, <1>9, <1>10, <1>11, <1>12, <1>13, TryEnterHeld, RwUnlockHeld
  DEF Next, ClientStep

LEMMA NextUInv == UInv /\ [Next]_vars => UInv'
<1> SUFFICES ASSUME UInv, [Next]_vars PROVE UInv'
  OBVIOUS
<1>1. IInv'
  BY NextIInv DEF UInv
<1>2. CASE Next
  <2>1. Announced' /\ Counted'
    BY <1>2, NextAnnounced, NextCounted DEF UInv
  <2>2. CountedHaveLeft'
    BY <1>1, <1>2, <2>1, NextHaveLeft
  <2>3. WaitsForSomebody' /\ HeldBySomebody'
    BY <1>2, NextWaits, NextHeld
  <2> QED
    BY <1>1, <2>1, <2>2, <2>3 DEF UInv
<1>3. CASE UNCHANGED vars
  <2>1. UNCHANGED <<kind, word, readers, waiters, inflight, runner, parked, pc, want, dpc>>
    BY <1>3 DEF vars, counters
  <2>2. Announced' /\ Counted'
    BY <2>1 DEF UInv, Announced, Armed, Counted, Sleepers
  <2>3. WaitsForSomebody'
    BY <2>1 DEF UInv, WaitsForSomebody, Drained
  <2>4. HeldBySomebody'
    BY <2>1, HeldSame DEF UInv, BegunKept
  <2>5. CountedHaveLeft'
    BY <2>1 DEF UInv, CountedHaveLeft, At, Inside
  <2> QED
    BY <1>1, <2>2, <2>3, <2>4, <2>5 DEF UInv
<1> QED
  BY <1>2, <1>3

LEMMA InitUInv == Init => UInv
<1> SUFFICES ASSUME Init PROVE UInv
  OBVIOUS
<1>1. IInv
  BY InitIInv
<1>2. Armed = {} /\ Sleepers = {} /\ waiters = 0 /\ runner = 0 /\ inflight = 0 /\ dpc = "none"
  BY DEF Init, Armed, Sleepers, Sleeper, Actors
<1>3. Announced /\ Counted /\ WaitsForSomebody /\ CountedHaveLeft
  BY <1>2, FS_EmptySet DEF Announced, Counted, WaitsForSomebody, CountedHaveLeft
<1>4. HeldBySomebody
  BY <1>2, InsideFinite DEF Init, HeldBySomebody
<1> QED
  BY <1>1, <1>3, <1>4 DEF UInv

\* Somebody who is counted is left, and goes on by himself or is held up by somebody.
LEMMA UInvTells == UInv => DestroyerIsTold
<1> SUFFICES ASSUME UInv, dpc = "wait", ~(readers < 0)
             PROVE  \/ At("armed") \cup At("woken") # {}
                    \/ At("waiting") # {} /\ (At("in") # {} \/ OnTheWay)
                    \/ Inside("do") # {}
  BY DEF DestroyerIsTold
<1> USE DEF UInv
<1>1. waiters # 0 \/ inflight # 0 \/ runner # 0
  BY DEF WaitsForSomebody, Drained
<1>2. CASE inflight # 0
  <2>1. Armed # {}
    BY <1>2, FS_EmptySet DEF Announced
  <2> QED
    BY <2>1 DEF Armed, At, Actors
<1>3. CASE runner # 0
  <2>1. runner = Cardinality(Inside("do"))
    BY <1>3 DEF Counted, IInv, Exclusion
  <2> QED
    BY <1>3, <2>1, FS_EmptySet
<1>4. CASE waiters # 0
  <2>1. Sleepers # {}
    BY <1>4, FS_EmptySet DEF Counted
  <2>2. PICK x \in Clients : pc[x] \in {"waiting", "woken"}
    BY <2>1 DEF Sleepers, Sleeper
  <2>3. x \in Actors
    BY DEF Actors
  <2>4. CASE pc[x] = "woken"
    BY <2>3, <2>4 DEF At
  <2>5. CASE pc[x] = "waiting"
    <3>1. At("waiting") # {} /\ want[x] \in Wants(kind) /\ (Blocked(x) \/ OnTheWay)
      BY <2>3, <2>5 DEF At, IInv, NoLostWakeup, PlacesKnown
    <3> SUFFICES ASSUME Blocked(x) PROVE \E y \in Clients : pc[y] = "in"
      BY <3>1 DEF At, Actors
    <3>2. kind \in {"mutex", "rwlock", "waitgroup", "once"} /\ word \in Int /\ readers \in Int
      BY KindsAssumption DEF IInv, TypeOK
    <3>3. CASE kind = "mutex"
      BY <3>1, <3>3 DEF HeldBySomebody, Blocked, Wants
    <3>4. CASE kind = "rwlock"
      <4>1. word \in {0, 1} /\ (word # 0 \/ readers # 0)
        BY <3>1, <3>4 DEF HeldBySomebody, Blocked, Wants
      <4>2. word + readers >= 1
        BY <3>2, <4>1
      <4>3. Cardinality(Inside("read")) # 0 \/ Cardinality(Inside("write")) # 0
        BY <3>4, <4>2, <3>2, InsideFinite DEF HeldBySomebody
      <4> QED
        BY <4>3, InsideNone
    <3>5. CASE kind = "waitgroup"
      BY <3>1, <3>2, <3>5 DEF HeldBySomebody, Blocked, Wants
    <3>6. CASE kind = "once"
      BY <3>1, <3>6 DEF HeldBySomebody, Blocked, OnceOver, Wants
    <3> QED
      BY <3>2, <3>3, <3>4, <3>5, <3>6
  <2> QED
    BY <2>2, <2>4, <2>5
<1> QED
  BY <1>1, <1>2, <1>3, <1>4

\* Whoever is inside, waiting or being parked when destroy is called: it frees the
\* object only when those it counts have left, the fibers that are announced or on the
\* list, the threads in the condition wait and the runner of a Once; and while it waits
\* on drained_cv somebody is left from whom the signal comes.  The one exception is a
\* RwLock whose readers have gone below zero, because destroy cleared it under them.
THEOREM SyncDestroyOutlastsUsers == Spec => []DestroyOutlastsUsers
<1>1. UInv => DestroyOutlastsUsers
  BY UInvTells DEF UInv, DestroyOutlastsUsers
<1> QED
  BY <1>1, InitUInv, NextUInv, PTL DEF Spec

-----------------------------------------------------------------------------
(***************************************************************************)
(* once_do.                                                                *)
(***************************************************************************)
\* Until destroy says that a Once is over only the end of its body does, and it
\* wakes those who wait for it.
OnceKnown ==
  kind = "once" /\ dpc = "none" =>
    (word = 2 => ended) /\ \A a \in Clients : pc[a] = "ready" => ended

\* On a Once there is only one operation, and no unit of work.
LEMMA OnlyDo ==
  ASSUME IInv, kind = "once"
  PROVE  /\ \A a \in Clients : pc[a] # "idle" => want[a] = "do"
         /\ \A d \in Doers : pc[d] = "idle"
BY DEF IInv, PlacesKnown, Wants

\* Its steps: the others cannot be taken on a Once that is not being destroyed.
OnceSteps(a) ==
  \/ Call(a) \/ TryEnter(a) \/ TryFails(a) \/ SlowWaits(a) \/ SlowPasses(a) \/ Wakes(a)
  \/ OnceBump(a) \/ OncePublish(a) \/ (a \in Threads /\ SpuriousWakeup(a))
  \/ (a \in Fibers /\ FiberStep(a))

LEMMA OnceStepCases ==
  ASSUME IInv, Next, kind = "once", dpc' = "none"
  PROVE  dpc = "none" /\ \E a \in Clients : OnceSteps(a)
<1>1. dpc = "none"
  BY DEF Next, Call, ClientStep, TryEnter, TryFails, SlowWaits, Enlist, SlowPasses, Wakes, MutexUnlock,
     RwUnlock, OnceBump, OncePublish, Destroy, MayDestroy, DestroyTurn, WgAdd, SpuriousWakeup, FiberStep,
     Finalize, Resume, DoerStep, WgDone, WgWake, DestroyLoops, DestroyWakesUp, SignalDrained
<1>2. ~\E a \in Clients : Destroy(a)
  BY DEF Destroy, DestroyTurn
<1>3. ~(DestroyLoops \/ DestroyWakesUp)
  BY <1>1 DEF DestroyLoops, DestroyWakesUp
<1>4. \A a \in Clients : ~MutexUnlock(a) /\ ~RwUnlock(a)
  BY OnlyDo DEF MutexUnlock, RwUnlock
<1>5. kind # "waitgroup"
  OBVIOUS
<1>6. \A a \in Clients, d \in Doers : ~WgAdd(a, d)
  BY <1>5 DEF WgAdd
<1>7. \A d \in Doers : ~DoerStep(d)
  BY OnlyDo DEF DoerStep, WgDone, WgWake
<1> QED
  BY <1>1, <1>2, <1>3, <1>4, <1>6, <1>7 DEF Next, ClientStep, OnceSteps, Clients

\* Whoever becomes ready, or returns, finds the body ended.
LEMMA OnceStepsKeep ==
  ASSUME IInv, OnceKnown, kind = "once", dpc = "none", NEW a \in Clients, OnceSteps(a)
  PROVE  /\ kind' = kind
         /\ word' = 2 => ended'
         /\ ended => ended'
         /\ \A b \in Clients : pc'[b] = "ready" => ended'
         /\ \A b \in Clients : pc[b] # "idle" /\ pc'[b] = "idle" => ended'
<1> USE DEF IInv, TypeOK
<1>1. pc[a] # "idle" => want[a] = "do"
  BY OnlyDo
<1>2. a \in Actors
  BY DEF Actors
<1>3. CASE OncePublish(a)
  BY <1>3 DEF OncePublish
<1>4. ASSUME NEW l, pc' = [pc EXCEPT ![a] = l], UNCHANGED <<kind, ended>>, word' = 2 => word = 2,
             l \in {"ready", "idle"} => word = 2 \/ pc[a] = "ready"
      PROVE  /\ kind' = kind
             /\ word' = 2 => ended'
             /\ ended => ended'
             /\ \A b \in Clients : pc'[b] = "ready" => ended'
             /\ \A b \in Clients : pc[b] # "idle" /\ pc'[b] = "idle" => ended'
  <2>1. word = 2 \/ pc[a] = "ready" => ended
    BY DEF OnceKnown
  <2>2. \A b \in Clients : b # a => pc'[b] = pc[b]
    BY <1>4 DEF Actors
  <2>3. pc'[a] = l
    BY <1>2, <1>4
  <2> QED
    BY <1>4, <2>1, <2>2, <2>3 DEF OnceKnown
<1>5. CASE Call(a)
  BY <1>4, <1>5 DEF Call, Goto
<1>6. CASE TryEnter(a)
  <2>1. pc' = [pc EXCEPT ![a] = "bump"] /\ word' = 1 /\ UNCHANGED <<kind, ended>>
    BY <1>1, <1>6 DEF TryEnter, Goto
  <2>2. word' # 2
    BY <2>1
  <2> QED BY <1>4, <2>1, <2>2
<1>7. CASE TryFails(a) \/ SlowWaits(a)
  <2>1. PICK l \in {"armed", "waiting", "slow"} : pc' = [pc EXCEPT ![a] = l]
    BY <1>7 DEF TryFails, SlowWaits, Enlist, Goto
  <2>2. UNCHANGED <<kind, ended, word>>
    BY <1>7 DEF TryFails, SlowWaits, Enlist
  <2> QED BY <1>4, <2>1, <2>2
<1>8. CASE SlowPasses(a)
  <2>1. word = 2
    BY <1>1, <1>8 DEF SlowPasses, BlockedStill, Blocked, OnceOver
  <2>2. PICK l : pc' = [pc EXCEPT ![a] = l]
    BY <1>8 DEF SlowPasses, Goto
  <2> QED BY <1>4, <1>8, <2>1, <2>2 DEF SlowPasses
<1>9. CASE Wakes(a)
  <2>1. pc' = [pc EXCEPT ![a] = "slow"] /\ UNCHANGED <<kind, ended, word>>
    BY <1>1, <1>9 DEF Wakes, Goto
  <2> QED BY <1>4, <2>1
<1>10. CASE OnceBump(a)
  BY <1>4, <1>10 DEF OnceBump, Goto
<1>11. CASE SpuriousWakeup(a)
  BY <1>4, <1>11 DEF SpuriousWakeup, Goto
<1>12. CASE Finalize(a)
  <2>1. want[a] = "do" /\ UNCHANGED <<kind, ended, word>>
    BY <1>1, <1>12 DEF Finalize
  <2>2. CASE Parks(a)
    BY <1>4, <1>12, <2>1, <2>2 DEF Finalize, Goto
  <2>3. CASE ~Parks(a)
    <3>1. word = 2
      BY <2>1, <2>3 DEF Parks, Blocked, OnceOver
    <3> QED BY <1>4, <1>12, <2>1, <2>3, <3>1 DEF Finalize, Goto
  <2> QED BY <2>2, <2>3
<1>13. CASE Resume(a)
  <2>1. PICK l : pc' = [pc EXCEPT ![a] = l]
    BY <1>13 DEF Resume, Goto
  <2> QED BY <1>4, <1>13, <2>1 DEF Resume
<1> QED
  BY <1>3, <1>5, <1>6, <1>7, <1>8, <1>9, <1>10, <1>11, <1>12, <1>13 DEF OnceSteps, FiberStep

LEMMA NextOnceKnown == IInv /\ OnceKnown /\ [Next]_vars => OnceKnown'
<1> SUFFICES ASSUME IInv, OnceKnown, [Next]_vars, kind' = "once", dpc' = "none" PROVE OnceKnown'
  BY DEF OnceKnown
<1>1. CASE Next
  <2>1. kind = "once"
    BY <1>1 DEF Next, Call, ClientStep, TryEnter, TryFails, SlowWaits, Enlist, SlowPasses, Wakes,
       MutexUnlock, RwUnlock, OnceBump, OncePublish, Destroy, DestroyTurn, WgAdd, SpuriousWakeup,
       FiberStep, Finalize, Resume, DoerStep, WgDone, WgWake, DestroyLoops, DestroyWakesUp
  <2>2. dpc = "none" /\ \E a \in Clients : OnceSteps(a)
    BY <1>1, <2>1, OnceStepCases
  <2>3. (word' = 2 => ended') /\ \A b \in Clients : pc'[b] = "ready" => ended'
    BY <2>1, <2>2, OnceStepsKeep
  <2> QED BY <2>3 DEF OnceKnown
<1>2. CASE UNCHANGED vars
  BY <1>2 DEF OnceKnown, vars
<1> QED BY <1>1, <1>2

\* once_do returns to nobody before the body has ended, whether the caller lost
\* the race, waited or was finalized too late to park; destroy lets the late go.
THEOREM SyncOnceReturnsAfterBody == Spec => OnceReturnsAfterBody
<1> DEFINE Inv == IInv /\ OnceKnown
           Returns == \A a \in Clients :
             kind = "once" /\ pc[a] # "idle" /\ pc'[a] = "idle" /\ dpc = "none" => ended'
<1>1. Init => Inv
  BY InitIInv DEF Init, OnceKnown, Actors
<1>2. Inv /\ [Next]_vars => Inv'
  BY NextIInv, NextOnceKnown
<1>3. Inv /\ [Next]_vars => [Returns]_vars
  <2> SUFFICES ASSUME Inv, Next, NEW a \in Clients, kind = "once", pc[a] # "idle", pc'[a] = "idle",
                      dpc = "none"
               PROVE  ended'
    OBVIOUS
  <2>1. CASE dpc' = "none"
    BY <2>1, OnceStepCases, OnceStepsKeep
  <2>2. CASE dpc' # "none"
    <3>1. PICK b \in Clients : Destroy(b)
      BY <2>2 DEF Next, Call, ClientStep, TryEnter, TryFails, SlowWaits, Enlist, SlowPasses, Wakes,
         MutexUnlock, RwUnlock, OnceBump, OncePublish, WgAdd, SpuriousWakeup, FiberStep, Finalize, Resume,
         DoerStep, WgDone, WgWake, DestroyLoops, DestroyWakesUp, SignalDrained
    <3>2. pc[b] = "idle"
      BY <3>1, OnlyDo DEF Destroy, MayDestroy
    <3>3. pc' = Waking(Left(b), ParkedSet, At("waiting"))
      BY <3>1 DEF Destroy, DestroyTurn
    <3>4. a \in Actors /\ a # b
      BY <3>2 DEF Actors
    <3> QED
      BY <3>3, <3>4 DEF Waking, Left, IInv, TypeOK
  <2> QED BY <2>1, <2>2
<1> QED
  <2> HIDE DEF Inv
  <2> QED BY <1>1, <1>2, <1>3, PTL DEF Spec, OnceReturnsAfterBody
=============================================================================
