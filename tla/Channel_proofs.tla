--------------------------- MODULE Channel_proofs ---------------------------
(***************************************************************************)
(* Proofs about Channel for any number of fibers and threads and any       *)
(* capacity of the home's ring: the channel is a queue; a fiber is in one  *)
(* place; no wake is lost, and the home hears of it; destroy, called in    *)
(* whatever state, outlasts those it counts, and is told.                  *)
(***************************************************************************)
EXTENDS Channel, FiniteSetTheorems, SequenceTheorems, TLAPS

-----------------------------------------------------------------------------
(***************************************************************************)
(* The channel is a queue: what each step does to the items.               *)
(***************************************************************************)
Items == <<queue, sent, closed, got>>

\* Of the steps of the home's loop and of those that only wake, none touches them.
LEMMA LoopLeavesItems == Loop => UNCHANGED Items
BY DEF Loop, EmptyPipe, EmptyInbox, BackToJoin, Pick, Idle, EpollReturns, FinalizePark,
       FinalizeOther, Expire, channel, Items

LEMMA TakesIsReceive ==
  ASSUME NEW a \in Clients, ~MustWait, TakesOrGivesUp(a), UNCHANGED <<sent, closed>>
  PROVE  Queue!Receive(a) \/ Queue!ReceiveNothing(a)
BY DEF MustWait, TakesOrGivesUp, Queue!Receive, Queue!ReceiveNothing

LEMMA ClientIsQueue ==
  ASSUME NEW a \in Clients, Calls(a) \/ Step(a) \/ SpuriousWakeup(a)
  PROVE  Queue!Next \/ UNCHANGED Items
<1>1. CASE Send(a)
  BY <1>1 DEF Send, Queue!Next, Queue!Send, Items
<1>2. CASE Receive(a)
  <2>1. ~MustWait /\ TakesOrGivesUp(a) /\ UNCHANGED <<sent, closed>>
    BY <1>2 DEF Receive
  <2> QED
    BY <2>1, TakesIsReceive DEF Queue!Next
<1>3. CASE TryReceive(a)
  <2>1. ~MustWait /\ TakesOrGivesUp(a) /\ UNCHANGED <<sent, closed>>
    BY <1>3 DEF TryReceive, MustWait
  <2> QED
    BY <2>1, TakesIsReceive DEF Queue!Next
<1>4. CASE Block(a)
  <2>1. CASE MustWait
    BY <1>4, <2>1 DEF Block, Items
  <2>2. CASE ~MustWait
    <3>1. TakesOrGivesUp(a) /\ UNCHANGED <<sent, closed>>
      BY <1>4, <2>2 DEF Block
    <3> QED
      BY <2>2, <3>1, TakesIsReceive DEF Queue!Next
  <2> QED
    BY <2>1, <2>2
<1>5. CASE Wakes(a)
  <2>1. CASE MustWait
    BY <1>5, <2>1 DEF Wakes, WaitsAgain, Items
  <2>2. CASE ~MustWait
    <3>1. TakesOrGivesUp(a) /\ UNCHANGED <<sent, closed>>
      BY <1>5, <2>2 DEF Wakes, WaitsAgain
    <3> QED
      BY <2>2, <3>1, TakesIsReceive DEF Queue!Next
  <2> QED
    BY <2>1, <2>2
<1>6. CASE Close(a)
  BY <1>6 DEF Close, Queue!Next, Queue!Close
<1>7. CASE Destroy(a)
  BY <1>7 DEF Destroy, Queue!Next, Queue!Destroy
<1>8. CASE ParkFiber(a) \/ WaitOutside(a) \/ WakeFibers(a)
  BY <1>8 DEF ParkFiber, WaitOutside, WakeFibers, channel, Items
<1>9. CASE Post(a) \/ Ping(a) \/ Drain(a) \/ SpuriousWakeup(a)
  BY <1>9 DEF Post, Ping, Drain, SpuriousWakeup, channel, Items
<1> QED
  BY <1>1, <1>2, <1>3, <1>4, <1>5, <1>6, <1>7, <1>8, <1>9 DEF Calls, Step

\* send, recv, try_recv, close and destroy each take effect in one step, in which the
\* channel does what a queue does: items come out in the order they went in, once, and
\* zeros only of a channel that is closed and empty; for any number of clients.
THEOREM ChannelImplementsQueue == Spec => ImplementsQueue
<1>1. Init => Queue!Init
  BY DEF Init, Queue!Init
<1>2. [Next]_vars => [Queue!Next]_Queue!vars
  <2> SUFFICES ASSUME [Next]_vars PROVE Queue!Next \/ UNCHANGED Items
    BY DEF Queue!vars, Items
  <2>1. CASE \E a \in Clients : Calls(a) \/ Step(a) \/ SpuriousWakeup(a)
    BY <2>1, ClientIsQueue
  <2>2. CASE \E f \in Fibers : FiberCalls(f) \/ Join(f) \/ DescriptorReady(f)
    BY <2>2 DEF FiberCalls, ParkFiber, SwitchOut, Finish, Join, DescriptorReady, channel, Items
  <2>3. CASE \E a \in Clients, f \in Fibers : Spawn(a, f)
    BY <2>3 DEF Spawn, channel, Items
  <2>4. CASE AnchorStep \/ Nap \/ NapIsOver \/ AnchorDeadline
    BY <2>4 DEF AnchorStep, Adopt, PollTurn, Nap, NapIsOver, AnchorDeadline, channel, Items
  <2>5. CASE Loop
    BY <2>5, LoopLeavesItems
  <2>6. CASE UNCHANGED vars
    BY <2>6 DEF vars, channel, Items
  <2> QED
    BY <2>1, <2>2, <2>3, <2>4, <2>5, <2>6 DEF Next
<1> QED
  BY <1>1, <1>2, PTL DEF Spec, Queue!Spec, ImplementsQueue

-----------------------------------------------------------------------------
(***************************************************************************)
(* Where the clients are, when one of them destroys the channel.           *)
(***************************************************************************)
Waits == {"waiting", "woken"}
Ends == {"dwake", "dpost", "dping", "drain", "dwait"}

Waiting == At("waiting") \cup At("woken")

\* One client at most destroys, and has closed the channel; threads in the condition
\* wait are counted, and have left it before it is freed.
EndInv ==
  /\ pc \in [Clients -> PC]
  /\ waiters = Cardinality(Waiting)
  /\ closed \in BOOLEAN /\ freed \in BOOLEAN
  /\ Destroying => closed
  /\ \A x, y \in Clients : pc[x] \in Ends /\ pc[y] \in Ends => x = y
  /\ freed => \A x \in Clients : pc[x] \notin Waits \cup Ends

LEMMA InitEndInv == Init => EndInv
<1> SUFFICES ASSUME Init PROVE EndInv
  OBVIOUS
<1>1. \A x \in Clients : pc[x] \in {"unborn", "intake", "idle"}
  BY DEF Init
<1>2. pc \in [Clients -> PC]
  BY DEF Init, PC
<1>3. Waiting = {}
  BY <1>1 DEF Waiting, At
<1>4. waiters = Cardinality(Waiting)
  BY <1>3, FS_EmptySet DEF Init
<1> QED
  BY <1>1, <1>2, <1>4 DEF Init, EndInv, Waits, Ends, Destroying

LEMMA WaitingFinite == IsFiniteSet(Waiting) /\ Cardinality(Waiting) \in Nat
<1>1. IsFiniteSet(Fibers \cup Threads)
  BY ClientsAssumption, FS_Union
<1>2. IsFiniteSet(Clients)
  BY <1>1, FS_AddElement DEF Clients
<1>3. Waiting \subseteq Clients
  BY DEF Waiting, At
<1>4. IsFiniteSet(Waiting)
  BY <1>2, <1>3, FS_Subset
<1> QED
  BY <1>4, FS_CardinalityType

\* How a client may go on, without being counted or no longer counted, or beginning
\* to destroy.
Moves(x) ==
  \/ pc'[x] = pc[x]
  \/ pc[x] \in Waits /\ pc'[x] \in Waits
  \/ pc[x] \in Ends /\ pc'[x] \in Ends
  \/ pc[x] \notin Waits /\ pc'[x] \notin Waits \cup Ends

LEMMA MovesEndInv ==
  ASSUME EndInv, pc' \in [Clients -> PC], UNCHANGED <<waiters, freed>>, closed' \in BOOLEAN,
         closed => closed', \A x \in Clients : Moves(x)
  PROVE  EndInv'
<1>1. \A x \in Clients : /\ pc'[x] \in Waits <=> pc[x] \in Waits
                         /\ pc'[x] \in Ends => pc[x] \in Ends
  BY DEF Moves, Waits, Ends
<1>2. Waiting' = Waiting
  BY <1>1 DEF Waiting, At, Waits
<1>3. Destroying' => Destroying
  BY <1>1 DEF Destroying, Ends
<1> QED
  BY <1>1, <1>2, <1>3 DEF EndInv

\* One client goes to the label l.
LEMMA OneMoves ==
  ASSUME EndInv, NEW a \in Clients, NEW l \in PC, pc' = [pc EXCEPT ![a] = l],
         UNCHANGED <<waiters, freed>>, closed' \in BOOLEAN, closed => closed',
         \/ l = pc[a]
         \/ pc[a] \in Waits /\ l \in Waits
         \/ pc[a] \in Ends /\ l \in Ends
         \/ pc[a] \notin Waits /\ l \notin Waits \cup Ends
  PROVE  EndInv'
<1>1. pc' \in [Clients -> PC]
  BY DEF EndInv
<1>2. pc'[a] = l /\ \A x \in Clients \ {a} : pc'[x] = pc[x]
  BY DEF EndInv
<1>3. \A x \in Clients : Moves(x)
  BY <1>2 DEF Moves
<1> QED
  BY <1>1, <1>3, MovesEndInv

LEMMA NoneMoves ==
  ASSUME EndInv, UNCHANGED <<pc, waiters, freed, closed>>
  PROVE  EndInv'
BY MovesEndInv DEF EndInv, Moves

-----------------------------------------------------------------------------
(***************************************************************************)
(* The steps of the operations.                                            *)
(***************************************************************************)
\* A signal wakes at most one thread that waits.
LEMMA Signalled ==
  ASSUME EndInv, NEW a \in Clients, NEW l \in PC, pc[a] \notin Waits, l \notin Waits,
         SignalOne([pc EXCEPT ![a] = l])
  PROVE  /\ pc' \in [Clients -> PC] /\ pc'[a] = l
         /\ \A x \in Clients \ {a} : pc'[x] = pc[x] \/ (pc[x] = "waiting" /\ pc'[x] = "woken")
         /\ \A x \in Clients \ {a}, y \in Clients \ {a} : pc'[x] # pc[x] /\ pc'[y] # pc[y] => x = y
         /\ At("waiting") # {} => \E x \in Clients \ {a} : pc[x] = "waiting" /\ pc'[x] = "woken"
<1> DEFINE p == [pc EXCEPT ![a] = l]
<1>1. p \in [Clients -> PC] /\ p[a] = l /\ \A x \in Clients \ {a} : p[x] = pc[x]
  BY DEF EndInv
<1>2. CASE At("waiting") = {}
  BY <1>1, <1>2 DEF SignalOne
<1>3. CASE At("waiting") # {}
  <2>1. PICK t \in At("waiting") : pc' = [p EXCEPT ![t] = "woken"]
    BY <1>3 DEF SignalOne
  <2>2. t \in Clients /\ pc[t] = "waiting" /\ t # a
    BY <2>1 DEF At, Waits
  <2>3. "woken" \in PC
    BY DEF PC
  <2> HIDE DEF p
  <2> QED
    BY <1>1, <2>1, <2>2, <2>3
<1> QED
  BY <1>2, <1>3

LEMMA CallsEndInv ==
  ASSUME EndInv, NEW a \in Clients, Send(a) \/ Receive(a) \/ WaitOutside(a) \/ TryReceive(a) \/ Close(a)
  PROVE  EndInv'
<1> USE DEF Begins, GoesOn, Goto, Waits, Ends
<1>1. CASE Send(a)
  <2>1. pc[a] = "idle" /\ ~Destroying /\ UNCHANGED <<waiters, freed, closed>>
    BY <1>1 DEF Send
  <2>2. CASE closed
    BY <1>1, <2>1, <2>2, NoneMoves DEF Send
  <2>3. CASE ~closed
    <3>1. SignalOne([pc EXCEPT ![a] = "wake"]) /\ "wake" \in PC
      BY <1>1, <2>3 DEF Send, PC
    <3>2. pc' \in [Clients -> PC] /\ \A x \in Clients : Moves(x)
      BY <2>1, <3>1, Signalled DEF Moves
    <3> QED
      BY <2>1, <3>2, MovesEndInv DEF EndInv
  <2> QED
    BY <2>2, <2>3
<1>2. CASE Receive(a)
  <2>1. /\ pc' = [pc EXCEPT ![a] = "idle"] /\ "idle" \in PC
        /\ pc[a] = "recv" \/ (pc[a] = "idle" /\ ~Destroying)
        /\ UNCHANGED <<waiters, freed, closed>>
    BY <1>2 DEF Receive, PC
  <2> QED
    BY <2>1, OneMoves DEF EndInv
<1>3. CASE WaitOutside(a)
  <2>1. PICK l \in {"recv", "block"} : pc' = [pc EXCEPT ![a] = l]
    BY <1>3 DEF WaitOutside
  <2>2. /\ pc[a] = "recv" \/ (pc[a] = "idle" /\ ~Destroying)
        /\ UNCHANGED <<waiters, freed, closed>> /\ l \in PC
    BY <1>3 DEF WaitOutside, channel, PC
  <2> QED
    BY <2>1, <2>2, OneMoves DEF EndInv
<1>4. CASE TryReceive(a)
  BY <1>4, NoneMoves DEF TryReceive
<1>5. CASE Close(a)
  <2>1. pc[a] = "idle" /\ ~Destroying /\ UNCHANGED <<waiters, freed>> /\ closed' = TRUE
    BY <1>5 DEF Close
  <2>2. \A x \in Clients : pc'[x] = IF x = a THEN "wakeall"
                                    ELSE IF pc[x] = "waiting" THEN "woken" ELSE pc[x]
    BY <1>5 DEF Close, Moved, EndInv
  <2>3. pc' \in [Clients -> PC]
    <3>1. pc' = [x \in Clients |-> pc'[x]]
      BY <1>5 DEF Close, Moved
    <3>2. {"wakeall", "woken"} \subseteq PC
      BY DEF PC
    <3> QED
      BY <2>2, <3>1, <3>2 DEF EndInv
  <2>4. \A x \in Clients : Moves(x)
    BY <2>1, <2>2 DEF Moves
  <2> QED
    BY <2>1, <2>3, <2>4, MovesEndInv
<1> QED
  BY <1>1, <1>2, <1>3, <1>4, <1>5

\* A signal of drained_cv, if there is one, takes destroy out of its wait.
LEMMA DrainSignalled ==
  ASSUME NEW c, NEW p \in [Clients -> PC], SignalDrained(c, p)
  PROVE  /\ pc' \in [Clients -> PC]
         /\ \A x \in Clients : pc'[x] = p[x] \/ (p[x] = "dwait" /\ pc'[x] = "dwake")
<1>1. CASE c
  <2>1. pc' = [x \in Clients |-> IF p[x] = "dwait" THEN "dwake" ELSE p[x]]
    BY <1>1 DEF SignalDrained, Moved
  <2>2. "dwake" \in PC
    BY DEF PC
  <2> QED
    BY <2>1, <2>2
<1>2. CASE ~c
  BY <1>2 DEF SignalDrained
<1> QED
  BY <1>1, <1>2

LEMMA BlockEndInv ==
  ASSUME EndInv, NEW a \in Clients, Block(a)
  PROVE  EndInv'
<1>1. pc[a] = "block" /\ UNCHANGED <<closed, freed>>
  BY DEF Block
<1>2. CASE MustWait
  <2>1. waiters' = waiters + 1 /\ pc' = [pc EXCEPT ![a] = "waiting"]
    BY <1>2 DEF Block, Goto
  <2>2. pc'[a] = "waiting" /\ \A x \in Clients \ {a} : pc'[x] = pc[x]
    BY <2>1 DEF EndInv
  <2>3. pc' \in [Clients -> PC]
    BY <2>1 DEF EndInv, PC
  <2>4. Waiting' = Waiting \cup {a} /\ a \notin Waiting
    BY <1>1, <2>2 DEF Waiting, At
  <2>5. Cardinality(Waiting') = Cardinality(Waiting) + 1
    BY <2>4, WaitingFinite, FS_AddElement
  <2>6. ~Destroying /\ ~Destroying'
    BY <1>1, <1>2, <2>2 DEF EndInv, MustWait, Destroying
  <2>7. ~freed
    BY <2>6 DEF Destroying
  <2> QED
    BY <1>1, <2>1, <2>2, <2>3, <2>5, <2>6, <2>7 DEF EndInv, Ends
<1>3. CASE ~MustWait
  <2>1. UNCHANGED waiters /\ SignalDrained(waiters = 0, [pc EXCEPT ![a] = "idle"])
    BY <1>3 DEF Block
  <2> DEFINE p == [pc EXCEPT ![a] = "idle"]
  <2>2. p \in [Clients -> PC] /\ p[a] = "idle" /\ \A x \in Clients \ {a} : p[x] = pc[x]
    BY DEF EndInv, PC
  <2>3. /\ pc' \in [Clients -> PC]
        /\ \A x \in Clients : pc'[x] = p[x] \/ (p[x] = "dwait" /\ pc'[x] = "dwake")
    <3> HIDE DEF p
    <3> QED
      BY <2>1, <2>2, DrainSignalled DEF p
  <2>4. \A x \in Clients : Moves(x)
    <3> HIDE DEF p
    <3> QED
      BY <1>1, <2>2, <2>3 DEF Moves, Waits, Ends
  <2> QED
    BY <1>1, <2>1, <2>3, <2>4, MovesEndInv DEF EndInv
<1> QED
  BY <1>2, <1>3

LEMMA WakesEndInv ==
  ASSUME EndInv, NEW a \in Clients, Wakes(a)
  PROVE  EndInv'
<1>1. pc[a] = "woken" /\ UNCHANGED <<closed, freed>>
  BY DEF Wakes
<1>2. CASE MustWait
  <2>1. pc' = [pc EXCEPT ![a] = "waiting"] /\ UNCHANGED waiters /\ "waiting" \in PC
    BY <1>2 DEF Wakes, WaitsAgain, Goto, PC
  <2> QED
    BY <1>1, <2>1, OneMoves DEF EndInv, Waits
<1>3. CASE ~MustWait
  <2>1. waiters' = waiters - 1 /\ SignalDrained(waiters = 1, [pc EXCEPT ![a] = "idle"])
    BY <1>3 DEF Wakes, WaitsAgain
  <2> DEFINE p == [pc EXCEPT ![a] = "idle"]
  <2>2. p \in [Clients -> PC] /\ p[a] = "idle" /\ \A x \in Clients \ {a} : p[x] = pc[x]
    BY DEF EndInv, PC
  <2>3. /\ pc' \in [Clients -> PC]
        /\ \A x \in Clients : pc'[x] = p[x] \/ (p[x] = "dwait" /\ pc'[x] = "dwake")
    <3> HIDE DEF p
    <3> QED
      BY <2>1, <2>2, DrainSignalled DEF p
  <2>4. pc'[a] = "idle"
        /\ \A x \in Clients \ {a} : pc'[x] = pc[x] \/ (pc[x] = "dwait" /\ pc'[x] = "dwake")
    <3> HIDE DEF p
    <3> QED
      BY <2>2, <2>3
  <2>5. Waiting' = Waiting \ {a} /\ a \in Waiting
    BY <1>1, <2>4 DEF Waiting, At
  <2>6. Cardinality(Waiting') = Cardinality(Waiting) - 1
    BY <2>5, WaitingFinite, FS_RemoveElement
  <2>7. Destroying' => Destroying
    BY <1>1, <2>4 DEF Destroying
  <2>8. ~freed
    BY <1>1 DEF EndInv, Waits
  <2>10. \A x \in Clients : pc'[x] \in Ends => pc[x] \in Ends
    BY <2>4 DEF Ends
  <2> QED
    BY <1>1, <2>1, <2>3, <2>6, <2>7, <2>8, <2>10 DEF EndInv
<1> QED
  BY <1>2, <1>3

\* destroy begins, whatever the others are doing, and nobody else is destroying.
LEMMA DestroyEndInv ==
  ASSUME EndInv, NEW a \in Clients, Destroy(a)
  PROVE  EndInv'
<1>1. pc[a] = "idle" /\ ~Destroying /\ UNCHANGED <<waiters, freed>> /\ closed' = TRUE
  BY DEF Destroy, Begins
<1>2. \A x \in Clients : pc'[x] = IF x = a THEN "dwake"
                                  ELSE IF pc[x] = "waiting" THEN "woken" ELSE pc[x]
  BY DEF Destroy, Moved, EndInv
<1>3. pc' \in [Clients -> PC]
  <2>1. pc' = [x \in Clients |-> pc'[x]]
    BY DEF Destroy, Moved
  <2>2. {"dwake", "woken"} \subseteq PC
    BY DEF PC
  <2> QED
    BY <1>2, <2>1, <2>2 DEF EndInv
<1>4. ~freed /\ \A x \in Clients : pc[x] \notin Ends
  BY <1>1 DEF Destroying, At, Ends
<1>7. Waiting' = Waiting
  BY <1>1, <1>2 DEF Waiting, At
<1>8. \A x \in Clients : pc'[x] \in Ends => x = a
  BY <1>2, <1>4 DEF Ends
<1> QED
  BY <1>1, <1>3, <1>4, <1>7, <1>8 DEF EndInv

LEMMA DrainEndInv ==
  ASSUME EndInv, NEW a \in Clients, Drain(a)
  PROVE  EndInv'
<1>1. pc[a] = "drain" /\ UNCHANGED <<waiters, closed>>
  BY DEF Drain
<1>2. CASE ~Drained
  <2>1. pc' = [pc EXCEPT ![a] = "dwait"] /\ UNCHANGED freed /\ "dwait" \in PC
    BY <1>2 DEF Drain, Goto, PC
  <2> QED
    BY <1>1, <2>1, OneMoves DEF EndInv, Ends
<1>3. CASE Drained
  <2>1. pc' = [pc EXCEPT ![a] = "idle"] /\ freed' = TRUE /\ waiters = 0
    BY <1>3 DEF Drain, Goto, Drained
  <2>2. pc'[a] = "idle" /\ \A x \in Clients \ {a} : pc'[x] = pc[x]
    BY <2>1 DEF EndInv
  <2>3. pc' \in [Clients -> PC]
    BY <2>1 DEF EndInv, PC
  <2>4. Waiting = {}
    BY <2>1, WaitingFinite, FS_EmptySet DEF EndInv
  <2>5. Destroying
    BY <1>1 DEF Destroying
  <2>6. \A x \in Clients \ {a} : pc[x] \notin Waits \cup Ends
    BY <1>1, <2>4 DEF EndInv, Waiting, At, Waits, Ends
  <2>7. \A x \in Clients : pc'[x] \notin Waits \cup Ends
    BY <2>2, <2>6 DEF Waits, Ends
  <2>8. Waiting' = Waiting
    BY <2>4, <2>7 DEF Waiting, At, Waits
  <2> QED
    BY <1>1, <2>1, <2>3, <2>5, <2>7, <2>8 DEF EndInv
<1> QED
  BY <1>2, <1>3

LEMMA WakingEndInv ==
  ASSUME EndInv, NEW a \in Clients, WakeFibers(a) \/ Post(a) \/ Ping(a) \/ SpuriousWakeup(a)
  PROVE  EndInv'
<1> USE DEF Waits, Ends
<1>1. CASE WakeFibers(a)
  <2>1. PICK l \in {"drain", "dpost", "idle", "post"} :
          /\ pc' = [pc EXCEPT ![a] = l]
          /\ pc[a] = "dwake" <=> l \in {"drain", "dpost"}
    BY <1>1 DEF WakeFibers, Goto
  <2>2. pc[a] \in {"wake", "wakeall", "dwake"} /\ UNCHANGED <<waiters, freed, closed>> /\ l \in PC
    BY <1>1 DEF WakeFibers, PC
  <2> QED
    BY <2>1, <2>2, OneMoves DEF EndInv
<1>2. CASE Post(a) \/ Ping(a)
  <2>1. pc[a] \in {"post", "dpost", "ping", "dping"} /\ UNCHANGED <<waiters, freed, closed>>
    BY <1>2 DEF Post, Ping, channel
  <2>2. PICK l \in {"drain", "dpost", "dping", "idle", "post", "ping"} :
          /\ pc' = [pc EXCEPT ![a] = l]
          /\ pc[a] \in {"dpost", "dping"} <=> l \in {"drain", "dpost", "dping"}
    BY <1>2, <2>1 DEF Post, Ping, AfterPost, Goto
  <2>3. l \in PC
    BY DEF PC
  <2> QED
    BY <2>1, <2>2, <2>3, OneMoves DEF EndInv
<1>3. CASE SpuriousWakeup(a)
  <2>1. /\ pc[a] = "waiting" /\ pc' = [pc EXCEPT ![a] = "woken"]
        /\ UNCHANGED <<waiters, freed, closed>> /\ "woken" \in PC
    BY <1>3 DEF SpuriousWakeup, Goto, channel, PC
  <2> QED
    BY <2>1, OneMoves DEF EndInv
<1> QED
  BY <1>1, <1>2, <1>3

-----------------------------------------------------------------------------
(***************************************************************************)
(* The other steps of fibers and the anchor, and the home's loop.          *)
(***************************************************************************)
LEMMA HomeEndInv ==
  ASSUME EndInv,
         \/ \E f \in Fibers : FiberCalls(f) \/ Join(f) \/ DescriptorReady(f)
         \/ \E a \in Clients, f \in Fibers : Spawn(a, f)
         \/ AnchorStep \/ Nap \/ NapIsOver \/ AnchorDeadline
  PROVE  EndInv'
<1> USE DEF Begins, GoesOn, Goto, Waits, Ends, channel
<1>1. /\ "recv" \in PC /\ "done" \in PC /\ "jwait" \in PC /\ "poll" \in PC /\ "idle" \in PC /\ "nap" \in PC
      /\ Fibers \subseteq Clients /\ Anchor \in Clients
  BY DEF PC, Clients
<1>2. ASSUME NEW f \in Fibers, FiberCalls(f) PROVE EndInv'
  <2>1. CASE ParkFiber(f)
    <3>1. /\ pc' = [pc EXCEPT ![f] = "recv"]
          /\ pc[f] = "recv" \/ (pc[f] = "idle" /\ ~Destroying)
          /\ UNCHANGED <<waiters, freed, closed>>
      BY <2>1 DEF ParkFiber
    <3> QED
      BY <1>1, <3>1, OneMoves DEF EndInv
  <2>2. CASE SwitchOut(f)
    BY <2>2, NoneMoves DEF SwitchOut
  <2>3. CASE Finish(f)
    <3>1. pc[f] = "idle" /\ pc' = [pc EXCEPT ![f] = "done"] /\ UNCHANGED <<waiters, freed, closed>>
      BY <2>3 DEF Finish
    <3> QED
      BY <1>1, <3>1, OneMoves DEF EndInv
  <2> QED
    BY <1>2, <2>1, <2>2, <2>3 DEF FiberCalls
<1>3. ASSUME NEW f \in Fibers, Join(f) PROVE EndInv'
  <2>1. pc[Anchor] = "idle" /\ UNCHANGED <<waiters, freed, closed>>
    BY <1>3 DEF Join
  <2>2. UNCHANGED pc \/ \E l \in {"jwait", "poll"} : pc' = [pc EXCEPT ![Anchor] = l]
    BY <1>3 DEF Join
  <2>3. CASE UNCHANGED pc
    BY <2>1, <2>3, NoneMoves
  <2>4. ASSUME NEW l \in {"jwait", "poll"}, pc' = [pc EXCEPT ![Anchor] = l] PROVE EndInv'
    BY <1>1, <2>1, <2>4, OneMoves DEF EndInv
  <2> QED
    BY <2>2, <2>3, <2>4
<1>4. ASSUME NEW f \in Fibers, DescriptorReady(f) \/ AnchorDeadline PROVE EndInv'
  BY <1>4, NoneMoves DEF DescriptorReady, AnchorDeadline
<1>5. ASSUME NEW a \in Clients, NEW f \in Fibers, Spawn(a, f) PROVE EndInv'
  <2>1. pc[f] = "unborn" /\ pc' = [pc EXCEPT ![f] = "idle"] /\ UNCHANGED <<waiters, freed, closed>>
    BY <1>5 DEF Spawn
  <2> QED
    BY <1>1, <2>1, OneMoves DEF EndInv
<1>6. CASE Adopt \/ AnchorDeadline
  BY <1>6, NoneMoves DEF Adopt, AnchorDeadline
<1>7. CASE PollTurn \/ NapIsOver
  <2>1. pc[Anchor] \in {"poll", "nap"} /\ UNCHANGED <<waiters, freed, closed>>
    BY <1>7 DEF PollTurn, NapIsOver
  <2>2. UNCHANGED pc \/ pc' = [pc EXCEPT ![Anchor] = "idle"]
    BY <1>7 DEF PollTurn, NapIsOver
  <2>3. CASE UNCHANGED pc
    BY <2>1, <2>3, NoneMoves
  <2>4. CASE pc' = [pc EXCEPT ![Anchor] = "idle"]
    BY <1>1, <2>1, <2>4, OneMoves DEF EndInv
  <2> QED
    BY <2>2, <2>3, <2>4
<1>8. CASE Nap
  <2>1. pc[Anchor] \in {"idle", "nap"} /\ UNCHANGED <<waiters, freed, closed>>
    BY <1>8 DEF Nap
  <2>2. PICK l \in {"idle", "nap"} : pc' = [pc EXCEPT ![Anchor] = l]
    BY <1>8 DEF Nap
  <2> QED
    BY <1>1, <2>1, <2>2, OneMoves DEF EndInv
<1> QED
  BY <1>2, <1>3, <1>4, <1>5, <1>6, <1>7, <1>8 DEF AnchorStep

LEMMA LoopEndInv ==
  ASSUME EndInv, Loop
  PROVE  EndInv'
<1>1. CASE EmptyPipe \/ EmptyInbox \/ BackToJoin \/ Pick \/ Idle \/ EpollReturns \/ FinalizeOther
  BY <1>1, NoneMoves DEF EmptyPipe, EmptyInbox, BackToJoin, Pick, Idle, EpollReturns, FinalizeOther,
                         channel
<1>2. CASE FinalizePark
  <2>1. SignalDrained(inflight = 1, pc) /\ UNCHANGED <<waiters, freed, closed>> /\ pc \in [Clients -> PC]
    BY <1>2 DEF FinalizePark, EndInv
  <2>2. pc' \in [Clients -> PC] /\ \A x \in Clients : Moves(x)
    BY <2>1, DrainSignalled DEF Moves, Ends
  <2> QED
    BY <2>1, <2>2, MovesEndInv DEF EndInv
<1>3. CASE \E f \in Fibers : Expire(f)
  BY <1>3, NoneMoves DEF Expire, channel
<1> QED
  BY <1>1, <1>2, <1>3 DEF Loop

LEMMA NextEndInv == EndInv /\ [Next]_vars => EndInv'
<1> SUFFICES ASSUME EndInv, [Next]_vars PROVE EndInv'
  OBVIOUS
<1>1. ASSUME NEW a \in Clients, Calls(a) \/ Step(a) \/ SpuriousWakeup(a) PROVE EndInv'
  <2>1. CASE Send(a) \/ Receive(a) \/ WaitOutside(a) \/ TryReceive(a) \/ Close(a)
    BY <2>1, CallsEndInv
  <2>2. CASE Destroy(a) \/ Block(a) \/ Wakes(a) \/ Drain(a)
    BY <2>2, DestroyEndInv, BlockEndInv, WakesEndInv, DrainEndInv
  <2>3. CASE WakeFibers(a) \/ Post(a) \/ Ping(a) \/ SpuriousWakeup(a)
    BY <2>3, WakingEndInv
  <2>4. CASE ParkFiber(a)
    <3>1. a \in Fibers
      BY <2>4 DEF ParkFiber
    <3> QED
      BY <2>4, <3>1, HomeEndInv DEF FiberCalls
  <2> QED
    BY <1>1, <2>1, <2>2, <2>3, <2>4 DEF Calls, Step
<1>2. CASE \/ \E f \in Fibers : FiberCalls(f) \/ Join(f) \/ DescriptorReady(f)
           \/ \E a \in Clients, f \in Fibers : Spawn(a, f)
           \/ AnchorStep \/ Nap \/ NapIsOver \/ AnchorDeadline
  BY <1>2, HomeEndInv
<1>3. CASE Loop
  BY <1>3, LoopEndInv
<1>4. CASE UNCHANGED vars
  BY <1>4, NoneMoves DEF vars, channel
<1> QED
  BY <1>1, <1>2, <1>3, <1>4 DEF Next

-----------------------------------------------------------------------------
(***************************************************************************)
(* How often a fiber is in a sequence.                                     *)
(***************************************************************************)
\* Two finite sets that are in one-to-one correspondence have as many elements.
LEMMA Matched ==
  ASSUME NEW S, NEW T, IsFiniteSet(S), NEW m \in [S -> T],
         \A a, b \in S : m[a] = m[b] => a = b,
         \A y \in T : \E a \in S : m[a] = y
  PROVE  IsFiniteSet(T) /\ Cardinality(T) = Cardinality(S)
<1>1. m \in Bijection(S, T)
  BY DEF Bijection, Injection, Surjection, IsInjective
<1>2. ExistsBijection(S, T)
  BY <1>1 DEF ExistsBijection
<1> QED
  BY <1>2, FS_Bijection

\* Where f is in the sequence s.
Spots(f, s) == {i \in DOMAIN s : s[i] = f}

LEMMA SpotsFinite ==
  ASSUME NEW A, NEW s \in Seq(A), NEW f
  PROVE  IsFiniteSet(Spots(f, s)) /\ Times(f, s) \in Nat /\ Times(f, s) = Cardinality(Spots(f, s))
         /\ (Times(f, s) = 0 <=> \A i \in DOMAIN s : s[i] # f)
<1>1. Len(s) \in Nat /\ DOMAIN s = 1 .. Len(s)
  BY LenProperties
<1>2. IsFiniteSet(1 .. Len(s))
  BY <1>1, FS_Interval
<1>3. IsFiniteSet(Spots(f, s))
  BY <1>1, <1>2, FS_Subset DEF Spots
<1>4. Times(f, s) = Cardinality(Spots(f, s))
  BY DEF Times, Spots
<1>5. Cardinality(Spots(f, s)) \in Nat
  BY <1>3, FS_CardinalityType
<1>6. Cardinality(Spots(f, s)) = 0 <=> Spots(f, s) = {}
  BY <1>3, FS_EmptySet
<1> QED
  BY <1>3, <1>4, <1>5, <1>6 DEF Spots

LEMMA TimesEmpty == \A f : Times(f, <<>>) = 0
<1> SUFFICES ASSUME NEW f PROVE Times(f, <<>>) = 0
  OBVIOUS
<1>1. {i \in DOMAIN << >> : << >>[i] = f} = {}
  OBVIOUS
<1> QED
  BY <1>1, FS_EmptySet DEF Times

LEMMA TimesConcat ==
  ASSUME NEW A, NEW s \in Seq(A), NEW u \in Seq(A), NEW f
  PROVE  Times(f, s \o u) = Times(f, s) + Times(f, u)
<1> DEFINE P == Spots(f, s)
           Q == Spots(f, u)
           R == {i \in (Len(s) + 1) .. (Len(s) + Len(u)) : u[i - Len(s)] = f}
<1>1. /\ Len(s) \in Nat /\ Len(u) \in Nat /\ DOMAIN s = 1 .. Len(s) /\ DOMAIN u = 1 .. Len(u)
      /\ s \o u \in Seq(A) /\ Len(s \o u) = Len(s) + Len(u)
      /\ DOMAIN (s \o u) = 1 .. Len(s) + Len(u)
  BY LenProperties, ConcatProperties
<1>2. \A i \in 1 .. Len(s) + Len(u) : (s \o u)[i] = IF i <= Len(s) THEN s[i] ELSE u[i - Len(s)]
  BY ConcatProperties
<1>3. Spots(f, s \o u) = P \cup R
  BY <1>1, <1>2 DEF Spots
<1>4. P \cap R = {}
  BY <1>1 DEF Spots
<1>5. IsFiniteSet(P) /\ IsFiniteSet(Q) /\ Cardinality(P) \in Nat /\ Cardinality(Q) \in Nat
  BY SpotsFinite
<1>6. IsFiniteSet(R) /\ Cardinality(R) = Cardinality(Q)
  <2> DEFINE m == [i \in Q |-> i + Len(s)]
  <2>1. m \in [Q -> R]
    BY <1>1 DEF Spots
  <2>2. \A a, b \in Q : m[a] = m[b] => a = b
    BY <1>1 DEF Spots
  <2>3. ASSUME NEW y \in R PROVE \E a \in Q : m[a] = y
    <3>1. y - Len(s) \in Q
      BY <1>1 DEF Spots
    <3> QED
      BY <1>1, <3>1
  <2> HIDE DEF m, R, Q
  <2> QED
    BY <1>5, <2>1, <2>2, <2>3, Matched
<1>7. Cardinality(P \cap R) = 0
  BY <1>4, FS_EmptySet
<1>8. Cardinality(P \cup R) = Cardinality(P) + Cardinality(Q)
  <2> HIDE DEF P, Q, R
  <2>1. Cardinality(P \cup R) = Cardinality(P) + Cardinality(R) - Cardinality(P \cap R)
    BY <1>5, <1>6, FS_Union
  <2> QED
    BY <1>5, <1>6, <1>7, <2>1
<1> QED
  BY <1>1, <1>3, <1>8, SpotsFinite

LEMMA TimesOne == \A f, g : Times(f, <<g>>) = IF g = f THEN 1 ELSE 0
<1> SUFFICES ASSUME NEW f, NEW g PROVE Times(f, <<g>>) = IF g = f THEN 1 ELSE 0
  OBVIOUS
<1>1. Times(f, <<g>>) = Cardinality({i \in {1} : <<g>>[i] = f})
  BY DEF Times
<1>2. CASE g = f
  <2>1. {i \in {1} : <<g>>[i] = f} = {1}
    BY <1>2
  <2> QED
    BY <1>1, <1>2, <2>1, FS_Singleton
<1>3. CASE g # f
  <2>1. {i \in {1} : <<g>>[i] = f} = {}
    BY <1>3
  <2> QED
    BY <1>1, <1>3, <2>1, FS_EmptySet
<1> QED
  BY <1>2, <1>3

LEMMA TimesAppend ==
  ASSUME NEW A, NEW s \in Seq(A), NEW g \in A, NEW f
  PROVE  Times(f, Append(s, g)) = Times(f, s) + (IF g = f THEN 1 ELSE 0)
<1>1. Append(s, g) = s \o <<g>> /\ <<g>> \in Seq(A)
  BY AppendIsConcat
<1>2. Times(f, s \o <<g>>) = Times(f, s) + Times(f, <<g>>)
  BY <1>1, TimesConcat
<1>3. Times(f, <<g>>) = IF g = f THEN 1 ELSE 0
  BY TimesOne
<1> QED
  BY <1>1, <1>2, <1>3

LEMMA TimesTail ==
  ASSUME NEW A, NEW s \in Seq(A), s # <<>>, NEW f
  PROVE  Times(f, s) = Times(f, Tail(s)) + (IF Head(s) = f THEN 1 ELSE 0)
<1>1. s = <<Head(s)>> \o Tail(s) /\ <<Head(s)>> \in Seq(A) /\ Tail(s) \in Seq(A)
  BY HeadTailProperties, ConcatProperties, SeqEqual
<1>2. Times(f, s) = Times(f, <<Head(s)>>) + Times(f, Tail(s))
  BY <1>1, TimesConcat
<1>3. Times(f, <<Head(s)>>) = IF Head(s) = f THEN 1 ELSE 0
  BY TimesOne
<1>4. Times(f, Tail(s)) \in Nat
  BY <1>1, SpotsFinite
<1> QED
  BY <1>1, <1>2, <1>3, <1>4

LEMMA TimesReverse ==
  ASSUME NEW A, NEW s \in Seq(A), NEW f
  PROVE  Reverse(s) \in Seq(A) /\ Times(f, Reverse(s)) = Times(f, s)
<1>1. Len(s) \in Nat /\ DOMAIN s = 1 .. Len(s) /\ s \in [1 .. Len(s) -> A]
  BY LenProperties
<1>2. Reverse(s) \in [1 .. Len(s) -> A] /\ Reverse(s) \in Seq(A) /\ DOMAIN Reverse(s) = 1 .. Len(s)
  <2>1. Reverse(s) \in [1 .. Len(s) -> A]
    BY <1>1 DEF Reverse
  <2> QED
    BY <1>1, <2>1, IsASeq
<1> DEFINE P == Spots(f, s)
           R == Spots(f, Reverse(s))
           m == [i \in P |-> Len(s) - i + 1]
<1>3. m \in [P -> R]
  BY <1>1, <1>2 DEF Spots, Reverse
<1>4. \A a, b \in P : m[a] = m[b] => a = b
  BY <1>1 DEF Spots
<1>5. ASSUME NEW y \in R PROVE \E a \in P : m[a] = y
  <2>1. Len(s) - y + 1 \in P
    BY <1>1, <1>2 DEF Spots, Reverse
  <2> QED
    BY <1>1, <1>2, <2>1 DEF Spots
<1>6. IsFiniteSet(P)
  BY SpotsFinite
<1>7. Cardinality(R) = Cardinality(P)
  <2> HIDE DEF m, P, R
  <2> QED
    BY <1>3, <1>4, <1>5, <1>6, Matched
<1> QED
  BY <1>2, <1>7, SpotsFinite

LEMMA TimesOfSome ==
  ASSUME NEW A, NEW s \in Seq(A), NEW f
  PROVE  f \in Range(s) <=> Times(f, s) >= 1
<1>1. Times(f, s) \in Nat /\ (Times(f, s) = 0 <=> \A i \in DOMAIN s : s[i] # f)
  BY SpotsFinite
<1> QED
  BY <1>1 DEF Range

\* A sequence is what is taken from its front and the rest.
LEMMA TimesSplit ==
  ASSUME NEW A, NEW s \in Seq(A), NEW n \in 0 .. Len(s), NEW f
  PROVE  /\ SubSeq(s, 1, n) \in Seq(A) /\ SubSeq(s, n + 1, Len(s)) \in Seq(A)
         /\ Times(f, s) = Times(f, SubSeq(s, 1, n)) + Times(f, SubSeq(s, n + 1, Len(s)))
         /\ SubSeq(s, 1, n) = <<>> <=> n = 0
<1> DEFINE u == SubSeq(s, 1, n)
           v == SubSeq(s, n + 1, Len(s))
<1>1. Len(s) \in Nat /\ n \in Nat /\ DOMAIN s = 1 .. Len(s)
  BY LenProperties
<1>2. u \in Seq(A) /\ Len(u) = n /\ \A i \in 1 .. n : u[i] = s[i]
  <2>1. \A i \in 1 .. n : s[i] \in A
    BY <1>1, ElementOfSeq
  <2>2. /\ u \in Seq(A) /\ Len(u) = IF 1 <= n THEN n - 1 + 1 ELSE 0
        /\ \A i \in 1 .. n - 1 + 1 : u[i] = s[1 + i - 1]
    BY <1>1, <2>1, SubSeqProperties
  <2> HIDE DEF u
  <2> QED
    BY <1>1, <2>2
<1>3. v \in Seq(A) /\ Len(v) = Len(s) - n /\ \A i \in 1 .. Len(s) - n : v[i] = s[n + i]
  <2>1. \A i \in n + 1 .. Len(s) : s[i] \in A
    BY <1>1, ElementOfSeq
  <2>2. n + 1 \in Int /\ Len(s) \in Int
    BY <1>1
  <2>3. /\ v \in Seq(A) /\ Len(v) = IF n + 1 <= Len(s) THEN Len(s) - (n + 1) + 1 ELSE 0
        /\ \A i \in 1 .. Len(s) - (n + 1) + 1 : v[i] = s[n + 1 + i - 1]
    BY <2>1, <2>2, SubSeqProperties
  <2> HIDE DEF v
  <2>4. Len(v) = Len(s) - n
    <3>1. \A k \in Nat : \A m \in 0 .. k : (IF m + 1 <= k THEN k - (m + 1) + 1 ELSE 0) = k - m
      OBVIOUS
    <3>2. (IF n + 1 <= Len(s) THEN Len(s) - (n + 1) + 1 ELSE 0) = Len(s) - n
      BY <1>1, <3>1
    <3> QED
      BY <2>3, <3>2
  <2>5. ASSUME NEW i \in 1 .. Len(s) - n PROVE v[i] = s[n + i]
    <3>1. i \in 1 .. Len(s) - (n + 1) + 1 /\ n + 1 + i - 1 = n + i
      BY <1>1
    <3> QED
      BY <2>3, <3>1
  <2> QED
    BY <2>3, <2>4, <2>5
<1>4. u \o v \in Seq(A) /\ Len(u \o v) = Len(s)
  <2> HIDE DEF u, v
  <2>1. u \o v \in Seq(A) /\ Len(u \o v) = Len(u) + Len(v)
    BY <1>2, <1>3, ConcatProperties
  <2>2. \A k \in Nat : \A m \in 0 .. k : m + (k - m) = k
    OBVIOUS
  <2>3. n + (Len(s) - n) = Len(s)
    BY <1>1, <2>2
  <2> QED
    BY <1>2, <1>3, <2>1, <2>3
<1>5. \A i \in 1 .. Len(s) : (u \o v)[i] = s[i]
  <2> SUFFICES ASSUME NEW i \in 1 .. Len(s) PROVE (u \o v)[i] = s[i]
    OBVIOUS
  <2> HIDE DEF u, v
  <2>1. (u \o v)[i] = IF i <= Len(u) THEN u[i] ELSE v[i - Len(u)]
    BY <1>1, <1>2, <1>3, ConcatProperties
  <2> QED
    BY <1>1, <1>2, <1>3, <2>1
<1>6. u \o v = s
  <2> HIDE DEF u, v
  <2> QED
    BY <1>4, <1>5, SeqEqual
<1>7. Times(f, s) = Times(f, u) + Times(f, v)
  <2> HIDE DEF u, v
  <2> QED
    BY <1>2, <1>3, <1>6, TimesConcat
<1>8. u = <<>> <=> n = 0
  BY <1>2, EmptySeq
<1> QED
  BY <1>2, <1>3, <1>7, <1>8

-----------------------------------------------------------------------------
(***************************************************************************)
(* Where the fibers are.                                                   *)
(***************************************************************************)
Turns == {"on", "pipe", "inbox", "pick", "epoll", "park", "yield", "sleep", "fd"}
SwitchedOut == {"park", "yield", "sleep", "fd"}
Absent == {"unborn", "done"}
Wakers == {"post", "dpost", "ping", "dping"}

LoopTyped ==
  /\ at \in Turns /\ cur \in Fibers \cup {Anchor}
  /\ at \in SwitchedOut => cur \in Fibers

QueuesTyped ==
  /\ ring \in Seq(Fibers) /\ global \in Seq(Fibers) /\ inbox \in Seq(Fibers)
  /\ parked \in Seq(Fibers) /\ intake \in Seq(Fibers)
  /\ Len(ring) <= Capacity
  /\ inq \in [Fibers -> BOOLEAN] /\ sleeping \subseteq Fibers /\ onfd \subseteq Fibers
  /\ hold \in [Clients -> Seq(Fibers)]

\* What a client that wakes fibers has in its hands.
Hand(a) ==
  /\ pc[a] \in {"post", "dpost"} => hold[a] # <<>>
  /\ pc[a] \notin Wakers => hold[a] = <<>>
  /\ \A f \in Fibers : Times(f, hold[a]) <= 1

Alive(f) == IF pc[f] \in Absent THEN 0 ELSE 1
Marked(f) == IF inq[f] THEN 1 ELSE 0
Tally(f) == Places(f) = Marked(f) /\ Places(f) + Elsewhere(f) = Alive(f)

PlaceInv ==
  /\ LoopTyped /\ QueuesTyped
  /\ \A a \in Clients : Hand(a)
  /\ \A f \in Fibers : Tally(f)

LEMMA ClientsFinite == IsFiniteSet(Clients) /\ IsFiniteSet(Fibers) /\ Fibers \subseteq Clients /\ Anchor \in Clients
<1>1. IsFiniteSet(Fibers \cup Threads)
  BY ClientsAssumption, FS_Union
<1> QED
  BY <1>1, ClientsAssumption, FS_AddElement DEF Clients

Amounts(f) ==
  /\ Times(f, ring) \in Nat /\ Times(f, global) \in Nat /\ Times(f, inbox) \in Nat
  /\ Times(f, parked) \in Nat /\ Times(f, intake) \in Nat
  /\ In(f, sleeping) \in Nat /\ In(f, onfd) \in Nat /\ In(f, Running) \in Nat
  /\ Cardinality(Holders(f)) \in Nat /\ IsFiniteSet(Holders(f))
  /\ Places(f) \in Nat /\ Elsewhere(f) \in Nat

LEMMA Numbers == QueuesTyped => \A f \in Fibers : Amounts(f)
<1> SUFFICES ASSUME QueuesTyped, NEW f \in Fibers PROVE Amounts(f)
  OBVIOUS
<1>1. /\ Times(f, ring) \in Nat /\ Times(f, global) \in Nat /\ Times(f, inbox) \in Nat
      /\ Times(f, parked) \in Nat /\ Times(f, intake) \in Nat
  BY SpotsFinite DEF QueuesTyped
<1>2. In(f, sleeping) \in Nat /\ In(f, onfd) \in Nat /\ In(f, Running) \in Nat
  BY DEF In
<1>3. IsFiniteSet(Holders(f)) /\ Cardinality(Holders(f)) \in Nat
  <2>1. Holders(f) \subseteq Clients
    BY DEF Holders
  <2>2. IsFiniteSet(Holders(f))
    BY <2>1, ClientsFinite, FS_Subset
  <2> QED
    BY <2>2, FS_CardinalityType
<1>4. Places(f) \in Nat
  BY <1>1 DEF Places
<1>5. Elsewhere(f) \in Nat
  BY <1>1, <1>2, <1>3 DEF Elsewhere
<1> QED
  BY <1>1, <1>2, <1>3, <1>4, <1>5 DEF Amounts

\* A fiber that is somewhere else is in no queue, and in one place only.
LEMMA ElsewhereMeansUnmarked ==
  ASSUME PlaceInv, NEW f \in Fibers, Elsewhere(f) >= 1 \/ Alive(f) = 0
  PROVE  Places(f) = 0 /\ ~inq[f] /\ Elsewhere(f) = Alive(f)
<1>1. Places(f) \in Nat /\ Elsewhere(f) \in Nat /\ Tally(f)
  BY Numbers DEF PlaceInv, Amounts
<1>2. Alive(f) \in {0, 1} /\ Marked(f) \in {0, 1}
  BY DEF Alive, Marked
<1>3. Places(f) = 0 /\ Elsewhere(f) = Alive(f)
  BY <1>1, <1>2 DEF Tally
<1> QED
  BY <1>1, <1>3 DEF Tally, Marked

LEMMA InitPlaceInv == Init => PlaceInv
<1> SUFFICES ASSUME Init PROVE PlaceInv
  OBVIOUS
<1>1. LoopTyped
  BY DEF Init, LoopTyped, Turns, SwitchedOut
<1>2. QueuesTyped
  <2>1. << >> \in Seq(Fibers) /\ Len(<< >>) = 0
    BY EmptySeq
  <2> QED
    BY <2>1, CapacityAssumption DEF Init, QueuesTyped
<1>3. ASSUME NEW a \in Clients PROVE Hand(a)
  <2>1. hold[a] = <<>> /\ pc[a] \in {"unborn", "intake", "idle"}
    BY DEF Init
  <2>2. \A f \in Fibers : Times(f, hold[a]) = 0
    BY <2>1, TimesEmpty
  <2> QED
    BY <2>1, <2>2 DEF Hand, Wakers
<1>4. ASSUME NEW f \in Fibers PROVE Tally(f)
  <2>1. Places(f) = 0
    BY TimesEmpty DEF Init, Places
  <2>2. Holders(f) = {}
    BY DEF Init, Holders, Range
  <2>3. Running = {}
    BY ClientsAssumption DEF Init, Running
  <2>4. Times(f, parked) = 0 /\ Times(f, intake) = 0
    BY TimesEmpty DEF Init
  <2>5. In(f, sleeping) = 0 /\ In(f, onfd) = 0 /\ In(f, Running) = 0 /\ Cardinality(Holders(f)) = 0
    BY <2>2, <2>3, FS_EmptySet DEF Init, In
  <2>6. Elsewhere(f) = 0
    BY <2>4, <2>5 DEF Elsewhere
  <2>7. Alive(f) = 0 /\ Marked(f) = 0
    BY ClientsFinite DEF Init, Alive, Absent, Marked
  <2> QED
    BY <2>1, <2>6, <2>7 DEF Tally
<1> QED
  BY <1>1, <1>2, <1>3, <1>4 DEF PlaceInv

\* Where the loop is, and who is current.
LEMMA NextLoopTyped ==
  ASSUME LoopTyped, QueuesTyped, [Next]_vars
  PROVE  LoopTyped'
<1> USE DEF LoopTyped, Turns, SwitchedOut
<1>1. ASSUME NEW a \in Clients, Calls(a) \/ Step(a) \/ SpuriousWakeup(a) PROVE LoopTyped'
  <2>1. CASE ParkFiber(a)
    BY <2>1, ClientsAssumption DEF ParkFiber, Runs
  <2>2. CASE WaitOutside(a)
    BY <2>2 DEF WaitOutside, Top, DrainOrder
  <2>3. CASE Send(a) \/ Receive(a) \/ TryReceive(a) \/ Close(a) \/ Destroy(a)
    BY <2>3 DEF Send, Receive, TryReceive, Close, Destroy, loop
  <2>4. CASE Block(a) \/ Wakes(a) \/ WakeFibers(a) \/ Post(a) \/ Ping(a) \/ Drain(a) \/ SpuriousWakeup(a)
    BY <2>4 DEF Block, Wakes, WakeFibers, Post, Ping, Drain, SpuriousWakeup, loop
  <2> QED
    BY <1>1, <2>1, <2>2, <2>3, <2>4 DEF Calls, Step
<1>2. ASSUME NEW f \in Fibers, FiberCalls(f) \/ Join(f) \/ DescriptorReady(f) PROVE LoopTyped'
  <2>1. CASE SwitchOut(f)
    BY <2>1, ClientsAssumption DEF SwitchOut, Runs
  <2>2. CASE ParkFiber(f)
    BY <2>2, ClientsAssumption DEF ParkFiber, Runs
  <2>3. CASE Finish(f) \/ Join(f) \/ DescriptorReady(f)
    BY <2>3 DEF Finish, Join, DescriptorReady, Top, DrainOrder, loop
  <2> QED
    BY <1>2, <2>1, <2>2, <2>3 DEF FiberCalls
<1>3. CASE \E a \in Clients, f \in Fibers : Spawn(a, f)
  BY <1>3 DEF Spawn, loop
<1>4. CASE AnchorStep \/ Nap \/ NapIsOver \/ AnchorDeadline
  BY <1>4 DEF AnchorStep, Adopt, PollTurn, Nap, NapIsOver, AnchorDeadline, loop, Top, DrainOrder
<1>5. CASE Loop
  <2>1. CASE Pick
    <3>1. Head(PickFrom) \in Fibers
      BY <2>1, HeadTailProperties DEF Pick, PickFrom, QueuesTyped
    <3> QED
      BY <2>1, <3>1 DEF Pick
  <2>2. CASE EmptyPipe \/ EmptyInbox
    BY <2>2 DEF EmptyPipe, EmptyInbox, AfterDraining, DrainOrder
  <2>3. CASE BackToJoin \/ Idle \/ EpollReturns \/ FinalizePark \/ FinalizeOther
    BY <2>3 DEF BackToJoin, Idle, EpollReturns, FinalizePark, FinalizeOther, Top, DrainOrder
  <2>4. CASE \E f \in Fibers : Expire(f)
    BY <2>4 DEF Expire, loop
  <2> QED
    BY <1>5, <2>1, <2>2, <2>3, <2>4 DEF Loop
<1>6. CASE UNCHANGED vars
  BY <1>6 DEF vars, loop
<1> QED
  BY <1>1, <1>2, <1>3, <1>4, <1>5, <1>6 DEF Next

-----------------------------------------------------------------------------
(***************************************************************************)
(* Steps that leave the fibers where they are.                             *)
(***************************************************************************)
stores == <<ring, global, inbox, inq, parked, intake, sleeping, onfd, hold>>

\* The client goes on without beginning or ending its life, or a list to enqueue.
Walks(x) == pc'[x] = pc[x] \/ (pc[x] \notin Absent \cup Wakers /\ pc'[x] \notin Absent \cup Wakers)

LEMMA SameTally ==
  ASSUME PlaceInv, UNCHANGED stores, Running' = Running, NEW f \in Fibers, Alive(f)' = Alive(f)
  PROVE  Tally(f)'
<1>1. Places(f)' = Places(f) /\ Marked(f)' = Marked(f)
  BY DEF stores, Places, Marked
<1>2. Holders(f)' = Holders(f)
  BY DEF stores, Holders
<1>3. Elsewhere(f)' = Elsewhere(f)
  BY <1>2 DEF stores, Elsewhere
<1> QED
  BY <1>1, <1>3 DEF PlaceInv, Tally

LEMMA StillPlaced ==
  ASSUME PlaceInv, LoopTyped', UNCHANGED stores, Running' = Running, \A x \in Clients : Walks(x)
  PROVE  PlaceInv'
<1>1. QueuesTyped'
  BY DEF PlaceInv, QueuesTyped, stores
<1>2. ASSUME NEW a \in Clients PROVE Hand(a)'
  BY DEF PlaceInv, Hand, Walks, Wakers, stores
<1>3. ASSUME NEW f \in Fibers PROVE Tally(f)'
  <2>1. Alive(f)' = Alive(f)
    BY ClientsFinite DEF Walks, Alive
  <2> QED
    BY <2>1, SameTally
<1> QED
  BY <1>1, <1>2, <1>3 DEF PlaceInv

\* A client of the home that stays on it, or the loop without a client.
LEMMA SameRunning ==
  ASSUME \/ UNCHANGED loop
         \/ UNCHANGED <<at, cur>>
         \/ (cur = Anchor /\ cur' = Anchor)
         \/ at \notin SwitchedOut \cup {"on"} /\ at' \notin SwitchedOut \cup {"on"}
         \/ at \notin SwitchedOut \cup {"on"} /\ cur' = Anchor
         \/ at \in SwitchedOut \cup {"on"} /\ at' \in SwitchedOut \cup {"on"} /\ cur' = cur
  PROVE  Running' = Running
BY ClientsAssumption DEF loop, Running, SwitchedOut

LEMMA OneWalks ==
  ASSUME pc \in [Clients -> PC], NEW a \in Clients, NEW l, pc' = [pc EXCEPT ![a] = l],
         l \notin Absent \cup Wakers, pc[a] \notin Absent \cup Wakers
  PROVE  \A x \in Clients : Walks(x)
BY DEF Walks

LEMMA CallsPlaced ==
  ASSUME EndInv, PlaceInv, LoopTyped', NEW a \in Clients,
         Send(a) \/ Receive(a) \/ WaitOutside(a) \/ TryReceive(a) \/ Close(a) \/ Destroy(a)
  PROVE  PlaceInv'
<1> USE DEF Begins, GoesOn, Goto, Absent, Wakers
<1>0. pc \in [Clients -> PC]
  BY DEF EndInv
<1>1. UNCHANGED stores
  BY DEF Send, Receive, WaitOutside, TryReceive, Close, Destroy, queues, channel, stores
<1>2. Running' = Running
  <2>1. CASE WaitOutside(a)
    <3>1. UNCHANGED at \/ (a = Anchor /\ Runs(Anchor))
      BY <2>1 DEF WaitOutside
    <3>2. UNCHANGED cur
      BY <2>1 DEF WaitOutside
    <3>3. UNCHANGED at \/ cur = Anchor
      BY <3>1, ClientsAssumption DEF Runs
    <3> QED
      BY <3>2, <3>3, SameRunning
  <2>2. CASE ~WaitOutside(a)
    <3>1. UNCHANGED loop
      BY <2>2 DEF Send, Receive, TryReceive, Close, Destroy
    <3> QED
      BY <3>1, SameRunning
  <2> QED
    BY <2>1, <2>2
<1>3. \A x \in Clients : Walks(x)
  <2>1. CASE Send(a)
    <3>1. pc[a] = "idle" /\ (UNCHANGED pc \/ SignalOne([pc EXCEPT ![a] = "wake"]))
      BY <2>1 DEF Send
    <3>2. "wake" \in PC
      BY DEF PC
    <3>3. CASE UNCHANGED pc
      BY <3>3 DEF Walks
    <3>4. CASE SignalOne([pc EXCEPT ![a] = "wake"])
      BY <3>1, <3>2, <3>4, Signalled DEF Walks, Waits
    <3> QED
      BY <3>1, <3>3, <3>4
  <2>2. CASE Receive(a)
    BY <1>0, <2>2, OneWalks DEF Receive
  <2>3. CASE WaitOutside(a)
    <3>1. pc[a] \in {"idle", "recv"} /\ \E l \in {"recv", "block"} : pc' = [pc EXCEPT ![a] = l]
      BY <2>3 DEF WaitOutside
    <3> QED
      BY <1>0, <3>1, OneWalks
  <2>4. CASE TryReceive(a)
    BY <2>4 DEF TryReceive, Walks
  <2>5. CASE Close(a) \/ Destroy(a)
    <3>1. PICK l \in {"wakeall", "dwake"} : pc' = Moved([pc EXCEPT ![a] = l], "waiting", "woken")
      BY <2>5 DEF Close, Destroy
    <3>2. pc[a] = "idle"
      BY <2>5 DEF Close, Destroy
    <3>3. \A x \in Clients : pc'[x] = IF x = a THEN l ELSE IF pc[x] = "waiting" THEN "woken" ELSE pc[x]
      BY <1>0, <3>1 DEF Moved
    <3> QED
      BY <3>2, <3>3 DEF Walks
  <2> QED
    BY <2>1, <2>2, <2>3, <2>4, <2>5
<1> QED
  BY <1>1, <1>2, <1>3, StillPlaced

LEMMA InsidePlaced ==
  ASSUME EndInv, PlaceInv, LoopTyped', NEW a \in Clients,
         Block(a) \/ Wakes(a) \/ Drain(a) \/ SpuriousWakeup(a) \/ ParkFiber(a)
  PROVE  PlaceInv'
<1> USE DEF Begins, GoesOn, Goto, Absent, Wakers
<1>0. pc \in [Clients -> PC]
  BY DEF EndInv
<1>1. UNCHANGED stores
  BY DEF Block, Wakes, Drain, SpuriousWakeup, ParkFiber, queues, channel, stores
<1>2. Running' = Running
  <2>1. CASE ParkFiber(a)
    <3>1. at = "on" /\ at' = "park" /\ UNCHANGED cur
      BY <2>1, ClientsAssumption DEF ParkFiber, Runs
    <3> QED
      BY <3>1, SameRunning DEF SwitchedOut
  <2>2. CASE ~ParkFiber(a)
    <3>1. UNCHANGED loop
      BY <2>2 DEF Block, Wakes, Drain, SpuriousWakeup
    <3> QED
      BY <3>1, SameRunning
  <2> QED
    BY <2>1, <2>2
<1>3. \A x \in Clients : Walks(x)
  <2>1. CASE Block(a) \/ Wakes(a)
    <3>1. pc[a] \in {"block", "woken"}
      BY <2>1 DEF Block, Wakes
    <3>2. \/ pc' = [pc EXCEPT ![a] = "waiting"]
          \/ \E c \in BOOLEAN : SignalDrained(c, [pc EXCEPT ![a] = "idle"])
      BY <2>1 DEF Block, Wakes
    <3>3. CASE pc' = [pc EXCEPT ![a] = "waiting"]
      BY <1>0, <3>1, <3>3, OneWalks
    <3>4. ASSUME NEW c \in BOOLEAN, SignalDrained(c, [pc EXCEPT ![a] = "idle"])
          PROVE  \A x \in Clients : Walks(x)
      <4>1. ASSUME NEW x \in Clients
            PROVE  pc'[x] = IF x = a THEN "idle" ELSE IF c /\ pc[x] = "dwait" THEN "dwake" ELSE pc[x]
        BY <1>0, <3>4 DEF SignalDrained, Moved
      <4> QED
        BY <3>1, <4>1 DEF Walks
    <3> QED
      BY <3>2, <3>3, <3>4
  <2>2. CASE Drain(a)
    <3>1. pc[a] = "drain" /\ \E l \in {"idle", "dwait"} : pc' = [pc EXCEPT ![a] = l]
      BY <2>2 DEF Drain
    <3> QED
      BY <1>0, <3>1, OneWalks
  <2>3. CASE SpuriousWakeup(a)
    BY <1>0, <2>3, OneWalks DEF SpuriousWakeup
  <2>4. CASE ParkFiber(a)
    BY <1>0, <2>4, OneWalks DEF ParkFiber
  <2> QED
    BY <2>1, <2>2, <2>3, <2>4
<1> QED
  BY <1>1, <1>2, <1>3, StillPlaced

-----------------------------------------------------------------------------
(***************************************************************************)
(* Steps that move a fiber.                                                *)
(***************************************************************************)
LEMMA SameHands ==
  ASSUME PlaceInv, UNCHANGED hold,
         \A x \in Clients : pc'[x] = pc[x] \/ (pc[x] \notin Wakers /\ pc'[x] \notin Wakers)
  PROVE  \A x \in Clients : Hand(x)'
BY DEF PlaceInv, Hand, Wakers

\* The one who is handed the fibers u, instead of those it had.
LEMMA OneHand ==
  ASSUME EndInv, PlaceInv, NEW a \in Clients, NEW l, pc' = [pc EXCEPT ![a] = l],
         NEW u \in Seq(Fibers), hold' = [hold EXCEPT ![a] = u],
         l \in {"post", "dpost"} => u # <<>>, l \notin Wakers => u = <<>>,
         \A f \in Fibers : Times(f, u) <= 1
  PROVE  \A x \in Clients : Hand(x)'
<1>1. pc'[a] = l /\ hold'[a] = u
  BY DEF EndInv, PlaceInv, QueuesTyped
<1>2. \A x \in Clients \ {a} : pc'[x] = pc[x] /\ hold'[x] = hold[x]
  BY DEF EndInv, PlaceInv, QueuesTyped
<1>3. Hand(a)'
  BY <1>1 DEF Hand
<1>4. \A x \in Clients \ {a} : Hand(x)'
  BY <1>2 DEF Hand, PlaceInv
<1> QED
  BY <1>3, <1>4

LEMMA HandCount ==
  ASSUME QueuesTyped, NEW a \in Clients, NEW u \in Seq(Fibers), hold' = [hold EXCEPT ![a] = u],
         NEW f \in Fibers, Times(f, hold[a]) <= 1, Times(f, u) <= 1
  PROVE  /\ Cardinality(Holders(f))' \in Nat
         /\ Cardinality(Holders(f))' + Times(f, hold[a]) = Cardinality(Holders(f)) + Times(f, u)
<1> DEFINE H == Holders(f)
           R == H \ {a}
<1>1. hold[a] \in Seq(Fibers)
  BY DEF QueuesTyped
<1>2. Times(f, hold[a]) \in Nat /\ Times(f, u) \in Nat
  BY <1>1, SpotsFinite
<1>3. /\ f \in Range(hold[a]) <=> Times(f, hold[a]) = 1
      /\ f \in Range(u) <=> Times(f, u) = 1
  BY <1>1, <1>2, TimesOfSome
<1>4. Holders(f)' = R \cup (IF f \in Range(u) THEN {a} ELSE {})
  BY DEF QueuesTyped, Holders
<1>5. a \in H <=> f \in Range(hold[a])
  BY DEF Holders
<1>6. IsFiniteSet(H) /\ Cardinality(H) \in Nat
  BY Numbers DEF Amounts
<1> HIDE DEF H
<1>7. IsFiniteSet(R) /\ Cardinality(R) \in Nat
  BY <1>6, FS_RemoveElement, FS_CardinalityType
<1>8. a \in H => Cardinality(R) = Cardinality(H) - 1
  BY <1>6, FS_RemoveElement
<1>9. a \notin H => R = H
  OBVIOUS
<1> HIDE DEF R
<1>10. a \in H => Times(f, hold[a]) = 1
  BY <1>3, <1>5
<1>11. a \notin H => Times(f, hold[a]) = 0
  BY <1>2, <1>3, <1>5
<1>12. Cardinality(H) = Cardinality(R) + Times(f, hold[a])
  <2>1. CASE a \in H
    BY <1>6, <1>7, <1>8, <1>10, <2>1
  <2>2. CASE a \notin H
    BY <1>6, <1>7, <1>9, <1>11, <2>2
  <2> QED
    BY <2>1, <2>2
<1>13. Cardinality(Holders(f)') = Cardinality(R) + Times(f, u)
  <2>1. CASE f \in Range(u)
    <3>1. Holders(f)' = R \cup {a} /\ a \notin R
      BY <1>4, <2>1 DEF R
    <3>2. Cardinality(R \cup {a}) = Cardinality(R) + 1
      BY <1>7, <3>1, FS_AddElement
    <3> QED
      BY <1>3, <2>1, <3>1, <3>2
  <2>2. CASE f \notin Range(u)
    <3>1. Holders(f)' = R
      BY <1>4, <2>2
    <3>2. Times(f, u) = 0
      BY <1>2, <1>3, <2>2
    <3> QED
      BY <1>7, <3>1, <3>2
  <2> QED
    BY <2>1, <2>2
<1>14. Cardinality(H) = Cardinality(Holders(f))
  BY DEF H
<1> QED
  BY <1>2, <1>6, <1>7, <1>12, <1>13, <1>14

\* __maka_ready_enqueue of a fiber that is not queued.
LEMMA Enqueues ==
  ASSUME QueuesTyped, NEW g \in Fibers, EnqueueLocal(g), ~inq[g], UNCHANGED inbox
  PROVE  /\ inq' = [inq EXCEPT ![g] = TRUE]
         /\ ring' \in Seq(Fibers) /\ global' \in Seq(Fibers) /\ Len(ring') <= Capacity
         /\ \A f \in Fibers : Places(f)' = Places(f) + In(f, {g})
<1>1. inq' = [inq EXCEPT ![g] = TRUE]
  BY DEF EnqueueLocal, Enqueued
<1>2. CASE RingHasRoom
  <2>1. ring' = Append(ring, g) /\ global' = global
    BY <1>2 DEF EnqueueLocal, Enqueued
  <2>2. ring' \in Seq(Fibers) /\ Len(ring') = Len(ring) + 1
    BY <2>1, AppendProperties DEF QueuesTyped
  <2>3. Len(ring') <= Capacity
    <3>1. Len(ring) \in Nat /\ Len(ring) < Capacity
      BY <1>2, LenProperties DEF RingHasRoom, QueuesTyped
    <3> QED
      BY <2>2, <3>1, CapacityAssumption
  <2>4. ASSUME NEW f \in Fibers PROVE Places(f)' = Places(f) + In(f, {g})
    <3>1. Times(f, ring') = Times(f, ring) + In(f, {g})
      BY <2>1, TimesAppend DEF QueuesTyped, In
    <3>2. /\ Times(f, ring) \in Nat /\ Times(f, global) \in Nat /\ Times(f, inbox) \in Nat
          /\ In(f, {g}) \in Nat
      BY Numbers DEF Amounts, In
    <3>3. Places(f)' = Times(f, ring') + Times(f, global') + Times(f, inbox)
      BY DEF Places
    <3> QED
      BY <2>1, <3>1, <3>2, <3>3 DEF Places
  <2> QED
    BY <1>1, <2>1, <2>2, <2>3, <2>4 DEF QueuesTyped
<1>3. CASE ~RingHasRoom
  <2>1. global' = Append(global, g) /\ ring' = ring
    BY <1>3 DEF EnqueueLocal, Enqueued
  <2>2. global' \in Seq(Fibers)
    BY <2>1, AppendProperties DEF QueuesTyped
  <2>3. ASSUME NEW f \in Fibers PROVE Places(f)' = Places(f) + In(f, {g})
    <3>1. Times(f, global') = Times(f, global) + In(f, {g})
      BY <2>1, TimesAppend DEF QueuesTyped, In
    <3>2. /\ Times(f, ring) \in Nat /\ Times(f, global) \in Nat /\ Times(f, inbox) \in Nat
          /\ In(f, {g}) \in Nat
      BY Numbers DEF Amounts, In
    <3>3. Places(f)' = Times(f, ring') + Times(f, global') + Times(f, inbox)
      BY DEF Places
    <3> QED
      BY <2>1, <3>1, <3>2, <3>3 DEF Places
  <2> QED
    BY <1>1, <2>1, <2>2, <2>3 DEF QueuesTyped
<1> QED
  BY <1>2, <1>3

\* The fiber g, in no queue so far, comes from somewhere else into one.
LEMMA Arrives ==
  ASSUME PlaceInv, NEW g \in Fibers, ~inq[g], inq' = [inq EXCEPT ![g] = TRUE], NEW f \in Fibers,
         Places(f)' = Places(f) + In(f, {g}), Elsewhere(f)' \in Nat,
         Alive(f)' + Elsewhere(f) = Alive(f) + Elsewhere(f)' + In(f, {g})
  PROVE  Tally(f)'
<1>1. Places(f) = Marked(f) /\ Places(f) + Elsewhere(f) = Alive(f)
  BY DEF PlaceInv, Tally
<1>2. Marked(f)' = Marked(f) + In(f, {g})
  BY DEF PlaceInv, QueuesTyped, Marked, In
<1>3. Places(f) \in Nat /\ Elsewhere(f) \in Nat /\ Alive(f) \in Nat /\ In(f, {g}) \in Nat /\ Alive(f)' \in Nat
  BY Numbers DEF PlaceInv, Amounts, Alive, In
<1>4. Places(f)' + Elsewhere(f)' = Alive(f)'
  BY <1>1, <1>3
<1> QED
  BY <1>1, <1>2, <1>4 DEF Tally

\* Fibers are between places that are no queues.
LEMMA Passes ==
  ASSUME PlaceInv, NEW f \in Fibers, UNCHANGED <<ring, global, inbox, inq>>,
         Alive(f)' + Elsewhere(f) = Alive(f) + Elsewhere(f)', Elsewhere(f)' \in Nat
  PROVE  Tally(f)'
<1>1. Places(f)' = Places(f) /\ Marked(f)' = Marked(f)
  BY DEF Places, Marked
<1>2. Places(f) \in Nat /\ Elsewhere(f) \in Nat /\ Alive(f) \in Nat /\ Alive(f)' \in Nat
  BY Numbers DEF PlaceInv, Amounts, Alive
<1>3. Places(f) = Marked(f) /\ Places(f) + Elsewhere(f) = Alive(f)
  BY DEF PlaceInv, Tally
<1> QED
  BY <1>1, <1>2, <1>3 DEF Tally

LEMMA WakeFibersPlaced ==
  ASSUME EndInv, PlaceInv, LoopTyped', NEW a \in Clients, WakeFibers(a)
  PROVE  PlaceInv'
<1> DEFINE n == IF pc[a] = "wake" /\ parked # <<>> THEN 1 ELSE Len(parked)
           u == SubSeq(parked, 1, n)
           v == SubSeq(parked, n + 1, Len(parked))
<1>1. parked \in Seq(Fibers) /\ Len(parked) \in Nat /\ n \in 0 .. Len(parked)
  <2>1. parked \in Seq(Fibers) /\ Len(parked) \in Nat /\ (parked # <<>> => Len(parked) # 0)
    BY EmptySeq, LenProperties DEF PlaceInv, QueuesTyped
  <2> QED
    BY <2>1
<1>2. hold' = [hold EXCEPT ![a] = u] /\ parked' = v /\ pc[a] \in {"wake", "wakeall", "dwake"}
  BY DEF WakeFibers
<1>3. PICK l \in {"drain", "dpost", "idle", "post"} :
        /\ pc' = [pc EXCEPT ![a] = l]
        /\ l \in {"dpost", "post"} <=> n # 0
  BY DEF WakeFibers, Goto
<1>4. UNCHANGED <<ring, global, inbox, inq, intake, sleeping, onfd, at, cur>>
  BY DEF WakeFibers, queues, loop
<1> HIDE DEF n
<1>5. u \in Seq(Fibers) /\ v \in Seq(Fibers) /\ (u = <<>> <=> n = 0)
  BY <1>1, TimesSplit
<1>6. \A f \in Fibers : Times(f, parked) = Times(f, u) + Times(f, v)
  BY <1>1, TimesSplit
<1> HIDE DEF u, v
<1>7. \A f \in Fibers : /\ Times(f, u) \in Nat /\ Times(f, v) \in Nat
                        /\ Times(f, parked) <= 1
  <2> SUFFICES ASSUME NEW f \in Fibers
               PROVE  Times(f, u) \in Nat /\ Times(f, v) \in Nat /\ Times(f, parked) <= 1
    OBVIOUS
  <2>1. Amounts(f) /\ Tally(f) /\ Alive(f) \in {0, 1}
    BY Numbers DEF PlaceInv, Alive
  <2>2. Places(f) \in Nat /\ Elsewhere(f) <= 1
    BY <2>1 DEF Tally, Amounts
  <2>3. Times(f, parked) <= 1
    BY <2>1, <2>2 DEF Amounts, Elsewhere
  <2> QED
    BY <1>5, <2>3, SpotsFinite
<1>8. QueuesTyped'
  BY <1>2, <1>4, <1>5 DEF PlaceInv, QueuesTyped
<1>9. \A x \in Clients : Hand(x)'
  <2>1. \A f \in Fibers : Times(f, u) <= 1
    BY <1>6, <1>7
  <2> QED
    BY <1>2, <1>3, <1>5, <2>1, OneHand DEF Wakers
<1>10. Running' = Running
  BY <1>4, SameRunning
<1>11. ASSUME NEW f \in Fibers PROVE Tally(f)'
  <2>1. Amounts(f) /\ Times(f, u) <= 1
    BY <1>6, <1>7, Numbers DEF PlaceInv
  <2>2. hold[a] = <<>> /\ Times(f, hold[a]) = 0
    BY <1>2, TimesEmpty DEF PlaceInv, Hand, Wakers
  <2>3. Cardinality(Holders(f))' \in Nat /\ Cardinality(Holders(f))' = Cardinality(Holders(f)) + Times(f, u)
    <3>1. /\ Cardinality(Holders(f))' \in Nat
          /\ Cardinality(Holders(f))' + Times(f, hold[a]) = Cardinality(Holders(f)) + Times(f, u)
      <4>1. Times(f, hold[a]) <= 1 /\ QueuesTyped
        BY DEF PlaceInv, Hand
      <4> QED
        BY <1>2, <1>5, <2>1, <4>1, HandCount
    <3>2. Cardinality(Holders(f))' + 0 = Cardinality(Holders(f)) + Times(f, u)
      BY <2>2, <3>1
    <3> QED
      BY <3>1, <3>2
  <2>4. Elsewhere(f)' = Times(f, v) + Times(f, intake) + In(f, sleeping) + In(f, onfd) + In(f, Running)
                        + Cardinality(Holders(f))'
    BY <1>2, <1>4, <1>10 DEF Elsewhere
  <2>5. Elsewhere(f)' = Elsewhere(f)
    BY <1>6, <1>7, <2>1, <2>3, <2>4 DEF Elsewhere, Amounts
  <2>6. Alive(f)' = Alive(f)
    BY <1>2, <1>3 DEF Alive, Absent, EndInv
  <2> QED
    BY <1>4, <2>1, <2>5, <2>6, Passes DEF Amounts, Alive
<1> QED
  BY <1>8, <1>9, <1>11 DEF PlaceInv

LEMMA PostPlaced ==
  ASSUME EndInv, PlaceInv, LoopTyped', NEW a \in Clients, Post(a)
  PROVE  PlaceInv'
<1> DEFINE g == Head(hold[a])
           u == Tail(hold[a])
<1>1. hold[a] \in Seq(Fibers) /\ hold[a] # <<>>
  BY DEF Post, PlaceInv, QueuesTyped, Hand
<1>2. g \in Fibers /\ u \in Seq(Fibers)
  BY <1>1, HeadTailProperties
<1>3. \A f \in Fibers : Times(f, hold[a]) = Times(f, u) + In(f, {g}) /\ Times(f, u) \in Nat
  BY <1>1, <1>2, TimesTail, SpotsFinite DEF In
<1>4. hold' = [hold EXCEPT ![a] = u] /\ UNCHANGED <<parked, sleeping, onfd, intake, at, cur>>
  BY DEF Post, channel, loop
<1>5. hold'[a] = u
  BY <1>4 DEF PlaceInv, QueuesTyped
<1>6. \/ EnqueueLocal(g) /\ UNCHANGED inbox /\ Goto(a, AfterPost(a, u))
      \/ /\ inq' = [inq EXCEPT ![g] = TRUE] /\ UNCHANGED <<ring, global>>
         /\ inbox' = (IF inq[g] THEN inbox ELSE <<g>> \o inbox)
         /\ \E l \in {"ping", "dping"} : pc' = [pc EXCEPT ![a] = l]
  BY <1>5 DEF Post, Goto, Enqueued
<1>7. pc[a] \in {"post", "dpost"}
  BY DEF Post
<1> HIDE DEF g, u
<1>8. PICK l \in {"drain", "dpost", "idle", "post", "ping", "dping"} :
        /\ pc' = [pc EXCEPT ![a] = l]
        /\ l \in {"post", "dpost"} => u # <<>>
        /\ l \notin Wakers => u = <<>>
  BY <1>6 DEF Goto, AfterPost, Wakers
<1>9. \A f \in Fibers : Times(f, hold[a]) <= 1 /\ Times(f, u) <= 1 /\ In(f, {g}) \in Nat
  BY <1>3 DEF PlaceInv, Hand, In
<1>10. \A x \in Clients : Hand(x)'
  BY <1>2, <1>4, <1>8, <1>9, OneHand
<1>11. \A f \in Fibers : Elsewhere(f)' \in Nat /\ Elsewhere(f) = Elsewhere(f)' + In(f, {g})
  <2> SUFFICES ASSUME NEW f \in Fibers
               PROVE  Elsewhere(f)' \in Nat /\ Elsewhere(f) = Elsewhere(f)' + In(f, {g})
    OBVIOUS
  <2>1. Amounts(f)
    BY Numbers DEF PlaceInv
  <2>2. /\ Cardinality(Holders(f))' \in Nat
        /\ Cardinality(Holders(f))' + Times(f, hold[a]) = Cardinality(Holders(f)) + Times(f, u)
    BY <1>2, <1>4, <1>9, HandCount DEF PlaceInv
  <2>3. Cardinality(Holders(f)) = Cardinality(Holders(f))' + In(f, {g})
    <3>1. Times(f, hold[a]) = Times(f, u) + In(f, {g})
      BY <1>3
    <3>2. Times(f, u) \in Nat /\ In(f, {g}) \in Nat /\ Cardinality(Holders(f)) \in Nat
      BY <1>3, <1>9, <2>1 DEF Amounts
    <3>3. Cardinality(Holders(f))' + (Times(f, u) + In(f, {g})) = Cardinality(Holders(f)) + Times(f, u)
      BY <2>2, <3>1
    <3> QED
      BY <2>2, <3>2, <3>3
  <2>4. Running' = Running
    BY <1>4, SameRunning
  <2>5. Elsewhere(f)' = Times(f, parked) + Times(f, intake) + In(f, sleeping) + In(f, onfd) + In(f, Running)
                        + Cardinality(Holders(f))'
    BY <1>4, <2>4 DEF Elsewhere
  <2>6. In(f, {g}) \in Nat
    BY <1>9
  <2> QED
    BY <2>1, <2>2, <2>3, <2>5, <2>6 DEF Elsewhere, Amounts
<1>12. ~inq[g]
  <2>1. Elsewhere(g) >= 1
    BY <1>2, <1>11 DEF In
  <2> QED
    BY <1>2, <2>1, ElsewhereMeansUnmarked
<1>13. /\ inq' = [inq EXCEPT ![g] = TRUE]
       /\ ring' \in Seq(Fibers) /\ global' \in Seq(Fibers) /\ inbox' \in Seq(Fibers) /\ Len(ring') <= Capacity
       /\ \A f \in Fibers : Places(f)' = Places(f) + In(f, {g})
  <2>1. CASE EnqueueLocal(g) /\ UNCHANGED inbox
    BY <1>2, <1>12, <2>1, Enqueues DEF PlaceInv, QueuesTyped
  <2>2. CASE inq' = [inq EXCEPT ![g] = TRUE] /\ UNCHANGED <<ring, global>> /\ inbox' = <<g>> \o inbox
    <3>1. <<g>> \in Seq(Fibers)
      BY <1>2
    <3>2. inbox' \in Seq(Fibers)
      BY <2>2, <3>1, ConcatProperties DEF PlaceInv, QueuesTyped
    <3>3. ASSUME NEW f \in Fibers PROVE Places(f)' = Places(f) + In(f, {g})
      <4>1. Times(f, inbox') = Times(f, <<g>>) + Times(f, inbox)
        BY <2>2, <3>1, TimesConcat DEF PlaceInv, QueuesTyped
      <4>2. Times(f, <<g>>) = In(f, {g}) /\ In(f, {g}) \in Nat
        BY TimesOne DEF In
      <4>3. Places(f)' = Times(f, ring) + Times(f, global) + Times(f, inbox')
        BY <2>2 DEF Places
      <4> QED
        BY <4>1, <4>2, <4>3, Numbers DEF Places, PlaceInv, Amounts
    <3> QED
      BY <2>2, <3>2, <3>3 DEF PlaceInv, QueuesTyped
  <2> QED
    BY <1>6, <1>12, <2>1, <2>2
<1>14. QueuesTyped'
  BY <1>2, <1>4, <1>13 DEF PlaceInv, QueuesTyped
<1>15. ASSUME NEW f \in Fibers PROVE Tally(f)'
  <2>1. Alive(f)' = Alive(f) /\ Alive(f) \in Nat
    BY <1>7, <1>8 DEF Alive, Absent, EndInv
  <2>2. Elsewhere(f)' \in Nat /\ In(f, {g}) \in Nat
    BY <1>9, <1>11
  <2>3. Alive(f)' + Elsewhere(f) = Alive(f) + Elsewhere(f)' + In(f, {g})
    <3>1. Elsewhere(f) = Elsewhere(f)' + In(f, {g})
      BY <1>11
    <3> QED
      BY <2>1, <2>2, <3>1
  <2> QED
    BY <1>2, <1>12, <1>13, <2>2, <2>3, Arrives
<1> QED
  BY <1>10, <1>14, <1>15 DEF PlaceInv

LEMMA PingPlaced ==
  ASSUME EndInv, PlaceInv, LoopTyped', NEW a \in Clients, Ping(a)
  PROVE  PlaceInv'
<1>1. UNCHANGED stores /\ UNCHANGED loop
  BY DEF Ping, stores, channel
<1>2. pc[a] \in {"ping", "dping"} /\ hold[a] \in Seq(Fibers)
  BY DEF Ping, PlaceInv, QueuesTyped
<1>3. PICK l \in {"drain", "dpost", "idle", "post"} :
        /\ pc' = [pc EXCEPT ![a] = l]
        /\ l \in {"post", "dpost"} <=> hold[a] # <<>>
  BY DEF Ping, Goto, AfterPost
<1>4. \A x \in Clients : Hand(x)'
  <2>1. hold' = [hold EXCEPT ![a] = hold[a]] /\ \A f \in Fibers : Times(f, hold[a]) <= 1
    BY <1>1 DEF stores, PlaceInv, QueuesTyped, Hand
  <2> QED
    BY <1>2, <1>3, <2>1, OneHand DEF Wakers
<1>5. QueuesTyped'
  BY <1>1 DEF PlaceInv, QueuesTyped, stores
<1>6. Running' = Running
  BY <1>1, SameRunning
<1>7. ASSUME NEW f \in Fibers PROVE Tally(f)'
  <2>1. Alive(f)' = Alive(f)
    BY <1>2, <1>3 DEF Alive, Absent, EndInv
  <2> QED
    BY <1>1, <1>6, <2>1, SameTally
<1> QED
  BY <1>4, <1>5, <1>7 DEF PlaceInv

\* A fiber begins, on the main thread in a queue of the home, else in the common one.
LEMMA SpawnPlaced ==
  ASSUME EndInv, PlaceInv, LoopTyped', NEW a \in Clients, NEW g \in Fibers, Spawn(a, g)
  PROVE  PlaceInv'
<1>1. /\ pc[g] = "unborn" /\ pc' = [pc EXCEPT ![g] = "idle"] /\ g \in Clients
      /\ UNCHANGED <<inbox, parked, sleeping, onfd, hold, at, cur>>
  BY ClientsFinite DEF Spawn, Goto, channel, loop
<1>2. \A x \in Clients : Hand(x)'
  BY <1>1, SameHands DEF Wakers, EndInv
<1>3. Alive(g) = 0 /\ Places(g) = 0 /\ ~inq[g]
  BY <1>1, ElsewhereMeansUnmarked DEF Alive, Absent
<1>4. \A f \in Fibers : Alive(f)' = Alive(f) + In(f, {g}) /\ Alive(f) \in Nat /\ In(f, {g}) \in Nat
  BY <1>1 DEF Alive, Absent, In, EndInv
<1>5. Running' = Running
  BY <1>1, SameRunning
<1>6. CASE EnqueueLocal(g) /\ UNCHANGED intake
  <2>1. /\ inq' = [inq EXCEPT ![g] = TRUE]
        /\ ring' \in Seq(Fibers) /\ global' \in Seq(Fibers) /\ Len(ring') <= Capacity
        /\ \A f \in Fibers : Places(f)' = Places(f) + In(f, {g})
    BY <1>1, <1>3, <1>6, Enqueues DEF PlaceInv
  <2>2. QueuesTyped'
    BY <1>1, <1>6, <2>1 DEF PlaceInv, QueuesTyped
  <2>3. ASSUME NEW f \in Fibers PROVE Tally(f)'
    <3>1. Holders(f)' = Holders(f)
      BY <1>1 DEF Holders
    <3>2. Elsewhere(f)' = Elsewhere(f) /\ Elsewhere(f) \in Nat
      BY <1>1, <1>5, <1>6, <3>1, Numbers DEF Elsewhere, PlaceInv, Amounts
    <3>3. Alive(f)' = Alive(f) + In(f, {g}) /\ Alive(f) \in Nat /\ In(f, {g}) \in Nat
      BY <1>4
    <3>4. Alive(f)' + Elsewhere(f) = Alive(f) + Elsewhere(f)' + In(f, {g})
      BY <3>2, <3>3
    <3> QED
      BY <1>3, <2>1, <3>2, <3>4, Arrives
  <2> QED
    BY <1>2, <2>2, <2>3 DEF PlaceInv
<1>7. CASE intake' = Append(intake, g) /\ UNCHANGED <<ring, global, inq>>
  <2>1. QueuesTyped'
    BY <1>1, <1>7, AppendProperties DEF PlaceInv, QueuesTyped
  <2>2. ASSUME NEW f \in Fibers PROVE Tally(f)'
    <3>1. Holders(f)' = Holders(f) /\ Amounts(f)
      BY <1>1, Numbers DEF Holders, PlaceInv
    <3>2. Times(f, intake') = Times(f, intake) + In(f, {g})
      BY <1>7, TimesAppend DEF PlaceInv, QueuesTyped, In
    <3>3. Elsewhere(f)' = Times(f, parked) + Times(f, intake') + In(f, sleeping) + In(f, onfd)
                          + In(f, Running) + Cardinality(Holders(f))
      BY <1>1, <1>5, <3>1 DEF Elsewhere
    <3>4. Alive(f)' = Alive(f) + In(f, {g}) /\ Alive(f) \in Nat /\ In(f, {g}) \in Nat
      BY <1>4
    <3>5. Elsewhere(f)' = Elsewhere(f) + In(f, {g})
      BY <3>1, <3>2, <3>3, <3>4 DEF Elsewhere, Amounts
    <3>6. Elsewhere(f) \in Nat
      BY <3>1 DEF Amounts
    <3>7. Alive(f)' + Elsewhere(f) = Alive(f) + Elsewhere(f)' /\ Elsewhere(f)' \in Nat
      BY <3>4, <3>5, <3>6
    <3> QED
      BY <1>1, <1>7, <3>7, Passes
  <2> QED
    BY <1>2, <2>1, <2>2 DEF PlaceInv
<1> QED
  BY <1>6, <1>7 DEF Spawn

\* The fiber g leaves a place that is no queue and nobody's hands.
Leaves(f, g) ==
  /\ Times(f, intake') \in Nat
  /\ Times(f, intake) + In(f, sleeping) + In(f, onfd) + In(f, Running)
     = Times(f, intake') + In(f, sleeping') + In(f, onfd') + In(f, Running') + In(f, {g})

LEMMA LeavesElsewhere ==
  ASSUME QueuesTyped, NEW f \in Fibers, NEW g, UNCHANGED <<parked, hold>>, Leaves(f, g)
  PROVE  Elsewhere(f)' \in Nat /\ Elsewhere(f) = Elsewhere(f)' + In(f, {g})
<1>1. Holders(f)' = Holders(f)
  BY DEF Holders
<1>2. /\ Times(f, parked) \in Nat /\ Times(f, intake) \in Nat
      /\ Cardinality(Holders(f)) \in Nat
  BY Numbers DEF Amounts
<1>3. /\ In(f, {g}) \in Nat /\ In(f, sleeping') \in Nat /\ In(f, onfd') \in Nat /\ In(f, Running') \in Nat
      /\ In(f, sleeping) \in Nat /\ In(f, onfd) \in Nat /\ In(f, Running) \in Nat
  BY DEF In
<1>4. Elsewhere(f)' = Times(f, parked) + Times(f, intake') + In(f, sleeping') + In(f, onfd')
                      + In(f, Running') + Cardinality(Holders(f))
  BY <1>1 DEF Elsewhere
<1>5. Elsewhere(f) = Times(f, parked) + Times(f, intake) + In(f, sleeping) + In(f, onfd)
                     + In(f, Running) + Cardinality(Holders(f))
  BY DEF Elsewhere
<1> QED
  BY <1>2, <1>3, <1>4, <1>5 DEF Leaves

\* A step that takes g from there into a queue of the home.
LEMMA ArrivesPlaced ==
  ASSUME PlaceInv, LoopTyped', NEW g \in Fibers, UNCHANGED hold,
         \A x \in Clients : Walks(x),
         inq' = [inq EXCEPT ![g] = TRUE],
         ring' \in Seq(Fibers), global' \in Seq(Fibers), inbox' = inbox, Len(ring') <= Capacity,
         \A f \in Fibers : Places(f)' = Places(f) + In(f, {g}),
         parked' = parked, intake' \in Seq(Fibers), sleeping' \subseteq Fibers, onfd' \subseteq Fibers,
         \A f \in Fibers : Leaves(f, g)
  PROVE  PlaceInv'
<1>1. QueuesTyped'
  BY DEF PlaceInv, QueuesTyped
<1>2. \A x \in Clients : Hand(x)'
  BY SameHands DEF Walks
<1>3. \A f \in Fibers : Elsewhere(f)' \in Nat /\ Elsewhere(f) = Elsewhere(f)' + In(f, {g})
  BY LeavesElsewhere DEF PlaceInv
<1>4. ~inq[g]
  <2>1. Elsewhere(g) >= 1
    BY <1>3 DEF In
  <2> QED
    BY <2>1, ElsewhereMeansUnmarked
<1>5. ASSUME NEW f \in Fibers PROVE Tally(f)'
  <2>1. Alive(f)' = Alive(f) /\ Alive(f) \in Nat /\ In(f, {g}) \in Nat
    BY ClientsFinite DEF Alive, In, Walks
  <2>2. Elsewhere(f)' \in Nat /\ Elsewhere(f) = Elsewhere(f)' + In(f, {g})
    BY <1>3
  <2>3. Alive(f)' + Elsewhere(f) = Alive(f) + Elsewhere(f)' + In(f, {g})
    BY <2>1, <2>2
  <2> QED
    BY <1>4, <2>2, <2>3, Arrives
<1> QED
  BY <1>1, <1>2, <1>5 DEF PlaceInv

LEMMA EnqueuesPlaced ==
  ASSUME PlaceInv, LoopTyped', NEW g \in Fibers, EnqueueLocal(g), UNCHANGED <<hold, inbox, parked>>,
         \A x \in Clients : Walks(x),
         intake' \in Seq(Fibers), sleeping' \subseteq Fibers, onfd' \subseteq Fibers,
         \A f \in Fibers : Leaves(f, g)
  PROVE  PlaceInv'
<1>1. Elsewhere(g)' \in Nat /\ Elsewhere(g) = Elsewhere(g)' + In(g, {g})
  BY LeavesElsewhere DEF PlaceInv
<1>2. ~inq[g]
  <2>1. Elsewhere(g) >= 1
    BY <1>1 DEF In
  <2> QED
    BY <2>1, ElsewhereMeansUnmarked
<1>3. /\ inq' = [inq EXCEPT ![g] = TRUE]
      /\ ring' \in Seq(Fibers) /\ global' \in Seq(Fibers) /\ Len(ring') <= Capacity
      /\ \A f \in Fibers : Places(f)' = Places(f) + In(f, {g})
  BY <1>2, Enqueues DEF PlaceInv
<1> QED
  BY <1>3, ArrivesPlaced

\* What leaves one of the places, the others as they were.
LEMMA LeavesIntake ==
  ASSUME PlaceInv, intake # <<>>, intake' = Tail(intake), UNCHANGED <<sleeping, onfd>>, Running' = Running
  PROVE  Head(intake) \in Fibers /\ intake' \in Seq(Fibers) /\ \A f \in Fibers : Leaves(f, Head(intake))
<1>1. Head(intake) \in Fibers /\ intake' \in Seq(Fibers)
  BY HeadTailProperties DEF PlaceInv, QueuesTyped
<1>2. ASSUME NEW f \in Fibers PROVE Leaves(f, Head(intake))
  <2>1. Times(f, intake) = Times(f, intake') + In(f, {Head(intake)})
    BY TimesTail DEF PlaceInv, QueuesTyped, In
  <2>2. Times(f, intake') \in Nat
    BY <1>1, SpotsFinite
  <2>3. In(f, {Head(intake)}) \in Nat /\ In(f, sleeping) \in Nat /\ In(f, onfd) \in Nat /\ In(f, Running) \in Nat
    BY DEF In
  <2> QED
    BY <2>1, <2>2, <2>3 DEF Leaves
<1> QED
  BY <1>1, <1>2

LEMMA LeavesSet ==
  ASSUME PlaceInv, UNCHANGED intake, NEW g \in Fibers,
         \/ /\ g \in sleeping /\ sleeping' = sleeping \ {g}
            /\ onfd' = onfd /\ Running' = Running
         \/ /\ g \in onfd /\ onfd' = onfd \ {g}
            /\ sleeping' = sleeping /\ Running' = Running
         \/ /\ Running = {g} /\ Running' = {}
            /\ sleeping' = sleeping /\ onfd' = onfd
  PROVE  /\ \A f \in Fibers : Leaves(f, g)
         /\ intake' \in Seq(Fibers) /\ sleeping' \subseteq Fibers /\ onfd' \subseteq Fibers
<1>1. ASSUME NEW f \in Fibers PROVE Leaves(f, g)
  <2>1. Times(f, intake) \in Nat
    BY Numbers DEF PlaceInv, Amounts
  <2>2. In(f, sleeping) + In(f, onfd) + In(f, Running)
        = In(f, sleeping') + In(f, onfd') + In(f, Running') + In(f, {g})
    BY DEF In
  <2>3. /\ In(f, {g}) \in Nat /\ In(f, sleeping') \in Nat /\ In(f, onfd') \in Nat /\ In(f, Running') \in Nat
        /\ In(f, sleeping) \in Nat /\ In(f, onfd) \in Nat /\ In(f, Running) \in Nat
    BY DEF In
  <2> QED
    BY <2>1, <2>2, <2>3 DEF Leaves
<1> QED
  BY <1>1 DEF PlaceInv, QueuesTyped

LEMMA AdoptPlaced ==
  ASSUME PlaceInv, LoopTyped', Adopt
  PROVE  PlaceInv'
<1>1. /\ intake # <<>> /\ intake' = Tail(intake) /\ EnqueueLocal(Head(intake))
      /\ UNCHANGED <<sleeping, onfd, hold, inbox, parked, pc, cur>> /\ cur = Anchor
  BY ClientsAssumption DEF Adopt, Runs, channel
<1>2. Running' = Running
  BY <1>1, SameRunning
<1>3. Head(intake) \in Fibers /\ intake' \in Seq(Fibers) /\ \A f \in Fibers : Leaves(f, Head(intake))
  BY <1>1, <1>2, LeavesIntake
<1> QED
  BY <1>1, <1>3, EnqueuesPlaced DEF Walks, PlaceInv, QueuesTyped

\* The clock and the descriptors.
LEMMA ReadyPlaced ==
  ASSUME PlaceInv, LoopTyped', NEW g \in Fibers, Expire(g) \/ DescriptorReady(g)
  PROVE  PlaceInv'
<1>1. CASE DescriptorReady(g)
  <2>1. /\ at = "epoll" /\ at' \notin SwitchedOut \cup {"on"}
        /\ g \in onfd /\ onfd' = onfd \ {g} /\ EnqueueLocal(g)
        /\ UNCHANGED <<sleeping, intake, hold, inbox, parked, pc>>
    BY <1>1 DEF DescriptorReady, channel, Top, DrainOrder, SwitchedOut
  <2>2. Running' = Running
    BY <2>1, SameRunning DEF SwitchedOut
  <2> QED
    BY <2>1, <2>2, LeavesSet, EnqueuesPlaced DEF Walks
<1>2. CASE Expire(g)
  <2>1. /\ g \in sleeping /\ sleeping' = sleeping \ {g}
        /\ inq' = [inq EXCEPT ![g] = TRUE] /\ global' = Append(global, g)
        /\ UNCHANGED <<ring, onfd, intake, hold, inbox, parked, pc, loop>>
    BY <1>2 DEF Expire, channel
  <2>2. Running' = Running
    BY <2>1, SameRunning
  <2>3. global' \in Seq(Fibers) /\ ring' \in Seq(Fibers) /\ Len(ring') <= Capacity
    BY <2>1, AppendProperties DEF PlaceInv, QueuesTyped
  <2>4. ASSUME NEW f \in Fibers PROVE Places(f)' = Places(f) + In(f, {g})
    <3>1. Times(f, global') = Times(f, global) + In(f, {g})
      BY <2>1, TimesAppend DEF PlaceInv, QueuesTyped, In
    <3>2. /\ Times(f, ring) \in Nat /\ Times(f, global) \in Nat /\ Times(f, inbox) \in Nat
          /\ In(f, {g}) \in Nat
      BY Numbers DEF PlaceInv, Amounts, In
    <3>3. Places(f)' = Times(f, ring) + Times(f, global') + Times(f, inbox)
      BY <2>1 DEF Places
    <3> QED
      BY <3>1, <3>2, <3>3 DEF Places
  <2> QED
    BY <2>1, <2>2, <2>3, <2>4, LeavesSet, ArrivesPlaced DEF Walks
<1> QED
  BY <1>1, <1>2

LEMMA CurrentRuns ==
  ASSUME PlaceInv, at \in SwitchedOut \cup {"on"}, cur \in Fibers
  PROVE  Running = {cur} /\ Elsewhere(cur) = 1 /\ ~inq[cur] /\ cur \notin sleeping /\ cur \notin onfd
         /\ Times(cur, parked) = 0
<1>1. Running = {cur}
  BY DEF Running, SwitchedOut
<1>2. Amounts(cur) /\ In(cur, Running) = 1
  BY <1>1, Numbers DEF PlaceInv, In
<1>3. Elsewhere(cur) >= 1
  BY <1>2 DEF Amounts, Elsewhere
<1>4. ~inq[cur] /\ Elsewhere(cur) = Alive(cur)
  BY <1>3, ElsewhereMeansUnmarked
<1>5. Elsewhere(cur) = 1
  BY <1>3, <1>4 DEF Alive
<1>6. In(cur, sleeping) = 0 /\ In(cur, onfd) = 0 /\ Times(cur, parked) = 0
  BY <1>2, <1>5 DEF Amounts, Elsewhere
<1> QED
  BY <1>1, <1>4, <1>5, <1>6 DEF In

LEMMA FinalizeParkPlaced ==
  ASSUME EndInv, PlaceInv, LoopTyped', FinalizePark
  PROVE  PlaceInv'
<1>1. /\ at = "park" /\ at' \notin SwitchedOut \cup {"on"} /\ cur \in Fibers
      /\ UNCHANGED <<intake, sleeping, onfd, hold, inbox>> /\ SignalDrained(inflight = 1, pc)
  BY DEF FinalizePark, PlaceInv, LoopTyped, SwitchedOut, Top, DrainOrder
<1>2. Running = {cur} /\ Running' = {}
  BY <1>1, CurrentRuns DEF SwitchedOut, Running
<1>3. \A x \in Clients : Walks(x)
  <2>1. \A x \in Clients : pc'[x] = pc[x] \/ (pc[x] = "dwait" /\ pc'[x] = "dwake")
    BY <1>1 DEF SignalDrained, Moved
  <2> QED
    BY <2>1 DEF Walks, Absent, Wakers
<1>4. CASE Parks
  <2>1. parked' = <<cur>> \o parked /\ UNCHANGED <<ring, global, inq>>
    BY <1>4 DEF FinalizePark
  <2>2. <<cur>> \in Seq(Fibers) /\ parked' \in Seq(Fibers)
    BY <1>1, <2>1, ConcatProperties DEF PlaceInv, QueuesTyped
  <2>3. QueuesTyped'
    BY <1>1, <2>1, <2>2 DEF PlaceInv, QueuesTyped
  <2>4. \A x \in Clients : Hand(x)'
    BY <1>1, <1>3, SameHands DEF Walks
  <2>5. ASSUME NEW f \in Fibers PROVE Tally(f)'
    <3>1. Times(f, parked') = Times(f, <<cur>>) + Times(f, parked)
      BY <2>1, <2>2, TimesConcat DEF PlaceInv, QueuesTyped
    <3>2. Times(f, <<cur>>) = In(f, Running) /\ In(f, Running)' = 0
      BY <1>2, TimesOne DEF In
    <3>3. Holders(f)' = Holders(f) /\ Amounts(f)
      BY <1>1, Numbers DEF Holders, PlaceInv
    <3>4. Elsewhere(f)' = Times(f, parked') + Times(f, intake) + In(f, sleeping) + In(f, onfd)
                          + In(f, Running)' + Cardinality(Holders(f))
      BY <1>1, <3>3 DEF Elsewhere
    <3>5. Elsewhere(f)' = Elsewhere(f)
      BY <3>1, <3>2, <3>3, <3>4 DEF Elsewhere, Amounts
    <3>6. Alive(f)' = Alive(f)
      BY <1>3, ClientsFinite DEF Alive, Walks
    <3> QED
      BY <1>1, <2>1, <3>3, <3>5, <3>6, Passes DEF Amounts, Alive
  <2> QED
    BY <2>3, <2>4, <2>5 DEF PlaceInv
<1>5. CASE ~Parks
  <2>1. EnqueueLocal(cur) /\ UNCHANGED parked
    BY <1>5 DEF FinalizePark
  <2> QED
    BY <1>1, <1>2, <1>3, <2>1, LeavesSet, EnqueuesPlaced
<1> QED
  BY <1>4, <1>5

LEMMA FinalizeOtherPlaced ==
  ASSUME PlaceInv, LoopTyped', FinalizeOther
  PROVE  PlaceInv'
<1>1. /\ at \in {"yield", "sleep", "fd"} /\ at' \notin SwitchedOut \cup {"on"} /\ cur \in Fibers
      /\ UNCHANGED <<intake, hold, inbox, parked, pc>>
  BY DEF FinalizeOther, channel, PlaceInv, LoopTyped, SwitchedOut, Top, DrainOrder
<1>2. Running = {cur} /\ Running' = {} /\ cur \notin sleeping /\ cur \notin onfd
  BY <1>1, CurrentRuns DEF SwitchedOut, Running
<1>3. CASE at = "yield"
  <2>1. EnqueueLocal(cur) /\ UNCHANGED <<sleeping, onfd>>
    BY <1>3 DEF FinalizeOther
  <2> QED
    BY <1>1, <1>2, <2>1, LeavesSet, EnqueuesPlaced DEF Walks
<1>4. CASE at # "yield"
  <2>1. /\ UNCHANGED <<ring, global, inq>>
        /\ \/ sleeping' = sleeping \cup {cur} /\ onfd' = onfd
           \/ onfd' = onfd \cup {cur} /\ sleeping' = sleeping
    BY <1>1, <1>4 DEF FinalizeOther
  <2>2. QueuesTyped'
    BY <1>1, <2>1 DEF PlaceInv, QueuesTyped
  <2>3. \A x \in Clients : Hand(x)'
    BY <1>1, SameHands
  <2>4. ASSUME NEW f \in Fibers PROVE Tally(f)'
    <3>1. In(f, sleeping)' + In(f, onfd)' + In(f, Running)' = In(f, sleeping) + In(f, onfd) + In(f, Running)
      BY <1>2, <2>1 DEF In
    <3>2. Holders(f)' = Holders(f) /\ Amounts(f)
      BY <1>1, Numbers DEF Holders, PlaceInv
    <3>3. Elsewhere(f)' = Times(f, parked) + Times(f, intake) + In(f, sleeping)' + In(f, onfd)'
                          + In(f, Running)' + Cardinality(Holders(f))
      BY <1>1, <3>2 DEF Elsewhere
    <3>4. In(f, sleeping)' \in Nat /\ In(f, onfd)' \in Nat /\ In(f, Running)' \in Nat
      BY DEF In
    <3>5. Elsewhere(f)' = Elsewhere(f)
      BY <3>1, <3>2, <3>3, <3>4 DEF Elsewhere, Amounts
    <3>6. Alive(f)' = Alive(f)
      BY <1>1 DEF Alive
    <3> QED
      BY <1>1, <2>1, <3>2, <3>5, <3>6, Passes DEF Amounts, Alive
  <2> QED
    BY <2>2, <2>3, <2>4 DEF PlaceInv
<1> QED
  BY <1>3, <1>4

LEMMA FinishPlaced ==
  ASSUME EndInv, PlaceInv, LoopTyped', NEW g \in Fibers, Finish(g)
  PROVE  PlaceInv'
<1>1. /\ at = "on" /\ cur = g /\ at' \notin SwitchedOut \cup {"on"} /\ g \in Clients
      /\ pc[g] = "idle" /\ pc' = [pc EXCEPT ![g] = "done"] /\ UNCHANGED stores
  BY ClientsAssumption, ClientsFinite DEF Finish, Runs, Goto, Top, DrainOrder, SwitchedOut, stores,
     channel, queues
<1>2. Running = {g} /\ Running' = {}
  BY <1>1, CurrentRuns DEF SwitchedOut, Running
<1>3. QueuesTyped'
  BY <1>1 DEF PlaceInv, QueuesTyped, stores
<1>4. \A x \in Clients : Hand(x)'
  BY <1>1, SameHands DEF Wakers, EndInv, stores
<1>5. ASSUME NEW f \in Fibers PROVE Tally(f)'
  <2>1. Holders(f)' = Holders(f) /\ Amounts(f)
    BY <1>1, Numbers DEF Holders, PlaceInv, stores
  <2>2. In(f, Running) = In(f, {g}) /\ In(f, Running)' = 0
    BY <1>2 DEF In
  <2>3. Elsewhere(f)' = Times(f, parked) + Times(f, intake) + In(f, sleeping) + In(f, onfd)
                        + In(f, Running)' + Cardinality(Holders(f))
    BY <1>1, <2>1 DEF Elsewhere, stores
  <2>4. Elsewhere(f)' + In(f, {g}) = Elsewhere(f) /\ Elsewhere(f)' \in Nat
    BY <2>1, <2>2, <2>3 DEF Elsewhere, Amounts
  <2>5. Alive(f)' + In(f, {g}) = Alive(f) /\ Alive(f)' \in Nat /\ In(f, {g}) \in Nat
    BY <1>1 DEF Alive, Absent, In, EndInv
  <2>6. Alive(f)' + Elsewhere(f) = Alive(f) + Elsewhere(f)'
    BY <2>4, <2>5
  <2> QED
    BY <1>1, <2>4, <2>6, Passes DEF stores
<1> QED
  BY <1>3, <1>4, <1>5 DEF PlaceInv

LEMMA EmptyInboxPlaced ==
  ASSUME PlaceInv, LoopTyped', EmptyInbox
  PROVE  PlaceInv'
<1>1. /\ global' = global \o Reverse(inbox) /\ inbox' = <<>> /\ inq' = inq
      /\ UNCHANGED <<ring, intake, sleeping, onfd, hold, parked, pc>>
      /\ at = "inbox" /\ at' \notin SwitchedOut \cup {"on"}
  BY DEF EmptyInbox, channel, InboxKeepsMarks, AfterDraining, DrainOrder, SwitchedOut
<1>2. Running' = Running
  BY <1>1, SameRunning DEF SwitchedOut
<1>3. Reverse(inbox) \in Seq(Fibers)
  BY TimesReverse DEF PlaceInv, QueuesTyped
<1>4. global' \in Seq(Fibers) /\ inbox' \in Seq(Fibers)
  BY <1>1, <1>3, ConcatProperties, EmptySeq DEF PlaceInv, QueuesTyped
<1>5. QueuesTyped'
  BY <1>1, <1>4 DEF PlaceInv, QueuesTyped
<1>6. \A x \in Clients : Hand(x)'
  BY <1>1, SameHands
<1>7. ASSUME NEW f \in Fibers PROVE Tally(f)'
  <2>1. Times(f, global') = Times(f, global) + Times(f, Reverse(inbox))
    BY <1>1, <1>3, TimesConcat DEF PlaceInv, QueuesTyped
  <2>2. Times(f, Reverse(inbox)) = Times(f, inbox) /\ Times(f, inbox') = 0
    BY <1>1, TimesReverse, TimesEmpty DEF PlaceInv, QueuesTyped
  <2>3. Places(f)' = Times(f, ring) + Times(f, global') + Times(f, inbox')
    BY <1>1 DEF Places
  <2>4. Amounts(f) /\ Tally(f)
    BY Numbers DEF PlaceInv
  <2>5. Places(f)' = Places(f)
    BY <2>1, <2>2, <2>3, <2>4 DEF Places, Amounts
  <2>6. Holders(f)' = Holders(f)
    BY <1>1 DEF Holders
  <2>7. Elsewhere(f)' = Elsewhere(f)
    BY <1>1, <1>2, <2>6 DEF Elsewhere
  <2> QED
    BY <1>1, <2>4, <2>5, <2>7 DEF Tally, Alive, Marked
<1> QED
  BY <1>5, <1>6, <1>7 DEF PlaceInv

LEMMA PickPlaced ==
  ASSUME PlaceInv, LoopTyped', Pick
  PROVE  PlaceInv'
<1> DEFINE g == Head(PickFrom)
<1>1. /\ at = "pick" /\ at' = "on" /\ cur' = g /\ inq' = [inq EXCEPT ![g] = FALSE]
      /\ UNCHANGED <<inbox, intake, sleeping, onfd, hold, parked, pc>>
  BY DEF Pick, channel
<1>2. PickFrom \in Seq(Fibers) /\ PickFrom # <<>>
  BY DEF Pick, PickFrom, PlaceInv, QueuesTyped
<1>3. g \in Fibers /\ Tail(PickFrom) \in Seq(Fibers) /\ Len(Tail(PickFrom)) = Len(PickFrom) - 1
  BY <1>2, HeadTailProperties
<1>4. \/ PickFrom = ring /\ ring' = Tail(PickFrom) /\ global' = global
      \/ PickFrom = global /\ global' = Tail(PickFrom) /\ ring' = ring
  BY DEF Pick, PickFrom
<1>5. \A f \in Fibers : Times(f, PickFrom) = Times(f, Tail(PickFrom)) + In(f, {g})
  BY <1>2, TimesTail DEF In
<1> HIDE DEF g
<1>6. Running = {} /\ Running' = {g}
  BY <1>1, <1>3 DEF Running
<1>7. QueuesTyped'
  <2>1. Len(ring') <= Capacity
    <3>1. Len(ring) \in Nat /\ Len(ring) <= Capacity
      BY LenProperties DEF PlaceInv, QueuesTyped
    <3> QED
      BY <1>3, <1>4, <3>1, CapacityAssumption
  <2> QED
    BY <1>1, <1>3, <1>4, <2>1 DEF PlaceInv, QueuesTyped
<1>8. \A x \in Clients : Hand(x)'
  BY <1>1, SameHands
<1>9. ASSUME NEW f \in Fibers PROVE Tally(f)'
  <2>1. Amounts(f) /\ Tally(f)
    BY Numbers DEF PlaceInv
  <2>2. Times(f, ring') + Times(f, global') + In(f, {g}) = Times(f, ring) + Times(f, global)
        /\ Times(f, ring') \in Nat /\ Times(f, global') \in Nat /\ In(f, {g}) \in {0, 1}
    <3>1. Times(f, PickFrom) = Times(f, Tail(PickFrom)) + In(f, {g})
      BY <1>5
    <3>2. Times(f, Tail(PickFrom)) \in Nat /\ In(f, {g}) \in {0, 1}
      BY <1>3, SpotsFinite DEF In
    <3>3. Times(f, ring) \in Nat /\ Times(f, global) \in Nat
      BY <2>1 DEF Amounts
    <3>4. CASE PickFrom = ring /\ ring' = Tail(PickFrom) /\ global' = global
      <4>1. Times(f, ring) = Times(f, ring') + In(f, {g}) /\ Times(f, ring') \in Nat
        BY <3>1, <3>2, <3>4
      <4> QED
        BY <3>2, <3>3, <3>4, <4>1
    <3>5. CASE PickFrom = global /\ global' = Tail(PickFrom) /\ ring' = ring
      <4>1. Times(f, global) = Times(f, global') + In(f, {g}) /\ Times(f, global') \in Nat
        BY <3>1, <3>2, <3>5
      <4> QED
        BY <3>2, <3>3, <3>5, <4>1
    <3> QED
      BY <1>4, <3>4, <3>5
  <2>3. Places(f)' = Times(f, ring') + Times(f, global') + Times(f, inbox)
    BY <1>1 DEF Places
  <2>4. Places(f)' + In(f, {g}) = Places(f) /\ Places(f)' \in Nat
    BY <2>1, <2>2, <2>3 DEF Places, Amounts
  <2>5. Holders(f)' = Holders(f) /\ In(f, Running) = 0 /\ In(f, Running)' = In(f, {g})
    BY <1>1, <1>6 DEF Holders, In
  <2>6. Elsewhere(f)' = Times(f, parked) + Times(f, intake) + In(f, sleeping) + In(f, onfd)
                        + In(f, Running)' + Cardinality(Holders(f))
    BY <1>1, <2>5 DEF Elsewhere
  <2>7. Elsewhere(f)' = Elsewhere(f) + In(f, {g})
    BY <2>1, <2>2, <2>5, <2>6 DEF Elsewhere, Amounts
  <2>8. Places(f) = Marked(f) /\ Marked(f) \in {0, 1} /\ Places(f) + Elsewhere(f) = Alive(f)
    BY <2>1 DEF Tally, Marked
  <2>9. Marked(f)' = IF f = g THEN 0 ELSE Marked(f)
    BY <1>1 DEF Marked, PlaceInv, QueuesTyped
  <2>10. Places(f)' = Marked(f)'
    BY <2>2, <2>4, <2>8, <2>9 DEF In
  <2>11. Places(f)' + Elsewhere(f)' = Alive(f)'
    <3>1. Alive(f)' = Alive(f) /\ Elsewhere(f) \in Nat /\ Places(f) \in Nat
      BY <1>1, <2>1 DEF Alive, Amounts
    <3> QED
      BY <2>2, <2>4, <2>7, <2>8, <3>1
  <2> QED
    BY <2>10, <2>11 DEF Tally
<1> QED
  BY <1>7, <1>8, <1>9 DEF PlaceInv

\* The anchor's other steps, and the turns of the loop that move no fiber.
LEMMA AnchorPlaced ==
  ASSUME EndInv, PlaceInv, LoopTyped',
         \/ \E f \in Fibers : SwitchOut(f) \/ Join(f)
         \/ PollTurn \/ Nap \/ NapIsOver \/ AnchorDeadline
         \/ EmptyPipe \/ BackToJoin \/ Idle \/ EpollReturns
  PROVE  PlaceInv'
<1>1. UNCHANGED stores
  BY DEF SwitchOut, Join, PollTurn, Nap, NapIsOver, AnchorDeadline, EmptyPipe, BackToJoin, Idle,
         EpollReturns, queues, channel, stores
<1>2. \A x \in Clients : Walks(x)
  <2>1. CASE \E f \in Fibers : Join(f)
    <3>1. pc[Anchor] = "idle" /\ (UNCHANGED pc \/ \E l \in {"jwait", "poll"} : pc' = [pc EXCEPT ![Anchor] = l])
      BY <2>1 DEF Join, Begins, Goto
    <3> QED
      BY <3>1, OneWalks, ClientsFinite DEF Walks, EndInv, Absent, Wakers
  <2>2. CASE PollTurn \/ Nap \/ NapIsOver
    <3>1. /\ pc[Anchor] \in {"idle", "poll", "nap"}
          /\ UNCHANGED pc \/ \E l \in {"idle", "nap"} : pc' = [pc EXCEPT ![Anchor] = l]
      BY <2>2 DEF PollTurn, Nap, NapIsOver, Begins, GoesOn, Goto
    <3> QED
      BY <3>1, OneWalks, ClientsFinite DEF Walks, EndInv, Absent, Wakers
  <2>3. CASE \/ \E f \in Fibers : SwitchOut(f)
             \/ AnchorDeadline \/ EmptyPipe \/ BackToJoin \/ Idle \/ EpollReturns
    BY <2>3 DEF SwitchOut, AnchorDeadline, EmptyPipe, BackToJoin, Idle, EpollReturns, Walks
  <2> QED
    BY <2>1, <2>2, <2>3
<1>3. Running' = Running
  <2>1. CASE \E f \in Fibers : SwitchOut(f)
    <3>1. at = "on" /\ at' \in {"yield", "sleep", "fd"} /\ cur' = cur
      BY <2>1, ClientsAssumption DEF SwitchOut, Runs
    <3> QED
      BY <3>1, SameRunning DEF SwitchedOut
  <2>2. CASE (\E f \in Fibers : Join(f)) \/ PollTurn \/ Nap \/ NapIsOver
    <3>1. cur = Anchor /\ cur' = Anchor
      BY <2>2, ClientsAssumption DEF Join, PollTurn, Nap, NapIsOver, Runs, loop
    <3> QED
      BY <3>1, SameRunning
  <2>3. CASE AnchorDeadline \/ BackToJoin \/ Idle
    <3>1. /\ at \in {"epoll", "pick"}
          /\ at' \in {"epoll", "pipe"} \/ cur' = Anchor
      BY <2>3 DEF AnchorDeadline, BackToJoin, Idle, NothingReady, Top, DrainOrder
    <3> QED
      BY <3>1, SameRunning DEF SwitchedOut
  <2>4. CASE EmptyPipe \/ EpollReturns
    <3>1. at \in {"epoll", "pipe"} /\ at' \in {"inbox", "pipe"}
      BY <2>4 DEF EmptyPipe, EpollReturns, AfterDraining, Top, DrainOrder
    <3> QED
      BY <3>1, SameRunning DEF SwitchedOut
  <2> QED
    BY <2>1, <2>2, <2>3, <2>4
<1> QED
  BY <1>1, <1>2, <1>3, StillPlaced

LEMMA NextPlaceInv ==
  ASSUME EndInv, PlaceInv, [Next]_vars
  PROVE  PlaceInv'
<1>0. LoopTyped'
  BY NextLoopTyped DEF PlaceInv
<1>1. ASSUME NEW a \in Clients, Calls(a) \/ Step(a) \/ SpuriousWakeup(a) PROVE PlaceInv'
  <2>1. CASE Send(a) \/ Receive(a) \/ WaitOutside(a) \/ TryReceive(a) \/ Close(a) \/ Destroy(a)
    BY <1>0, <2>1, CallsPlaced
  <2>2. CASE Block(a) \/ Wakes(a) \/ Drain(a) \/ SpuriousWakeup(a) \/ ParkFiber(a)
    BY <1>0, <2>2, InsidePlaced
  <2>3. CASE WakeFibers(a) \/ Post(a) \/ Ping(a)
    BY <1>0, <2>3, WakeFibersPlaced, PostPlaced, PingPlaced
  <2> QED
    BY <1>1, <2>1, <2>2, <2>3 DEF Calls, Step
<1>2. ASSUME NEW f \in Fibers, FiberCalls(f) \/ Join(f) \/ DescriptorReady(f) PROVE PlaceInv'
  <2>1. CASE ParkFiber(f)
    BY <1>0, <2>1, InsidePlaced, ClientsFinite
  <2>2. CASE SwitchOut(f) \/ Join(f)
    BY <1>0, <2>2, AnchorPlaced
  <2>3. CASE Finish(f) \/ DescriptorReady(f)
    BY <1>0, <2>3, FinishPlaced, ReadyPlaced
  <2> QED
    BY <1>2, <2>1, <2>2, <2>3 DEF FiberCalls
<1>3. CASE \E a \in Clients, f \in Fibers : Spawn(a, f)
  BY <1>0, <1>3, SpawnPlaced
<1>4. CASE AnchorStep \/ Nap \/ NapIsOver \/ AnchorDeadline
  BY <1>0, <1>4, AnchorPlaced, AdoptPlaced DEF AnchorStep
<1>5. CASE Loop
  <2>1. CASE EmptyPipe \/ BackToJoin \/ Idle \/ EpollReturns
    BY <1>0, <2>1, AnchorPlaced
  <2>2. CASE EmptyInbox \/ Pick \/ FinalizePark \/ FinalizeOther
    BY <1>0, <2>2, EmptyInboxPlaced, PickPlaced, FinalizeParkPlaced, FinalizeOtherPlaced
  <2>3. CASE \E f \in Fibers : Expire(f)
    BY <1>0, <2>3, ReadyPlaced
  <2> QED
    BY <1>5, <2>1, <2>2, <2>3 DEF Loop
<1>6. CASE UNCHANGED vars
  <2>1. UNCHANGED stores /\ UNCHANGED loop /\ UNCHANGED pc
    BY <1>6 DEF vars, channel, queues, stores
  <2>2. Running' = Running
    BY <2>1, SameRunning
  <2> QED
    BY <1>0, <2>1, <2>2, StillPlaced DEF Walks
<1> QED
  BY <1>1, <1>2, <1>3, <1>4, <1>5, <1>6 DEF Next

-----------------------------------------------------------------------------
(***************************************************************************)
(* The types of the rest.                                                  *)
(***************************************************************************)
ItemsTyped ==
  /\ queue \in Seq(1 .. MaxSends) /\ sent \in 0 .. MaxSends
  /\ got \in [Clients -> Seq(0 .. MaxSends)]

CountersTyped ==
  /\ inflight = (IF at = "park" THEN 1 ELSE 0)
  /\ home \in Homes /\ pipe \in BOOLEAN /\ joining \in Fibers \cup {None}

CallsTyped == calls \in [Clients -> Nat]

LEMMA NextItemsTyped ==
  ASSUME ItemsTyped, [Next]_vars
  PROVE  ItemsTyped'
<1> USE DEF ItemsTyped
<1>0. MaxSends \in Nat
  BY BoundsAssumption
<1>1. ASSUME NEW a \in Clients, TakesOrGivesUp(a), UNCHANGED sent PROVE ItemsTyped'
  <2>1. CASE queue # <<>>
    <3>1. Head(queue) \in 1 .. MaxSends /\ Tail(queue) \in Seq(1 .. MaxSends)
      BY <2>1, HeadTailProperties
    <3>2. Append(got[a], Head(queue)) \in Seq(0 .. MaxSends)
      BY <1>0, <3>1, AppendProperties
    <3> QED
      BY <1>1, <2>1, <3>1, <3>2 DEF TakesOrGivesUp
  <2>2. CASE queue = <<>>
    <3>1. Append(got[a], 0) \in Seq(0 .. MaxSends)
      BY <1>0, AppendProperties
    <3> QED
      BY <1>1, <2>2, <3>1 DEF TakesOrGivesUp
  <2> QED
    BY <2>1, <2>2
<1>2. ASSUME NEW a \in Clients, Calls(a) \/ Step(a) \/ SpuriousWakeup(a) PROVE ItemsTyped'
  <2>1. CASE Send(a)
    <3>1. CASE closed
      BY <2>1, <3>1 DEF Send
    <3>2. CASE ~closed
      <4>1. sent < MaxSends /\ sent' = sent + 1 /\ queue' = Append(queue, sent + 1) /\ got' = got
        BY <2>1, <3>2 DEF Send
      <4>2. sent + 1 \in 1 .. MaxSends
        BY <1>0, <4>1
      <4>3. queue' \in Seq(1 .. MaxSends)
        BY <4>1, <4>2, AppendProperties
      <4> QED
        BY <1>0, <4>1, <4>2, <4>3
    <3> QED
      BY <3>1, <3>2
  <2>2. CASE Receive(a) \/ TryReceive(a)
    BY <1>1, <2>2 DEF Receive, TryReceive
  <2>3. CASE Block(a) \/ Wakes(a)
    <3>1. UNCHANGED sent /\ (TakesOrGivesUp(a) \/ UNCHANGED <<queue, got>>)
      BY <2>3 DEF Block, Wakes
    <3> QED
      BY <1>1, <3>1
  <2>4. CASE Destroy(a)
    BY <2>4, EmptySeq DEF Destroy
  <2>5. CASE WaitOutside(a) \/ Close(a) \/ WakeFibers(a) \/ Post(a) \/ Ping(a) \/ Drain(a) \/ SpuriousWakeup(a)
             \/ ParkFiber(a)
    BY <2>5 DEF WaitOutside, Close, WakeFibers, Post, Ping, Drain, SpuriousWakeup, ParkFiber, channel
  <2> QED
    BY <1>2, <2>1, <2>2, <2>3, <2>4, <2>5 DEF Calls, Step
<1>3. CASE \E f \in Fibers : FiberCalls(f) \/ Join(f) \/ DescriptorReady(f)
  BY <1>3 DEF FiberCalls, ParkFiber, SwitchOut, Finish, Join, DescriptorReady, channel
<1>4. CASE \/ \E a \in Clients, f \in Fibers : Spawn(a, f)
           \/ AnchorStep \/ Nap \/ NapIsOver \/ AnchorDeadline
  BY <1>4 DEF Spawn, AnchorStep, Adopt, PollTurn, Nap, NapIsOver, AnchorDeadline, channel
<1>5. CASE Loop
  BY <1>5, LoopLeavesItems DEF Items
<1>6. CASE UNCHANGED vars
  BY <1>6 DEF vars, channel
<1> QED
  BY <1>2, <1>3, <1>4, <1>5, <1>6 DEF Next

LEMMA NextCountersTyped ==
  ASSUME CountersTyped, LoopTyped, [Next]_vars
  PROVE  CountersTyped'
<1> USE DEF CountersTyped
<1>1. ASSUME NEW a \in Clients, Calls(a) \/ Step(a) \/ SpuriousWakeup(a) PROVE CountersTyped'
  <2>1. CASE ParkFiber(a)
    BY <2>1, ClientsAssumption DEF ParkFiber, Runs, queues
  <2>2. CASE WaitOutside(a)
    <3>1. /\ UNCHANGED <<inflight, home, pipe, joining>>
          /\ UNCHANGED at \/ (at = "on" /\ at' = "pipe")
      BY <2>2, ClientsAssumption DEF WaitOutside, Top, DrainOrder, channel, queues, Runs
    <3> QED
      BY <3>1
  <2>3. CASE Send(a) \/ Receive(a) \/ TryReceive(a) \/ Close(a) \/ Destroy(a)
    BY <2>3 DEF Send, Receive, TryReceive, Close, Destroy, loop, queues
  <2>4. CASE Block(a) \/ Wakes(a) \/ WakeFibers(a) \/ Post(a) \/ Ping(a) \/ Drain(a) \/ SpuriousWakeup(a)
    BY <2>4 DEF Block, Wakes, WakeFibers, Post, Ping, Drain, SpuriousWakeup, loop, queues, channel
  <2> QED
    BY <1>1, <2>1, <2>2, <2>3, <2>4 DEF Calls, Step
<1>2. ASSUME NEW f \in Fibers, FiberCalls(f) \/ Join(f) \/ DescriptorReady(f) PROVE CountersTyped'
  <2>1. CASE ParkFiber(f)
    BY <2>1, ClientsAssumption DEF ParkFiber, Runs, queues
  <2>2. CASE SwitchOut(f) \/ Finish(f)
    BY <2>2, ClientsAssumption DEF SwitchOut, Finish, Runs, Top, DrainOrder, queues, channel
  <2>3. CASE Join(f) \/ DescriptorReady(f)
    <3>1. /\ UNCHANGED <<inflight, home, pipe>> /\ joining' \in Fibers \cup {None}
          /\ UNCHANGED at \/ (at \in {"on", "epoll"} /\ at' = "pipe")
      BY <2>3, ClientsAssumption DEF Join, DescriptorReady, Runs, Top, DrainOrder, queues, channel
    <3> QED
      BY <3>1
  <2> QED
    BY <1>2, <2>1, <2>2, <2>3 DEF FiberCalls
<1>3. CASE \E a \in Clients, f \in Fibers : Spawn(a, f)
  BY <1>3 DEF Spawn, loop, channel
<1>4. CASE AnchorStep \/ Nap \/ NapIsOver \/ AnchorDeadline
  <2>1. /\ UNCHANGED <<inflight, home, pipe>> /\ joining' \in Fibers \cup {None}
        /\ UNCHANGED at \/ (at \in {"on", "epoll", "pick"} /\ at' \in {"pipe", "on"})
    BY <1>4, ClientsAssumption DEF AnchorStep, Adopt, PollTurn, Nap, NapIsOver, AnchorDeadline, Runs,
       NothingReady, Top, DrainOrder, loop, queues, channel
  <2> QED
    BY <2>1
<1>5. CASE Loop
  <2>1. CASE FinalizePark
    BY <2>1 DEF FinalizePark, Top, DrainOrder
  <2>2. CASE EmptyPipe \/ EmptyInbox \/ FinalizeOther
    BY <2>2 DEF EmptyPipe, EmptyInbox, FinalizeOther, AfterDraining, Top, DrainOrder, channel
  <2>3. CASE BackToJoin \/ Idle \/ EpollReturns \/ Pick
    BY <2>3 DEF BackToJoin, Idle, NothingReady, EpollReturns, Pick, Top, DrainOrder, channel, queues
  <2>4. CASE \E f \in Fibers : Expire(f)
    BY <2>4 DEF Expire, loop, channel
  <2> QED
    BY <1>5, <2>1, <2>2, <2>3, <2>4 DEF Loop
<1>6. CASE UNCHANGED vars
  BY <1>6 DEF vars, loop, channel, queues
<1> QED
  BY <1>1, <1>2, <1>3, <1>4, <1>5, <1>6 DEF Next

LEMMA NextCallsTyped ==
  ASSUME CallsTyped, [Next]_vars
  PROVE  CallsTyped'
<1> USE DEF CallsTyped
<1>1. ASSUME NEW a \in Clients, Begins(a) \/ UNCHANGED calls PROVE CallsTyped'
  BY <1>1 DEF Begins
<1>2. ASSUME NEW a \in Clients, Calls(a) \/ Step(a) \/ SpuriousWakeup(a) PROVE CallsTyped'
  BY <1>1, <1>2 DEF Calls, Step, Send, Receive, WaitOutside, TryReceive, Close, Destroy, ParkFiber,
     Block, Wakes, WakeFibers, Post, Ping, Drain, SpuriousWakeup, GoesOn
<1>3. ASSUME NEW f \in Fibers, FiberCalls(f) \/ Join(f) \/ DescriptorReady(f) PROVE CallsTyped'
  BY <1>1, <1>3, ClientsFinite DEF FiberCalls, ParkFiber, SwitchOut, Finish, Join, DescriptorReady, GoesOn
<1>4. CASE \/ \E a \in Clients, f \in Fibers : Spawn(a, f)
           \/ AnchorStep \/ Nap \/ NapIsOver \/ AnchorDeadline
  BY <1>1, <1>4, ClientsFinite DEF Spawn, AnchorStep, Adopt, PollTurn, Nap, NapIsOver, AnchorDeadline,
     GoesOn
<1>5. CASE Loop
  BY <1>5 DEF Loop, EmptyPipe, EmptyInbox, BackToJoin, Pick, Idle, EpollReturns, FinalizePark,
     FinalizeOther, Expire
<1>6. CASE UNCHANGED vars
  BY <1>6 DEF vars
<1> QED
  BY <1>2, <1>3, <1>4, <1>5, <1>6 DEF Next

\* The channel, the home's queues and the places of the fibers, together.
IInv == EndInv /\ PlaceInv /\ ItemsTyped /\ CountersTyped /\ CallsTyped

LEMMA InitIInv == Init => IInv
<1> SUFFICES ASSUME Init PROVE IInv
  OBVIOUS
<1>1. ItemsTyped
  BY BoundsAssumption, EmptySeq DEF Init, ItemsTyped
<1>2. CountersTyped /\ CallsTyped
  BY DEF Init, CountersTyped, CallsTyped
<1> QED
  BY <1>1, <1>2, InitEndInv, InitPlaceInv DEF IInv

LEMMA NextIInv == IInv /\ [Next]_vars => IInv'
<1> SUFFICES ASSUME IInv, [Next]_vars PROVE IInv'
  OBVIOUS
<1> QED
  BY NextEndInv, NextPlaceInv, NextItemsTyped, NextCountersTyped, NextCallsTyped DEF IInv, PlaceInv

LEMMA IInvImpliesInOnePlace == IInv => InOnePlace
<1> SUFFICES ASSUME IInv PROVE InOnePlace
  OBVIOUS
<1>1. TypeOK
  BY DEF IInv, EndInv, PlaceInv, LoopTyped, QueuesTyped, Turns, ItemsTyped, CountersTyped, CallsTyped,
     Waiting, TypeOK
<1>2. \A f \in Fibers : Tally(f)
  BY DEF IInv, PlaceInv
<1> QED
  BY <1>1, <1>2 DEF InOnePlace, Tally, Marked, Alive, Absent

\* A fiber of the home is never lost and never runs twice: from spawn to its end it
\* runs, or is in exactly one of the home's queues and lists, in the channel's list, or
\* in the hands of the client that wakes it; in_queue is set as long as it is in a
\* queue; and every variable has its type.
THEOREM ChannelInOnePlace == Spec => []InOnePlace
BY InitIInv, NextIInv, IInvImpliesInOnePlace, PTL DEF Spec

-----------------------------------------------------------------------------
(***************************************************************************)
(* No wake is lost.                                                        *)
(***************************************************************************)
\* Who is on the channel's list, or about to be, is in recv.
RecvInv ==
  /\ \A f \in Range(parked) : pc[f] = "recv"
  /\ at = "park" => pc[cur] = "recv"

WakeInv == RecvInv /\ NoLostWakeup

Signals == At("wakeall") \cup At("dwake")

\* How the number of clients in a place changes.
LEMMA Bigger ==
  ASSUME NEW S, S \subseteq Clients, NEW T, T \subseteq Clients
  PROVE  /\ Cardinality(S) \in Nat /\ Cardinality(T) \in Nat
         /\ S \subseteq T => Cardinality(S) <= Cardinality(T)
         /\ \A x : x \notin S /\ S \cup {x} \subseteq T => Cardinality(S) + 1 <= Cardinality(T)
         /\ \A x : S \ {x} \subseteq T => Cardinality(S) <= Cardinality(T) + 1
         /\ \A x, y : y \notin S /\ (S \ {x}) \cup {y} \subseteq T => Cardinality(S) <= Cardinality(T)
<1>1. IsFiniteSet(S) /\ IsFiniteSet(T) /\ Cardinality(S) \in Nat /\ Cardinality(T) \in Nat
  BY ClientsFinite, FS_Subset, FS_CardinalityType
<1>2. S \subseteq T => Cardinality(S) <= Cardinality(T)
  BY <1>1, FS_Subset
<1>3. ASSUME NEW x, x \notin S, S \cup {x} \subseteq T PROVE Cardinality(S) + 1 <= Cardinality(T)
  <2>1. Cardinality(S \cup {x}) = Cardinality(S) + 1
    BY <1>1, <1>3, FS_AddElement
  <2>2. Cardinality(S \cup {x}) <= Cardinality(T)
    BY <1>1, <1>3, FS_Subset
  <2> QED
    BY <2>1, <2>2
<1>4. ASSUME NEW x, NEW U, IsFiniteSet(U), S \ {x} \subseteq U
      PROVE  Cardinality(U) \in Nat /\ Cardinality(S) <= Cardinality(U) + 1
  <2>1. IsFiniteSet(S \ {x}) /\ Cardinality(S \ {x}) \in Nat /\ Cardinality(U) \in Nat
    BY <1>1, <1>4, FS_RemoveElement, FS_CardinalityType
  <2>2. Cardinality(S) <= Cardinality(S \ {x}) + 1
    <3>1. CASE x \in S
      <4>1. Cardinality(S \ {x}) = Cardinality(S) - 1
        BY <1>1, <3>1, FS_RemoveElement
      <4> QED
        BY <1>1, <2>1, <4>1
    <3>2. CASE x \notin S
      <4>1. S \ {x} = S
        BY <3>2
      <4> QED
        BY <1>1, <4>1
    <3> QED
      BY <3>1, <3>2
  <2>3. Cardinality(S \ {x}) <= Cardinality(U)
    BY <1>4, FS_Subset
  <2> QED
    BY <1>1, <2>1, <2>2, <2>3
<1>5. ASSUME NEW x, NEW y, y \notin S, (S \ {x}) \cup {y} \subseteq T PROVE Cardinality(S) <= Cardinality(T)
  <2>1. IsFiniteSet(T \ {y}) /\ Cardinality(T \ {y}) = Cardinality(T) - 1
    BY <1>1, <1>5, FS_RemoveElement
  <2>2. S \ {x} \subseteq T \ {y}
    BY <1>5
  <2>3. Cardinality(T \ {y}) \in Nat /\ Cardinality(S) <= Cardinality(T \ {y}) + 1
    BY <1>4, <2>1, <2>2
  <2> QED
    BY <1>1, <2>1, <2>3
<1> QED
  BY <1>1, <1>2, <1>3, <1>4, <1>5

LEMMA OnTheWayClients == OnTheWay \subseteq Clients /\ At("woken") \subseteq Clients
BY ClientsFinite DEF OnTheWay, At

\* What the two halves of the property say, of the items and the clients.
LEMMA WakeInvFrom ==
  ASSUME RecvInv,
         parked # <<>> => Len(queue) <= Cardinality(OnTheWay) /\ (closed => Signals # {}),
         At("waiting") # {} => Len(queue) <= Cardinality(At("woken")) /\ ~closed
  PROVE  WakeInv
BY DEF WakeInv, NoLostWakeup, Signals

\* No item comes, nobody comes to wait, and none of those who wake or were woken goes.
Steady ==
  /\ UNCHANGED <<parked, closed>>
  /\ Len(queue') \in Nat /\ Len(queue') <= Len(queue)
  /\ at' = "park" => at = "park" /\ cur' = cur
  /\ \A x \in Clients : pc[x] \in {"recv", "wake", "woken", "wakeall", "dwake"} => pc'[x] = pc[x]
  /\ \A x \in Clients : pc'[x] = "waiting" => pc[x] = "waiting"

LEMMA QueueLength ==
  ASSUME IInv
  PROVE  queue \in Seq(1 .. MaxSends) /\ Len(queue) \in Nat /\ (Len(queue) = 0 <=> queue = <<>>)
         /\ Len(<<>>) = 0
BY LenProperties, EmptySeq DEF IInv, ItemsTyped

LEMMA ParkedAreFibers ==
  ASSUME IInv
  PROVE  /\ parked \in Seq(Fibers) /\ Range(parked) \subseteq Fibers /\ Fibers \subseteq Clients
         /\ \A f \in Fibers : f \in Range(parked) => Times(f, parked) = 1
         /\ at \in SwitchedOut \cup {"on"} => cur \notin Range(parked)
<1>1. parked \in Seq(Fibers) /\ Range(parked) \subseteq Fibers
  BY ElementOfSeq, LenProperties DEF IInv, PlaceInv, QueuesTyped, Range
<1>2. ASSUME NEW f \in Fibers, f \in Range(parked) PROVE Times(f, parked) = 1
  <2>1. Times(f, parked) >= 1
    BY <1>1, <1>2, TimesOfSome
  <2>2. Amounts(f)
    BY Numbers DEF IInv, PlaceInv
  <2>3. Elsewhere(f) >= 1
    BY <2>1, <2>2 DEF Elsewhere, Amounts
  <2>4. Elsewhere(f) = Alive(f)
    BY <2>3, ElsewhereMeansUnmarked DEF IInv
  <2>5. Elsewhere(f) = 1
    BY <2>3, <2>4 DEF Alive
  <2> QED
    BY <2>1, <2>2, <2>5 DEF Elsewhere, Amounts
<1>3. ASSUME at \in SwitchedOut \cup {"on"}, cur \in Range(parked) PROVE FALSE
  <2>1. Times(cur, parked) = 1 /\ cur \in Fibers
    BY <1>1, <1>2, <1>3
  <2>2. Times(cur, parked) = 0
    BY <1>3, <2>1, CurrentRuns DEF IInv
  <2> QED
    BY <2>1, <2>2
<1> QED
  BY <1>1, <1>2, <1>3, ClientsFinite

LEMMA SteadyWakeInv ==
  ASSUME IInv, IInv', WakeInv, Steady
  PROVE  WakeInv'
<1>1. RecvInv'
  <2>1. at = "park" => cur \in Clients
    BY ClientsFinite DEF IInv, PlaceInv, LoopTyped, SwitchedOut
  <2> QED
    BY <2>1, ParkedAreFibers DEF Steady, WakeInv, RecvInv
<1>2. Len(queue) \in Nat /\ Len(queue') \in Nat /\ Len(queue') <= Len(queue) /\ parked' = parked /\ closed' = closed
  BY QueueLength DEF Steady
<1>3. OnTheWay \subseteq OnTheWay' /\ At("woken") \subseteq At("woken")' /\ Signals \subseteq Signals'
      /\ At("waiting")' \subseteq At("waiting")
  BY ClientsFinite DEF Steady, OnTheWay, At, Signals
<1>4. Cardinality(OnTheWay) \in Nat /\ Cardinality(OnTheWay') \in Nat /\ Cardinality(OnTheWay) <= Cardinality(OnTheWay')
  <2>1. OnTheWay \subseteq Clients /\ OnTheWay' \subseteq Clients
    BY ClientsFinite DEF OnTheWay, At
  <2> QED
    BY <1>3, <2>1, Bigger
<1>5. /\ Cardinality(At("woken")) \in Nat /\ Cardinality(At("woken")') \in Nat
      /\ Cardinality(At("woken")) <= Cardinality(At("woken")')
  <2>1. At("woken") \subseteq Clients /\ At("woken")' \subseteq Clients
    BY DEF At
  <2> QED
    BY <1>3, <2>1, Bigger
<1>6. ASSUME parked' # <<>> PROVE Len(queue') <= Cardinality(OnTheWay') /\ (closed' => Signals' # {})
  <2>1. Len(queue) <= Cardinality(OnTheWay) /\ (closed => Signals # {})
    BY <1>2, <1>6 DEF WakeInv, NoLostWakeup, Signals
  <2> QED
    BY <1>2, <1>3, <1>4, <2>1
<1>7. ASSUME At("waiting")' # {} PROVE Len(queue') <= Cardinality(At("woken")') /\ ~closed'
  <2>1. Len(queue) <= Cardinality(At("woken")) /\ ~closed
    BY <1>3, <1>7 DEF WakeInv, NoLostWakeup
  <2> QED
    BY <1>2, <1>5, <2>1
<1> QED
  BY <1>1, <1>6, <1>7 DEF WakeInv, NoLostWakeup, Signals

\* Nothing in the channel, and it is open: there is nothing to be woken for.
LEMMA EmptyWakeInv ==
  ASSUME IInv', RecvInv', queue' = <<>>, ~closed'
  PROVE  WakeInv'
<1>1. Len(queue') = 0
  BY EmptySeq
<1>2. Cardinality(OnTheWay') \in Nat /\ Cardinality(At("woken")') \in Nat
  <2>1. OnTheWay' \subseteq Clients /\ At("woken")' \subseteq Clients
    BY ClientsFinite DEF OnTheWay, At
  <2> QED
    BY <2>1, Bigger
<1> QED
  BY <1>1, <1>2 DEF WakeInv, NoLostWakeup

LEMMA Shrinks ==
  ASSUME IInv, NEW a \in Clients, TakesOrGivesUp(a)
  PROVE  /\ Len(queue') \in Nat /\ Len(queue') <= Len(queue)
         /\ Len(queue') = 0 \/ Len(queue') + 1 = Len(queue)
<1>1. CASE queue = <<>>
  BY <1>1, QueueLength DEF TakesOrGivesUp
<1>2. CASE queue # <<>>
  <2>1. queue' = Tail(queue) /\ Len(Tail(queue)) = Len(queue) - 1
    BY <1>2, QueueLength, HeadTailProperties DEF TakesOrGivesUp
  <2>2. Len(queue) \in Nat /\ Len(queue) # 0
    BY <1>2, QueueLength
  <2> QED
    BY <2>1, <2>2
<1> QED
  BY <1>1, <1>2

\* A client that runs is not on the list.
LEMMA RunsIsNotParked ==
  ASSUME IInv, NEW a \in Clients, Runs(a)
  PROVE  a \notin Range(parked)
<1>1. CASE a \in Threads
  BY <1>1, ParkedAreFibers, ClientsAssumption
<1>2. CASE at = "on" /\ cur = a
  BY <1>2, ParkedAreFibers
<1> QED
  BY <1>1, <1>2 DEF Runs

LEMMA SendWakeInv ==
  ASSUME IInv, IInv', WakeInv, NEW a \in Clients, Send(a)
  PROVE  WakeInv'
<1>1. pc[a] = "idle" /\ UNCHANGED <<closed, parked, loop>>
  BY DEF Send, Begins
<1>2. CASE closed
  <2>1. UNCHANGED <<queue, pc>>
    BY <1>2 DEF Send
  <2> QED
    BY <1>1, <2>1, QueueLength, SteadyWakeInv DEF Steady, loop
<1>3. CASE ~closed
  <2>1. queue' = Append(queue, sent + 1) /\ SignalOne([pc EXCEPT ![a] = "wake"]) /\ "wake" \in PC
    BY <1>3 DEF Send, PC
  <2>2. Len(queue') = Len(queue) + 1 /\ Len(queue) \in Nat
    <3>1. sent + 1 \in 1 .. MaxSends
      BY <1>3, BoundsAssumption DEF Send, IInv, ItemsTyped
    <3> QED
      BY <2>1, <3>1, QueueLength, AppendProperties
  <2>3. /\ pc'[a] = "wake"
        /\ \A x \in Clients \ {a} : pc'[x] = pc[x] \/ (pc[x] = "waiting" /\ pc'[x] = "woken")
        /\ At("waiting") # {} => \E x \in Clients \ {a} : pc[x] = "waiting" /\ pc'[x] = "woken"
    BY <1>1, <2>1, Signalled DEF Waits, IInv
  <2>4. RecvInv'
    <3>1. Range(parked) \subseteq Clients /\ (at = "park" => cur \in Clients)
      BY ParkedAreFibers DEF IInv, PlaceInv, LoopTyped, SwitchedOut
    <3> QED
      BY <1>1, <2>3, <3>1 DEF WakeInv, RecvInv, loop
  <2>5. ASSUME parked' # <<>> PROVE Len(queue') <= Cardinality(OnTheWay')
    <3>1. OnTheWay \subseteq Clients /\ OnTheWay' \subseteq Clients
      BY ClientsFinite DEF OnTheWay, At
    <3>2. a \notin OnTheWay /\ OnTheWay \cup {a} \subseteq OnTheWay'
      BY <1>1, <2>3, ClientsFinite DEF OnTheWay, At
    <3>3. Cardinality(OnTheWay) + 1 <= Cardinality(OnTheWay') /\ Cardinality(OnTheWay) \in Nat
          /\ Cardinality(OnTheWay') \in Nat
      BY <3>1, <3>2, Bigger
    <3>4. Len(queue) <= Cardinality(OnTheWay)
      BY <1>1, <2>5 DEF WakeInv, NoLostWakeup
    <3> QED
      BY <2>2, <3>3, <3>4
  <2>6. ASSUME At("waiting")' # {} PROVE Len(queue') <= Cardinality(At("woken")')
    <3>1. At("woken") \subseteq Clients /\ At("woken")' \subseteq Clients
      BY DEF At
    <3>2. At("waiting") # {}
      BY <2>3, <2>6 DEF At
    <3>3. PICK x \in Clients \ {a} : pc[x] = "waiting" /\ pc'[x] = "woken"
      BY <2>3, <3>2
    <3>4. x \notin At("woken") /\ At("woken") \cup {x} \subseteq At("woken")'
      BY <1>1, <2>3, <3>3 DEF At
    <3>5. Cardinality(At("woken")) + 1 <= Cardinality(At("woken")') /\ Cardinality(At("woken")) \in Nat
          /\ Cardinality(At("woken")') \in Nat
      BY <3>1, <3>4, Bigger
    <3>6. Len(queue) <= Cardinality(At("woken"))
      BY <3>2 DEF WakeInv, NoLostWakeup
    <3> QED
      BY <2>2, <3>5, <3>6
  <2> QED
    BY <1>1, <1>3, <2>4, <2>5, <2>6 DEF WakeInv, NoLostWakeup
<1> QED
  BY <1>2, <1>3

LEMMA ReceiveWakeInv ==
  ASSUME IInv, IInv', WakeInv, NEW a \in Clients, Receive(a)
  PROVE  WakeInv'
<1>1. /\ Runs(a) /\ pc[a] \in {"idle", "recv"} /\ pc' = [pc EXCEPT ![a] = "idle"]
      /\ UNCHANGED <<closed, parked, loop>> /\ TakesOrGivesUp(a) /\ pc \in [Clients -> PC]
  BY DEF Receive, Begins, GoesOn, Goto, IInv, EndInv
<1>2. CASE pc[a] = "idle"
  BY <1>1, <1>2, Shrinks, SteadyWakeInv DEF Steady, loop
<1>3. CASE pc[a] = "recv"
  <2>1. a \notin Range(parked)
    BY <1>1, RunsIsNotParked
  <2>2. RecvInv'
    <3>1. at = "park" => cur # a
      BY <1>1, ClientsAssumption DEF Runs, IInv, PlaceInv, LoopTyped, SwitchedOut
    <3>2. Range(parked) \subseteq Clients /\ (at = "park" => cur \in Clients)
      BY ParkedAreFibers DEF IInv, PlaceInv, LoopTyped, SwitchedOut
    <3> QED
      BY <1>1, <2>1, <3>1, <3>2 DEF WakeInv, RecvInv, loop
  <2>3. /\ Len(queue') \in Nat /\ Len(queue') <= Len(queue) /\ Len(queue) \in Nat
        /\ Len(queue') = 0 \/ Len(queue') + 1 = Len(queue)
    BY <1>1, Shrinks, QueueLength
  <2>4. OnTheWay \ {a} \subseteq OnTheWay' /\ Signals' = Signals
        /\ At("woken")' = At("woken") /\ At("waiting")' = At("waiting")
    BY <1>1, <1>3, ClientsFinite DEF OnTheWay, At, Signals
  <2>5. Cardinality(OnTheWay) \in Nat /\ Cardinality(OnTheWay') \in Nat
        /\ Cardinality(OnTheWay) <= Cardinality(OnTheWay') + 1 /\ Cardinality(At("woken")) \in Nat
    <3>1. OnTheWay \subseteq Clients /\ OnTheWay' \subseteq Clients /\ At("woken") \subseteq Clients
      BY ClientsFinite DEF OnTheWay, At
    <3> QED
      BY <2>4, <3>1, Bigger
  <2>6. ASSUME parked' # <<>> PROVE Len(queue') <= Cardinality(OnTheWay') /\ (closed' => Signals' # {})
    <3>1. Len(queue) <= Cardinality(OnTheWay) /\ (closed => Signals # {})
      BY <1>1, <2>6 DEF WakeInv, NoLostWakeup, Signals
    <3> QED
      BY <1>1, <2>3, <2>4, <2>5, <3>1
  <2>7. ASSUME At("waiting")' # {} PROVE Len(queue') <= Cardinality(At("woken")') /\ ~closed'
    <3>1. Len(queue) <= Cardinality(At("woken")) /\ ~closed
      BY <2>4, <2>7 DEF WakeInv, NoLostWakeup
    <3> QED
      BY <1>1, <2>3, <2>4, <2>5, <3>1
  <2> QED
    BY <2>2, <2>6, <2>7 DEF WakeInv, NoLostWakeup, Signals
<1> QED
  BY <1>1, <1>2, <1>3

\* Whoever finds the channel empty and open waits, one way or the other.
LEMMA WaitsWakeInv ==
  ASSUME IInv, IInv', WakeInv, NEW a \in Clients, MustWait,
         ParkFiber(a) \/ WaitOutside(a) \/ Block(a) \/ Wakes(a)
  PROVE  WakeInv'
<1>1. queue' = <<>> /\ ~closed' /\ UNCHANGED parked /\ Range(parked) \subseteq Clients
  BY ParkedAreFibers DEF MustWait, ParkFiber, WaitOutside, Block, Wakes, WaitsAgain, channel
<1>2. pc \in [Clients -> PC] /\ (at = "park" => cur \in Clients)
  BY ClientsFinite DEF IInv, EndInv, PlaceInv, LoopTyped, SwitchedOut
<1>3. CASE ParkFiber(a)
  <2>1. pc' = [pc EXCEPT ![a] = "recv"] /\ cur = a /\ cur' = a
    BY <1>3, ClientsAssumption DEF ParkFiber, Runs, Goto
  <2>2. RecvInv'
    BY <1>1, <1>2, <2>1 DEF WakeInv, RecvInv
  <2> QED
    BY <1>1, <2>2, EmptyWakeInv
<1>4. CASE WaitOutside(a)
  <2>1. a \notin Fibers /\ (at' = "park" => at = "park") /\ cur' = cur
        /\ \A x \in Clients \ {a} : pc'[x] = pc[x]
    BY <1>2, <1>4 DEF WaitOutside, Goto, Top, DrainOrder
  <2>2. at = "park" => cur \in Fibers
    BY DEF IInv, PlaceInv, LoopTyped, SwitchedOut
  <2>3. RecvInv'
    BY <1>1, <1>2, <2>1, <2>2, ParkedAreFibers DEF WakeInv, RecvInv
  <2> QED
    BY <1>1, <2>3, EmptyWakeInv
<1>5. CASE Block(a) \/ Wakes(a)
  <2>1. pc[a] \in {"block", "woken"} /\ UNCHANGED loop /\ \A x \in Clients \ {a} : pc'[x] = pc[x]
    BY <1>2, <1>5 DEF Block, Wakes, WaitsAgain, Goto
  <2>2. RecvInv'
    BY <1>1, <1>2, <2>1 DEF WakeInv, RecvInv, loop
  <2> QED
    BY <1>1, <2>2, EmptyWakeInv
<1> QED
  BY <1>3, <1>4, <1>5

LEMMA WakesWakeInv ==
  ASSUME IInv, IInv', WakeInv, NEW a \in Clients, Block(a) \/ Wakes(a), ~MustWait
  PROVE  WakeInv'
<1>1. /\ TakesOrGivesUp(a) /\ UNCHANGED <<closed, parked, loop>> /\ pc[a] \in {"block", "woken"}
      /\ \E c \in BOOLEAN : SignalDrained(c, [pc EXCEPT ![a] = "idle"])
  BY DEF Block, Wakes, WaitsAgain
<1>2. /\ pc'[a] = "idle"
      /\ \A x \in Clients \ {a} : pc'[x] = pc[x] \/ (pc[x] = "dwait" /\ pc'[x] = "dwake")
  BY <1>1 DEF SignalDrained, Moved, IInv, EndInv
<1>3. /\ Len(queue') \in Nat /\ Len(queue') <= Len(queue) /\ Len(queue) \in Nat
      /\ Len(queue') = 0 \/ Len(queue') + 1 = Len(queue)
  BY <1>1, Shrinks, QueueLength
<1>4. CASE pc[a] = "block"
  BY <1>1, <1>2, <1>3, <1>4, SteadyWakeInv DEF Steady, loop
<1>5. CASE pc[a] = "woken"
  <2>1. RecvInv'
    <3>1. Range(parked) \subseteq Clients /\ (at = "park" => cur \in Clients)
      BY ParkedAreFibers DEF IInv, PlaceInv, LoopTyped, SwitchedOut
    <3> QED
      BY <1>1, <1>2, <1>5, <3>1 DEF WakeInv, RecvInv, loop
  <2>2. OnTheWay' = OnTheWay /\ Signals \subseteq Signals'
        /\ At("woken") \ {a} \subseteq At("woken")' /\ At("waiting")' \subseteq At("waiting")
    BY <1>1, <1>2, <1>5, ClientsFinite DEF OnTheWay, At, Signals
  <2>3. Cardinality(OnTheWay) \in Nat /\ Cardinality(At("woken")) \in Nat /\ Cardinality(At("woken")') \in Nat
        /\ Cardinality(At("woken")) <= Cardinality(At("woken")') + 1
    <3>1. OnTheWay \subseteq Clients /\ At("woken") \subseteq Clients /\ At("woken")' \subseteq Clients
      BY ClientsFinite DEF OnTheWay, At
    <3> QED
      BY <2>2, <3>1, Bigger
  <2>4. ASSUME parked' # <<>> PROVE Len(queue') <= Cardinality(OnTheWay') /\ (closed' => Signals' # {})
    <3>1. Len(queue) <= Cardinality(OnTheWay) /\ (closed => Signals # {})
      BY <1>1, <2>4 DEF WakeInv, NoLostWakeup, Signals
    <3> QED
      BY <1>1, <1>3, <2>2, <2>3, <3>1
  <2>5. ASSUME At("waiting")' # {} PROVE Len(queue') <= Cardinality(At("woken")') /\ ~closed'
    <3>1. Len(queue) <= Cardinality(At("woken")) /\ ~closed
      BY <2>2, <2>5 DEF WakeInv, NoLostWakeup
    <3> QED
      BY <1>1, <1>3, <2>3, <3>1
  <2> QED
    BY <2>1, <2>4, <2>5 DEF WakeInv, NoLostWakeup, Signals
<1> QED
  BY <1>1, <1>4, <1>5

LEMMA CloseWakeInv ==
  ASSUME IInv, IInv', WakeInv, NEW a \in Clients, Close(a) \/ Destroy(a)
  PROVE  WakeInv'
<1>1. PICK l \in {"wakeall", "dwake"} : pc' = Moved([pc EXCEPT ![a] = l], "waiting", "woken")
  BY DEF Close, Destroy
<1>2. pc[a] = "idle" /\ UNCHANGED <<parked, loop>> /\ (queue' = queue \/ queue' = <<>>)
  BY DEF Close, Destroy, Begins
<1>3. \A x \in Clients : pc'[x] = IF x = a THEN l ELSE IF pc[x] = "waiting" THEN "woken" ELSE pc[x]
  BY <1>1 DEF Moved, IInv, EndInv
<1>4. RecvInv'
  <2>1. Range(parked) \subseteq Clients /\ (at = "park" => cur \in Clients)
    BY ParkedAreFibers DEF IInv, PlaceInv, LoopTyped, SwitchedOut
  <2> QED
    BY <1>2, <1>3, <2>1 DEF WakeInv, RecvInv, loop
<1>5. At("waiting")' = {} /\ Signals' # {} /\ OnTheWay \subseteq OnTheWay'
  BY <1>2, <1>3, ClientsFinite DEF At, Signals, OnTheWay
<1>6. ASSUME parked' # <<>> PROVE Len(queue') <= Cardinality(OnTheWay')
  <2>1. Len(queue) <= Cardinality(OnTheWay)
    BY <1>2, <1>6 DEF WakeInv, NoLostWakeup
  <2>2. /\ Cardinality(OnTheWay) \in Nat /\ Cardinality(OnTheWay') \in Nat
        /\ Cardinality(OnTheWay) <= Cardinality(OnTheWay')
    <3>1. OnTheWay \subseteq Clients /\ OnTheWay' \subseteq Clients
      BY ClientsFinite DEF OnTheWay, At
    <3> QED
      BY <1>5, <3>1, Bigger
  <2>3. Len(queue') \in Nat /\ Len(queue') <= Len(queue) /\ Len(queue) \in Nat
    BY <1>2, QueueLength
  <2> QED
    BY <2>1, <2>2, <2>3
<1> QED
  BY <1>4, <1>5, <1>6 DEF WakeInv, NoLostWakeup, Signals

\* The one who wakes: the fiber it takes off the list is on its way instead of it.
LEMMA WakeFibersWakeInv ==
  ASSUME IInv, IInv', WakeInv, NEW a \in Clients, WakeFibers(a)
  PROVE  WakeInv'
<1>1. /\ pc[a] \in {"wake", "wakeall", "dwake"} /\ UNCHANGED <<queue, closed, loop>>
      /\ pc \in [Clients -> PC]
  BY DEF WakeFibers, IInv, EndInv
<1>2. PICK l \in {"drain", "dpost", "idle", "post"} : pc' = [pc EXCEPT ![a] = l]
  BY DEF WakeFibers, Goto
<1>3. pc'[a] = l /\ \A x \in Clients \ {a} : pc'[x] = pc[x]
  BY <1>1, <1>2
<1>4. parked \in Seq(Fibers) /\ Range(parked) \subseteq Fibers /\ Len(parked) \in Nat
  BY ParkedAreFibers, LenProperties
<1>5. At("woken")' = At("woken") /\ At("waiting")' = At("waiting")
  BY <1>1, <1>3 DEF At
<1>6. Len(queue) \in Nat /\ Cardinality(At("woken")) \in Nat
  BY QueueLength, Bigger DEF At
<1>7. At("waiting")' # {} => Len(queue') <= Cardinality(At("woken")') /\ ~closed'
  BY <1>1, <1>5 DEF WakeInv, NoLostWakeup
<1>8. at = "park" => cur \in Clients /\ pc[cur] = "recv"
  BY ClientsFinite DEF WakeInv, RecvInv, IInv, PlaceInv, LoopTyped, SwitchedOut
<1>9. CASE pc[a] = "wake" /\ parked # <<>>
  <2> DEFINE g == Head(parked)
  <2>1. parked' = Tail(parked)
    BY <1>4, <1>9, TailIsSubSeq DEF WakeFibers
  <2>2. g \in Fibers /\ Tail(parked) \in Seq(Fibers) /\ g \in Range(parked)
    <3>1. parked[1] = g /\ 1 \in DOMAIN parked
      BY <1>4, <1>9, EmptySeq, LenProperties
    <3> QED
      BY <1>4, <1>9, <3>1, HeadTailProperties DEF Range
  <2>3. \A f \in Fibers : Times(f, parked) = Times(f, Tail(parked)) + In(f, {g})
                          /\ Times(f, Tail(parked)) \in Nat /\ In(f, {g}) \in Nat
    BY <1>4, <1>9, <2>2, TimesTail, SpotsFinite DEF In
  <2> HIDE DEF g
  <2>4. \A f \in Fibers : /\ Times(f, parked) \in Nat /\ Times(f, parked') \in Nat
                          /\ f \in Range(parked') <=> Times(f, parked') >= 1
                          /\ f \in Range(parked) <=> Times(f, parked) >= 1
    BY <1>4, <2>1, <2>2, TimesOfSome, SpotsFinite
  <2>5. Range(parked') \subseteq Range(parked)
    <3>1. Range(parked') \subseteq Fibers
      BY <2>1, <2>2, ElementOfSeq, LenProperties DEF Range
    <3>2. ASSUME NEW f \in Fibers, f \in Range(parked') PROVE f \in Range(parked)
      <4>1. Times(f, parked') >= 1 /\ Times(f, parked) = Times(f, parked') + In(f, {g})
            /\ In(f, {g}) \in Nat /\ Times(f, parked') \in Nat
        BY <2>1, <2>3, <2>4, <3>2
      <4>2. Times(f, parked) >= 1
        BY <4>1
      <4> QED
        BY <2>4, <4>2
    <3> QED
      BY <3>1, <3>2
  <2>6. g \notin Range(parked')
    <3>1. Times(g, parked) = 1
      BY <2>2, ParkedAreFibers
    <3>2. Times(g, parked) = Times(g, parked') + 1 /\ Times(g, parked') \in Nat
      BY <2>1, <2>2, <2>3 DEF In
    <3>3. Times(g, parked') = 0
      BY <3>1, <3>2
    <3> QED
      BY <2>2, <2>4, <3>3
  <2>7. pc[g] = "recv" /\ g # a /\ pc'[g] = "recv"
    <3>1. pc[g] = "recv"
      BY <2>2 DEF WakeInv, RecvInv
    <3> QED
      BY <1>3, <1>9, <2>2, <3>1, ClientsFinite
  <2>8. RecvInv'
    <3>1. \A f \in Range(parked') : pc'[f] = "recv"
      BY <1>3, <1>4, <1>9, <2>5, ClientsFinite DEF WakeInv, RecvInv
    <3> QED
      BY <1>1, <1>3, <1>8, <3>1 DEF RecvInv, loop
  <2>9. g \notin OnTheWay /\ (OnTheWay \ {a}) \cup {g} \subseteq OnTheWay' /\ Signals \subseteq Signals'
    <3>1. g \notin OnTheWay
      BY <2>2, <2>7 DEF OnTheWay, At
    <3>2. \A x \in OnTheWay \ {a} : x \in OnTheWay'
      BY <1>3, <2>5, ClientsFinite DEF OnTheWay, At
    <3>3. g \in OnTheWay'
      BY <2>2, <2>6, <2>7 DEF OnTheWay
    <3>4. Signals \subseteq Signals'
      BY <1>3, <1>9 DEF Signals, At
    <3> QED
      BY <3>1, <3>2, <3>3, <3>4
  <2>10. Cardinality(OnTheWay) <= Cardinality(OnTheWay') /\ Cardinality(OnTheWay) \in Nat
         /\ Cardinality(OnTheWay') \in Nat
    <3>1. OnTheWay \subseteq Clients /\ OnTheWay' \subseteq Clients
      BY ClientsFinite DEF OnTheWay, At
    <3> QED
      BY <2>9, <3>1, Bigger
  <2>11. Len(queue') <= Cardinality(OnTheWay') /\ (closed' => Signals' # {})
    <3>1. Len(queue) <= Cardinality(OnTheWay) /\ (closed => Signals # {})
      BY <1>9 DEF WakeInv, NoLostWakeup, Signals
    <3>2. Len(queue) <= Cardinality(OnTheWay')
      BY <1>6, <2>10, <3>1
    <3>3. closed => Signals' # {}
      BY <2>9, <3>1
    <3> QED
      BY <1>1, <3>2, <3>3
  <2> QED
    BY <1>7, <2>8, <2>11 DEF WakeInv, NoLostWakeup, Signals
<1>10. CASE ~(pc[a] = "wake" /\ parked # <<>>)
  <2>1. parked' = <<>>
    <3>1. parked' = SubSeq(parked, Len(parked) + 1, Len(parked))
      BY <1>10 DEF WakeFibers
    <3> QED
      BY <1>4, <3>1, SubSeqEmpty
  <2>2. RecvInv'
    BY <1>1, <1>3, <1>8, <2>1 DEF RecvInv, Range, loop
  <2> QED
    BY <1>7, <2>1, <2>2 DEF WakeInv, NoLostWakeup
<1> QED
  BY <1>9, <1>10

LEMMA FinalizeParkWakeInv ==
  ASSUME IInv, IInv', WakeInv, FinalizePark
  PROVE  WakeInv'
<1>1. /\ at = "park" /\ at' = "pipe" /\ UNCHANGED <<queue, closed>> /\ cur \in Clients
      /\ SignalDrained(inflight = 1, pc) /\ parked \in Seq(Fibers)
  BY ClientsFinite, ParkedAreFibers
     DEF FinalizePark, Top, DrainOrder, IInv, PlaceInv, LoopTyped, SwitchedOut
<1>2. \A x \in Clients : pc'[x] = pc[x] \/ (pc[x] = "dwait" /\ pc'[x] = "dwake")
  BY <1>1 DEF SignalDrained, Moved
<1>3. CASE Parks
  <2>1. parked' = <<cur>> \o parked /\ queue' = <<>> /\ ~closed'
    BY <1>1, <1>3 DEF FinalizePark, Parks, MustWait
  <2>2. Range(parked') \subseteq Range(parked) \cup {cur}
    BY <1>1, <2>1, ConcatProperties, LenProperties DEF Range
  <2>3. \A f \in Range(parked) \cup {cur} : f \in Clients /\ pc[f] = "recv"
    BY <1>1, ParkedAreFibers DEF WakeInv, RecvInv
  <2>4. RecvInv'
    <3>1. \A f \in Range(parked') : pc'[f] = "recv"
      BY <1>2, <2>2, <2>3
    <3> QED
      BY <1>1, <3>1 DEF RecvInv
  <2> QED
    BY <2>1, <2>4, EmptyWakeInv
<1>4. CASE ~Parks
  <2>1. UNCHANGED parked
    BY <1>4 DEF FinalizePark
  <2> QED
    BY <1>1, <1>2, <2>1, QueueLength, SteadyWakeInv DEF Steady
<1> QED
  BY <1>3, <1>4

\* Everything else leaves items and clients on their way alone.
LEMMA OtherWakeInv ==
  ASSUME IInv, IInv', WakeInv,
         \/ \E a \in Clients : TryReceive(a) \/ Post(a) \/ Ping(a) \/ Drain(a) \/ SpuriousWakeup(a)
         \/ \E f \in Fibers : SwitchOut(f) \/ Finish(f) \/ Join(f) \/ DescriptorReady(f) \/ Expire(f)
         \/ \E a \in Clients, f \in Fibers : Spawn(a, f)
         \/ AnchorStep \/ Nap \/ NapIsOver \/ AnchorDeadline
         \/ EmptyPipe \/ EmptyInbox \/ BackToJoin \/ Pick \/ Idle \/ EpollReturns \/ FinalizeOther
         \/ UNCHANGED vars
  PROVE  WakeInv'
<1>0. pc \in [Clients -> PC] /\ Anchor \in Clients /\ Fibers \subseteq Clients
  BY ClientsFinite DEF IInv, EndInv
<1>1. UNCHANGED <<parked, closed>>
  BY DEF TryReceive, Post, Ping, Drain, SpuriousWakeup, SwitchOut, Finish, Join, DescriptorReady, Expire,
         Spawn, AnchorStep, Adopt, PollTurn, Nap, NapIsOver, AnchorDeadline, EmptyPipe, EmptyInbox,
         BackToJoin, Pick, Idle, EpollReturns, FinalizeOther, vars, channel
<1>2. Len(queue') \in Nat /\ Len(queue') <= Len(queue)
  <2>1. CASE \E a \in Clients : TryReceive(a)
    BY <2>1, Shrinks DEF TryReceive
  <2>2. CASE UNCHANGED queue
    BY <2>2, QueueLength
  <2> QED
    BY <2>1, <2>2 DEF Post, Ping, Drain, SpuriousWakeup, SwitchOut, Finish, Join, DescriptorReady, Expire,
         Spawn, AnchorStep, Adopt, PollTurn, Nap, NapIsOver, AnchorDeadline, EmptyPipe, EmptyInbox,
         BackToJoin, Pick, Idle, EpollReturns, FinalizeOther, vars, channel
<1>3. at' = "park" => at = "park" /\ cur' = cur
  BY DEF TryReceive, Post, Ping, Drain, SpuriousWakeup, SwitchOut, Finish, Join, DescriptorReady, Expire,
         Spawn, AnchorStep, Adopt, PollTurn, Nap, NapIsOver, AnchorDeadline, EmptyPipe, EmptyInbox,
         BackToJoin, Pick, Idle, EpollReturns, FinalizeOther, vars, loop, AfterDraining, Top, DrainOrder
<1>4. \/ UNCHANGED pc
      \/ \E x \in Clients, l \in PC \ {"waiting"} :
           /\ pc' = [pc EXCEPT ![x] = l]
           /\ pc[x] \notin {"recv", "wake", "woken", "wakeall", "dwake"}
  <2>1. CASE \E a \in Clients : TryReceive(a) \/ Post(a) \/ Ping(a) \/ Drain(a) \/ SpuriousWakeup(a)
    <3>1. PICK a \in Clients : TryReceive(a) \/ Post(a) \/ Ping(a) \/ Drain(a) \/ SpuriousWakeup(a)
      BY <2>1
    <3>2. CASE TryReceive(a)
      BY <3>2 DEF TryReceive
    <3>3. CASE Post(a) \/ Ping(a) \/ Drain(a) \/ SpuriousWakeup(a)
      <4>1. /\ pc[a] \in {"post", "dpost", "ping", "dping", "drain", "waiting"}
            /\ \E l \in {"drain", "dpost", "dping", "idle", "post", "ping", "dwait", "woken"} :
                 pc' = [pc EXCEPT ![a] = l]
        BY <3>3 DEF Post, Ping, Drain, SpuriousWakeup, Goto, AfterPost
      <4> QED
        BY <4>1 DEF PC
    <3> QED
      BY <3>1, <3>2, <3>3
  <2>2. CASE \E f \in Fibers : SwitchOut(f) \/ Finish(f) \/ Join(f) \/ DescriptorReady(f) \/ Expire(f)
    <3>1. PICK f \in Fibers : SwitchOut(f) \/ Finish(f) \/ Join(f) \/ DescriptorReady(f) \/ Expire(f)
      BY <2>2
    <3>2. CASE Finish(f)
      BY <1>0, <3>2 DEF Finish, Goto, PC
    <3>3. CASE Join(f)
      <4>1. /\ pc[Anchor] = "idle"
            /\ UNCHANGED pc \/ \E l \in {"jwait", "poll"} : pc' = [pc EXCEPT ![Anchor] = l]
        BY <3>3 DEF Join, Begins, Goto
      <4> QED
        BY <1>0, <4>1 DEF PC
    <3>4. CASE SwitchOut(f) \/ DescriptorReady(f) \/ Expire(f)
      BY <3>4 DEF SwitchOut, DescriptorReady, Expire
    <3> QED
      BY <3>1, <3>2, <3>3, <3>4
  <2>3. CASE \E a \in Clients, f \in Fibers : Spawn(a, f)
    BY <1>0, <2>3 DEF Spawn, Goto, PC
  <2>4. CASE AnchorStep \/ Nap \/ NapIsOver \/ AnchorDeadline
    <3>1. \/ UNCHANGED pc
          \/ /\ pc[Anchor] \in {"idle", "poll", "nap"}
             /\ \E l \in {"idle", "nap"} : pc' = [pc EXCEPT ![Anchor] = l]
      BY <2>4 DEF AnchorStep, Adopt, PollTurn, Nap, NapIsOver, AnchorDeadline, Begins, GoesOn, Goto
    <3> QED
      BY <1>0, <3>1 DEF PC
  <2>5. CASE \/ EmptyPipe \/ EmptyInbox \/ BackToJoin \/ Pick \/ Idle \/ EpollReturns \/ FinalizeOther
             \/ UNCHANGED vars
    BY <2>5 DEF EmptyPipe, EmptyInbox, BackToJoin, Pick, Idle, EpollReturns, FinalizeOther, vars
  <2> QED
    BY <2>1, <2>2, <2>3, <2>4, <2>5
<1>5. \A x \in Clients : /\ pc[x] \in {"recv", "wake", "woken", "wakeall", "dwake"} => pc'[x] = pc[x]
                         /\ pc'[x] = "waiting" => pc[x] = "waiting"
  BY <1>0, <1>4
<1> QED
  BY <1>1, <1>2, <1>3, <1>5, SteadyWakeInv DEF Steady

LEMMA InitWakeInv == Init => WakeInv
BY EmptySeq DEF Init, WakeInv, RecvInv, NoLostWakeup, At, Range

LEMMA NextWakeInv == IInv /\ WakeInv /\ [Next]_vars => WakeInv'
<1> SUFFICES ASSUME IInv, WakeInv, [Next]_vars PROVE WakeInv'
  OBVIOUS
<1>0. IInv'
  BY NextIInv
<1>1. ASSUME NEW a \in Clients, Calls(a) \/ Step(a) \/ SpuriousWakeup(a) PROVE WakeInv'
  <2>1. CASE Send(a) \/ Receive(a) \/ Close(a) \/ Destroy(a) \/ WakeFibers(a)
    BY <1>0, <2>1, SendWakeInv, ReceiveWakeInv, CloseWakeInv, WakeFibersWakeInv
  <2>2. CASE ParkFiber(a) \/ WaitOutside(a)
    <3>1. MustWait
      BY <2>2 DEF ParkFiber, WaitOutside
    <3> QED
      BY <1>0, <2>2, <3>1, WaitsWakeInv
  <2>3. CASE Block(a) \/ Wakes(a)
    BY <1>0, <2>3, WaitsWakeInv, WakesWakeInv
  <2>4. CASE TryReceive(a) \/ Post(a) \/ Ping(a) \/ Drain(a) \/ SpuriousWakeup(a)
    BY <1>0, <2>4, OtherWakeInv
  <2> QED
    BY <1>1, <2>1, <2>2, <2>3, <2>4 DEF Calls, Step
<1>2. ASSUME NEW f \in Fibers, FiberCalls(f) \/ Join(f) \/ DescriptorReady(f) PROVE WakeInv'
  <2>1. CASE ParkFiber(f)
    <3>1. MustWait /\ f \in Clients
      BY <2>1, ClientsFinite DEF ParkFiber
    <3> QED
      BY <1>0, <2>1, <3>1, WaitsWakeInv
  <2>2. CASE SwitchOut(f) \/ Finish(f) \/ Join(f) \/ DescriptorReady(f)
    BY <1>0, <2>2, OtherWakeInv
  <2> QED
    BY <1>2, <2>1, <2>2 DEF FiberCalls
<1>3. CASE \/ \E a \in Clients, f \in Fibers : Spawn(a, f)
           \/ AnchorStep \/ Nap \/ NapIsOver \/ AnchorDeadline \/ UNCHANGED vars
  BY <1>0, <1>3, OtherWakeInv
<1>4. CASE Loop
  <2>1. CASE FinalizePark
    BY <1>0, <2>1, FinalizeParkWakeInv
  <2>2. CASE ~FinalizePark
    BY <1>0, <1>4, <2>2, OtherWakeInv DEF Loop
  <2> QED
    BY <2>1, <2>2
<1> QED
  BY <1>1, <1>2, <1>3, <1>4 DEF Next

\* Send wakes one thread and one fiber per item, and either may find it gone; still, as
\* long as a fiber is parked there are at least as many wakes and woken fibers on their
\* way as there are items, and as many woken threads as long as a thread waits; and
\* nobody is left waiting for a channel that is closed.
THEOREM ChannelNoLostWakeup == Spec => []NoLostWakeup
<1>1. IInv /\ WakeInv /\ [Next]_vars => (IInv /\ WakeInv)'
  BY NextIInv, NextWakeInv
<1>2. WakeInv => NoLostWakeup
  BY DEF WakeInv
<1> QED
  BY <1>1, <1>2, InitIInv, InitWakeInv, PTL DEF Spec

-----------------------------------------------------------------------------
(***************************************************************************)
(* Sleeping and being woken: the home in epoll_wait, destroy on drained_cv.*)
(***************************************************************************)
Pinging == {"ping", "dping"}
Emptied == {"dpost", "dping", "drain", "dwait"}

\* Who leaves the places that matter, and who gets there.
Keeps(x) ==
  /\ pc[x] \in Pinging => pc'[x] = pc[x] \/ Ping(x)
  /\ pc[x] = "woken" => pc'[x] = "woken" \/ Wakes(x)
  /\ pc'[x] = "dwait" => pc[x] = "dwait" \/ Drain(x)
  /\ pc'[x] \in Emptied => pc[x] \in Emptied \/ WakeFibers(x)

LEMMA OneSteps ==
  ASSUME EndInv, NEW a \in Clients, NEW l \in PC, pc' = [pc EXCEPT ![a] = l],
         pc[a] \in Pinging => Ping(a), pc[a] = "woken" => Wakes(a), l = "dwait" => Drain(a),
         l \in Emptied => pc[a] \in Emptied \/ WakeFibers(a)
  PROVE  \A x \in Clients : Keeps(x)
BY DEF EndInv, Keeps

LEMMA SignalSteps ==
  ASSUME EndInv, NEW a \in Clients, NEW l \in PC, NEW c, SignalDrained(c, [pc EXCEPT ![a] = l]),
         pc[a] \notin Pinging, pc[a] = "woken" => Wakes(a), l \notin Emptied
  PROVE  \A x \in Clients : Keeps(x)
<1> DEFINE p == [pc EXCEPT ![a] = l]
<1>1. p \in [Clients -> PC] /\ p[a] = l /\ \A x \in Clients \ {a} : p[x] = pc[x]
  BY DEF EndInv
<1>2. \A x \in Clients : pc'[x] = p[x] \/ (p[x] = "dwait" /\ pc'[x] = "dwake")
  <2> HIDE DEF p
  <2> QED
    BY <1>1, DrainSignalled DEF p
<1> HIDE DEF p
<1> QED
  BY <1>1, <1>2 DEF Keeps, Pinging, Emptied

LEMMA MovedSteps ==
  ASSUME EndInv, NEW a \in Clients, NEW l \in PC, pc' = Moved([pc EXCEPT ![a] = l], "waiting", "woken"),
         pc[a] = "idle", l \notin Emptied
  PROVE  \A x \in Clients : Keeps(x)
<1>1. \A x \in Clients : pc'[x] = IF x = a THEN (IF l = "waiting" THEN "woken" ELSE l)
                                  ELSE IF pc[x] = "waiting" THEN "woken" ELSE pc[x]
  BY DEF Moved, EndInv
<1> QED
  BY <1>1 DEF Keeps, Pinging, Emptied

LEMMA NextSteady ==
  ASSUME IInv, [Next]_vars
  PROVE  \A x \in Clients : Keeps(x)
<1>0. EndInv /\ Anchor \in Clients /\ Fibers \subseteq Clients
  BY ClientsFinite DEF IInv
<1> USE DEF PC, Pinging, Emptied, Begins, GoesOn, Goto
<1>1. ASSUME NEW a \in Clients, Calls(a) \/ Step(a) \/ SpuriousWakeup(a)
      PROVE  \A x \in Clients : Keeps(x)
  <2>1. CASE Send(a)
    <3>1. CASE closed
      BY <2>1, <3>1 DEF Send, Keeps
    <3>2. CASE ~closed
      <4>1. pc[a] = "idle" /\ SignalOne([pc EXCEPT ![a] = "wake"]) /\ "wake" \in PC
        BY <2>1, <3>2 DEF Send
      <4>2. pc'[a] = "wake" /\ \A x \in Clients \ {a} : pc'[x] = pc[x] \/ (pc[x] = "waiting" /\ pc'[x] = "woken")
        BY <1>0, <4>1, Signalled DEF Waits
      <4> QED
        BY <4>1, <4>2 DEF Keeps
    <3> QED
      BY <3>1, <3>2
  <2>2. CASE Close(a) \/ Destroy(a)
    <3>1. pc[a] = "idle" /\ \E l \in {"wakeall", "dwake"} : pc' = Moved([pc EXCEPT ![a] = l], "waiting", "woken")
      BY <2>2 DEF Close, Destroy
    <3> QED
      BY <1>0, <3>1, MovedSteps
  <2>3. CASE Block(a)
    <3>1. pc[a] = "block"
      BY <2>3 DEF Block
    <3>2. pc' = [pc EXCEPT ![a] = "waiting"] \/ SignalDrained(waiters = 0, [pc EXCEPT ![a] = "idle"])
      BY <2>3 DEF Block
    <3> QED
      BY <1>0, <3>1, <3>2, OneSteps, SignalSteps
  <2>4. CASE Wakes(a)
    <3>1. pc[a] = "woken"
      BY <2>4 DEF Wakes
    <3>2. pc' = [pc EXCEPT ![a] = "waiting"] \/ SignalDrained(waiters = 1, [pc EXCEPT ![a] = "idle"])
      BY <2>4 DEF Wakes
    <3> QED
      BY <1>0, <2>4, <3>1, <3>2, OneSteps, SignalSteps
  <2>5. CASE Drain(a)
    <3>1. pc[a] = "drain" /\ \E l \in {"idle", "dwait"} : pc' = [pc EXCEPT ![a] = l]
      BY <2>5 DEF Drain
    <3> QED
      BY <1>0, <2>5, <3>1, OneSteps
  <2>6. CASE WakeFibers(a)
    <3>1. /\ pc[a] \in {"wake", "wakeall", "dwake"}
          /\ \E l \in {"drain", "dpost", "idle", "post"} : pc' = [pc EXCEPT ![a] = l]
      BY <2>6 DEF WakeFibers
    <3> QED
      BY <1>0, <2>6, <3>1, OneSteps
  <2>7. CASE Post(a) \/ Ping(a)
    <3>1. PICK l \in {"drain", "dpost", "dping", "idle", "post", "ping"} :
            /\ pc' = [pc EXCEPT ![a] = l]
            /\ pc[a] \in {"dpost", "dping"} <=> l \in {"drain", "dpost", "dping"}
      BY <2>7 DEF Post, Ping, AfterPost
    <3>2. pc[a] \in {"post", "dpost", "ping", "dping"} /\ (pc[a] \in Pinging => Ping(a))
      BY <2>7 DEF Post, Ping
    <3> QED
      BY <1>0, <3>1, <3>2, OneSteps
  <2>8. CASE Receive(a) \/ WaitOutside(a) \/ ParkFiber(a) \/ TryReceive(a) \/ SpuriousWakeup(a)
    <3>1. \/ UNCHANGED pc
          \/ /\ pc[a] \in {"idle", "recv", "waiting"}
             /\ \E l \in {"idle", "recv", "block", "woken"} : pc' = [pc EXCEPT ![a] = l]
      BY <2>8 DEF Receive, WaitOutside, ParkFiber, TryReceive, SpuriousWakeup
    <3>2. CASE UNCHANGED pc
      BY <3>2 DEF Keeps
    <3> QED
      BY <1>0, <3>1, <3>2, OneSteps
  <2> QED
    BY <1>1, <2>1, <2>2, <2>3, <2>4, <2>5, <2>6, <2>7, <2>8 DEF Calls, Step
<1>2. CASE \/ \E f \in Fibers : FiberCalls(f) \/ Join(f) \/ DescriptorReady(f) \/ Expire(f)
           \/ \E a \in Clients, f \in Fibers : Spawn(a, f)
           \/ AnchorStep \/ Nap \/ NapIsOver \/ AnchorDeadline
           \/ EmptyPipe \/ EmptyInbox \/ BackToJoin \/ Pick \/ Idle \/ EpollReturns \/ FinalizeOther
           \/ UNCHANGED vars
  <2>1. \/ UNCHANGED pc
        \/ \E x \in Clients : /\ pc[x] \in {"unborn", "idle", "poll", "nap", "recv"}
                              /\ \E l \in {"idle", "recv", "done", "jwait", "poll", "nap"} :
                                   pc' = [pc EXCEPT ![x] = l]
    BY <1>0, <1>2 DEF FiberCalls, ParkFiber, SwitchOut, Finish, Join, DescriptorReady, Expire, Spawn,
       AnchorStep, Adopt, PollTurn, Nap, NapIsOver, AnchorDeadline, EmptyPipe, EmptyInbox, BackToJoin,
       Pick, Idle, EpollReturns, FinalizeOther, vars
  <2>2. CASE UNCHANGED pc
    BY <2>2 DEF Keeps
  <2> QED
    BY <1>0, <2>1, <2>2, OneSteps
<1>3. CASE FinalizePark
  <2>1. SignalDrained(inflight = 1, pc) /\ pc \in [Clients -> PC]
    BY <1>0, <1>3 DEF FinalizePark, EndInv
  <2>2. \A x \in Clients : pc'[x] = pc[x] \/ (pc[x] = "dwait" /\ pc'[x] = "dwake")
    BY <2>1, DrainSignalled
  <2> QED
    BY <2>2 DEF Keeps
<1> QED
  BY <1>1, <1>2, <1>3 DEF Next, Loop

\* Of most steps the home and its inbox notice nothing.
Unheard ==
  /\ UNCHANGED <<inbox, pipe>>
  /\ at = "inbox" => at' = "inbox"
  /\ at' = "epoll" => at = "epoll" /\ UNCHANGED <<ring, global, onfd>>
  /\ \A x \in Clients : pc[x] \in Pinging => pc'[x] = pc[x]

LEMMA UnheardHears == HomeHearsWakes /\ Unheard => HomeHearsWakes'
BY DEF HomeHearsWakes, Unheard, Pinging, At

LEMMA PostHears ==
  ASSUME IInv, HomeHearsWakes, NEW a \in Clients, Post(a) \/ Ping(a), \A x \in Clients : Keeps(x)
  PROVE  HomeHearsWakes'
<1> USE DEF Pinging
<1>1. UNCHANGED <<at, onfd>>
  BY DEF Post, Ping, loop
<1>2. CASE Ping(a)
  <2>1. pipe' = TRUE /\ UNCHANGED <<ring, global, inbox>>
    BY <1>2 DEF Ping
  <2> QED
    BY <1>1, <2>1 DEF HomeHearsWakes
<1>3. CASE Post(a) /\ Local(a)
  <2>1. at = "on" /\ UNCHANGED <<inbox, pipe>>
    BY <1>3, ClientsAssumption DEF Post, Runs, Local
  <2>2. pc[a] \notin Pinging
    BY <1>3 DEF Post
  <2>3. \A x \in Clients : pc[x] \in Pinging => pc'[x] = pc[x]
    <3>1. \A x \in Clients \ {a} : pc'[x] = pc[x]
      BY <1>3 DEF IInv, EndInv, Post, Goto
    <3> QED
      BY <2>2, <3>1
  <2> QED
    BY <1>1, <2>1, <2>3, UnheardHears DEF Unheard
<1>4. CASE Post(a) /\ ~Local(a)
  <2>1. UNCHANGED <<ring, global>> /\ \E l \in Pinging : pc' = [pc EXCEPT ![a] = l]
    BY <1>4 DEF Post, Goto
  <2>2. pc'[a] \in Pinging
    BY <2>1 DEF IInv, EndInv
  <2>3. At("ping")' \cup At("dping")' # {}
    BY <2>2 DEF At
  <2> QED
    BY <1>1, <2>1, <2>3 DEF HomeHearsWakes
<1> QED
  BY <1>2, <1>3, <1>4

LEMMA NextHears == IInv /\ HomeHearsWakes /\ [Next]_vars => HomeHearsWakes'
<1> SUFFICES ASSUME IInv, HomeHearsWakes, [Next]_vars PROVE HomeHearsWakes'
  OBVIOUS
<1>0. /\ \A x \in Clients : Keeps(x)
      /\ Threads \cap (Fibers \cup {Anchor}) = {}
  BY NextSteady, ClientsAssumption
<1>1. CASE \E a \in Clients : Post(a) \/ Ping(a)
  BY <1>0, <1>1, PostHears
<1>2. CASE ~\E a \in Clients : Post(a) \/ Ping(a)
  <2>1. \A x \in Clients : pc[x] \in Pinging => pc'[x] = pc[x]
    BY <1>0, <1>2 DEF Keeps
  <2>2. ASSUME NEW a \in Clients, Calls(a) \/ Step(a) \/ SpuriousWakeup(a) PROVE Unheard
    <3>1. /\ UNCHANGED <<ring, global, inbox, pipe, onfd>>
          /\ UNCHANGED at \/ (at = "on" /\ at' \in {"park", "pipe"})
      BY <1>0, <1>2, <2>2 DEF Calls, Step, Send, Receive, ParkFiber, WaitOutside, TryReceive, Close,
         Destroy, Block, Wakes, WakeFibers, Drain, SpuriousWakeup, queues, loop, Runs, Top, DrainOrder
    <3> QED
      BY <2>1, <3>1 DEF Unheard
  <2>3. CASE \E f \in Fibers : FiberCalls(f) \/ Join(f) \/ DescriptorReady(f)
    <3>1. /\ UNCHANGED <<inbox, pipe>> /\ at \in {"on", "epoll"}
          /\ at' # "epoll" \/ (at = at' /\ UNCHANGED <<ring, global, onfd>>)
      BY <1>0, <2>3 DEF FiberCalls, ParkFiber, SwitchOut, Finish, Join, DescriptorReady, queues, Runs,
         Top, DrainOrder
    <3> QED
      BY <2>1, <3>1, UnheardHears DEF Unheard
  <2>4. CASE \E a \in Clients, f \in Fibers : Spawn(a, f)
    <3>1. UNCHANGED <<inbox, pipe, at, onfd>> /\ (UNCHANGED <<ring, global>> \/ at = "on")
      BY <1>0, <2>4 DEF Spawn, Local, Runs, loop
    <3> QED
      BY <2>1, <3>1, UnheardHears DEF Unheard
  <2>5. CASE AnchorStep \/ Nap \/ NapIsOver \/ AnchorDeadline
    <3>1. UNCHANGED <<inbox, pipe>> /\ at \in {"on", "epoll", "pick"} /\ at' \in {"on", "pipe"}
      BY <1>0, <2>5 DEF AnchorStep, Adopt, PollTurn, Nap, NapIsOver, AnchorDeadline, NothingReady, queues,
         loop, Runs, Top, DrainOrder
    <3> QED
      BY <2>1, <3>1, UnheardHears DEF Unheard
  <2>6. CASE BackToJoin \/ Pick \/ EpollReturns \/ FinalizePark \/ FinalizeOther
             \/ \E f \in Fibers : Expire(f)
    <3>1. UNCHANGED <<inbox, pipe>> /\ at # "inbox" /\ at' # "epoll"
      BY <2>6 DEF BackToJoin, Pick, EpollReturns, FinalizePark, FinalizeOther, Expire, queues, loop, Top,
         DrainOrder
    <3> QED
      BY <2>1, <3>1, UnheardHears DEF Unheard
  <2>7. CASE Idle
    <3>1. UNCHANGED <<inbox, pipe, ring, global, onfd>> /\ at = "pick" /\ ring = <<>> /\ global = <<>>
      BY <2>7 DEF Idle, NothingReady, PickFrom, queues
    <3>2. at' = "epoll" => onfd # {}
      BY <2>7 DEF Idle, Top, DrainOrder
    <3>3. inbox # <<>> => pipe \/ At("ping")' \cup At("dping")' # {}
      BY <2>1, <3>1 DEF HomeHearsWakes, At, Pinging
    <3> QED
      BY <3>1, <3>2, <3>3 DEF HomeHearsWakes
  <2>8. CASE EmptyPipe \/ EmptyInbox
    BY <2>8 DEF EmptyPipe, EmptyInbox, HomeHearsWakes, AfterDraining, DrainOrder
  <2>9. CASE UNCHANGED vars
    BY <2>1, <2>9, UnheardHears DEF vars, queues, loop, Unheard
  <2> QED
    BY <2>2, <2>3, <2>4, <2>5, <2>6, <2>7, <2>8, <2>9, UnheardHears DEF Next, Loop
<1> QED
  BY <1>1, <1>2

\* Once destroy has emptied the list of fibers nobody is put on it, and once it has
\* freed the channel nobody is being parked; whoever it waits for will signal it.
TellInv ==
  /\ \A x \in Clients : pc[x] \in Emptied => parked = <<>>
  /\ freed => parked = <<>> /\ at # "park"
  /\ DestroyerIsTold

LEMMA StaysEmpty ==
  ASSUME IInv, [Next]_vars, Destroying, parked = <<>>
  PROVE  parked' = <<>>
<1>1. closed /\ ~MustWait
  BY DEF IInv, EndInv, MustWait
<1>2. ASSUME NEW a \in Clients, WakeFibers(a) PROVE parked' = <<>>
  BY <1>2 DEF WakeFibers
<1> QED
  BY <1>1, <1>2 DEF Next, Calls, Step, FiberCalls, Loop, Send, Receive, ParkFiber, WaitOutside, TryReceive,
     Close, Destroy, Block, Wakes, Post, Ping, Drain, SpuriousWakeup, SwitchOut, Finish, Join,
     DescriptorReady, Expire, Spawn, AnchorStep, Adopt, PollTurn, Nap, NapIsOver, AnchorDeadline, EmptyPipe,
     EmptyInbox, BackToJoin, Pick, Idle, EpollReturns, FinalizePark, FinalizeOther, Parks, vars, channel

\* While a client destroys, those in the condition wait have been woken.
LEMMA NoneWaits ==
  ASSUME IInv, WakeInv, Destroying
  PROVE  At("waiting") = {} /\ Waiting = At("woken")
<1>1. closed
  BY DEF IInv, EndInv
<1>2. At("waiting") = {}
  BY <1>1 DEF WakeInv, NoLostWakeup
<1> QED
  BY <1>2 DEF Waiting

\* The last of them signals destroy, and so does the fiber that is being parked.
LEMMA WakesTells ==
  ASSUME IInv, WakeInv, NEW d \in Clients, pc[d] = "dwait", pc'[d] = "dwait",
         NEW x \in Clients, Wakes(x)
  PROVE  \E y \in Clients : pc'[y] = "woken"
<1>1. Destroying /\ ~MustWait
  <2>1. Destroying
    BY DEF Destroying
  <2> QED
    BY <2>1 DEF IInv, EndInv, MustWait
<1>2. SignalDrained(waiters = 1, [pc EXCEPT ![x] = "idle"]) /\ pc[x] = "woken"
  BY <1>1 DEF Wakes, WaitsAgain
<1> DEFINE p == [pc EXCEPT ![x] = "idle"]
<1>3. p \in [Clients -> PC] /\ p[x] = "idle" /\ \A y \in Clients \ {x} : p[y] = pc[y]
  BY DEF IInv, EndInv, PC
<1>4. waiters # 1 /\ \A y \in Clients : pc'[y] = p[y] \/ p[y] = "dwait"
  <2>1. d # x
    BY <1>2
  <2>2. SignalDrained(waiters = 1, p)
    BY <1>2
  <2> HIDE DEF p
  <2>3. p[d] = "dwait"
    BY <1>3, <2>1
  <2>4. waiters # 1
    BY <1>3, <2>2, <2>3 DEF SignalDrained, Moved
  <2>5. pc' = p
    BY <2>2, <2>4 DEF SignalDrained
  <2> QED
    BY <2>4, <2>5
<1>5. x \in Waiting /\ waiters = Cardinality(Waiting)
  BY <1>2 DEF Waiting, At, IInv, EndInv
<1>6. Waiting # {x}
  BY <1>4, <1>5, FS_Singleton
<1>7. PICK y \in Waiting : y # x
  BY <1>5, <1>6
<1>8. y \in Clients /\ pc[y] = "woken"
  BY <1>1, <1>7, NoneWaits DEF At
<1> HIDE DEF p
<1> QED
  BY <1>3, <1>4, <1>7, <1>8

LEMMA ParkTells ==
  ASSUME IInv, [Next]_vars, at = "park", NEW d \in Clients, pc[d] = "dwait", pc'[d] = "dwait"
  PROVE  at' = "park"
<1>1. ~FinalizePark
  <2> SUFFICES ASSUME FinalizePark PROVE FALSE
    OBVIOUS
  <2>1. SignalDrained(TRUE, pc)
    BY DEF FinalizePark, IInv, CountersTyped
  <2>2. pc'[d] = "dwake"
    BY <2>1 DEF SignalDrained, Moved
  <2> QED
    BY <2>2
<1>2. UNCHANGED at \/ at # "park"
  BY <1>1, ClientsAssumption DEF Next, Calls, Step, FiberCalls, Loop, Send, Receive, ParkFiber, WaitOutside,
     TryReceive, Close, Destroy, Block, Wakes, WakeFibers, Post, Ping, Drain, SpuriousWakeup, SwitchOut,
     Finish, Join, DescriptorReady, Expire, Spawn, AnchorStep, Adopt, PollTurn, Nap, NapIsOver,
     AnchorDeadline, NothingReady, EmptyPipe, EmptyInbox, BackToJoin, Pick, Idle, EpollReturns, FinalizeOther,
     vars, loop, Runs
<1> QED
  BY <1>2

\* No fiber parks at a closed channel, and only the end of destroy frees it.
LEMMA NoneParks ==
  ASSUME IInv, [Next]_vars, Destroying, at # "park"
  PROVE  at' # "park"
<1>1. closed /\ ~MustWait
  BY DEF IInv, EndInv, MustWait
<1> QED
  BY <1>1 DEF Next, Calls, Step, FiberCalls, Loop, Send, Receive, ParkFiber, WaitOutside, TryReceive,
     Close, Destroy, Block, Wakes, WakeFibers, Post, Ping, Drain, SpuriousWakeup, SwitchOut, Finish, Join,
     DescriptorReady, Expire, Spawn, AnchorStep, Adopt, PollTurn, Nap, NapIsOver, AnchorDeadline, EmptyPipe,
     EmptyInbox, BackToJoin, Pick, Idle, EpollReturns, FinalizePark, FinalizeOther, Top, DrainOrder,
     AfterDraining, vars, loop

LEMMA OnlyDrainFrees ==
  ASSUME [Next]_vars, freed' # freed
  PROVE  \E x \in Clients : Drain(x)
BY DEF Next, Calls, Step, FiberCalls, Loop, Send, Receive, ParkFiber, WaitOutside, TryReceive,
     Close, Destroy, Block, Wakes, WakeFibers, Post, Ping, SpuriousWakeup, SwitchOut, Finish, Join,
     DescriptorReady, Expire, Spawn, AnchorStep, Adopt, PollTurn, Nap, NapIsOver, AnchorDeadline, EmptyPipe,
     EmptyInbox, BackToJoin, Pick, Idle, EpollReturns, FinalizePark, FinalizeOther, vars, channel

LEMMA NextTellInv == IInv /\ WakeInv /\ TellInv /\ [Next]_vars => TellInv'
<1> SUFFICES ASSUME IInv, WakeInv, TellInv, [Next]_vars PROVE TellInv'
  OBVIOUS
<1>0. /\ EndInv /\ pc \in [Clients -> PC] /\ \A x \in Clients : Keeps(x)
      /\ inflight = (IF at = "park" THEN 1 ELSE 0)
  BY NextSteady DEF IInv, EndInv, CountersTyped
<1>1. ASSUME NEW x \in Clients, pc'[x] \in Emptied PROVE parked' = <<>>
  <2>1. CASE pc[x] \in Emptied
    <3>1. Destroying /\ parked = <<>>
      BY <2>1 DEF TellInv, Emptied, Destroying
    <3> QED
      BY <3>1, StaysEmpty
  <2>2. CASE pc[x] \notin Emptied
    <3>1. WakeFibers(x)
      BY <1>0, <1>1, <2>2 DEF Keeps
    <3>2. pc[x] = "dwake"
      <4>1. pc'[x] \in {"idle", "post"} \/ pc[x] = "dwake"
        BY <1>0, <3>1 DEF WakeFibers, Goto
      <4> QED
        BY <1>1, <4>1 DEF Emptied
    <3>3. parked' = SubSeq(parked, Len(parked) + 1, Len(parked)) /\ parked \in Seq(Fibers)
      BY <3>1, <3>2 DEF WakeFibers, IInv, PlaceInv, QueuesTyped
    <3> QED
      BY <3>3
  <2> QED
    BY <2>1, <2>2
<1>2. ASSUME NEW d \in Clients, pc'[d] = "dwait"
      PROVE  (\E x \in Clients : pc'[x] = "woken") \/ at' = "park"
  <2>1. CASE pc[d] = "dwait"
    <3>1. CASE \E x \in Clients : pc[x] = "woken"
      <4>1. PICK x \in Clients : pc[x] = "woken"
        BY <3>1
      <4>2. CASE Wakes(x)
        BY <1>2, <2>1, <4>2, WakesTells
      <4> QED
        BY <1>0, <4>1, <4>2 DEF Keeps
    <3>2. CASE at = "park"
      BY <1>2, <2>1, <3>2, ParkTells
    <3> QED
      BY <2>1, <3>1, <3>2 DEF TellInv, DestroyerIsTold, At
  <2>2. CASE pc[d] # "dwait"
    <3>1. /\ pc[d] = "drain" /\ ~Drained /\ pc' = [pc EXCEPT ![d] = "dwait"]
          /\ UNCHANGED at
      BY <1>0, <1>2, <2>2 DEF Keeps, Drain, Goto, loop
    <3>2. Destroying /\ parked = <<>>
      BY <3>1 DEF TellInv, Emptied, Destroying
    <3>3. CASE waiters # 0
      <4>1. Waiting # {}
        BY <1>0, <3>3, FS_EmptySet DEF EndInv
      <4>2. PICK x \in Clients : pc[x] = "woken"
        BY <3>2, <4>1, NoneWaits DEF At
      <4> QED
        BY <1>0, <3>1, <4>2
    <3>4. CASE inflight # 0
      BY <1>0, <3>1, <3>4
    <3> QED
      BY <3>1, <3>2, <3>3, <3>4 DEF Drained
  <2> QED
    BY <2>1, <2>2
<1>3. ASSUME freed' PROVE parked' = <<>> /\ at' # "park"
  <2>1. CASE freed
    <3>1. parked' = <<>>
      BY <2>1, StaysEmpty DEF TellInv, Destroying
    <3>2. at' # "park"
      BY <2>1, NoneParks DEF TellInv, Destroying
    <3> QED
      BY <3>1, <3>2
  <2>2. CASE ~freed
    <3>1. PICK x \in Clients : Drain(x)
      BY <1>3, <2>2, OnlyDrainFrees
    <3>2. inflight = 0 /\ parked = <<>> /\ UNCHANGED <<parked, at>>
      BY <1>3, <2>2, <3>1 DEF Drain, Drained, loop
    <3> QED
      BY <1>0, <3>2
  <2> QED
    BY <2>1, <2>2
<1> QED
  BY <1>1, <1>2, <1>3 DEF TellInv, DestroyerIsTold, At

LEMMA InitTellInv == Init => TellInv /\ HomeHearsWakes
BY DEF Init, TellInv, DestroyerIsTold, HomeHearsWakes, At, Emptied

\* The home never sleeps in epoll_wait with something to run, and no wake that another
\* thread puts into its inbox goes unheard: the byte is in the pipe, or will be as soon
\* as that thread goes on, or the loop is about to empty the inbox.  With
\* ChannelNoLostWakeup every wake gets through to its receiver.
THEOREM ChannelWakesGetThrough == Spec => []WakesGetThrough
<1>1. IInv /\ HomeHearsWakes /\ [Next]_vars => HomeHearsWakes'
  BY NextHears
<1>2. Init => IInv /\ HomeHearsWakes
  BY InitIInv, InitTellInv
<1>3. NoLostWakeup /\ HomeHearsWakes => WakesGetThrough
  BY DEF WakesGetThrough
<1> QED
  BY <1>1, <1>2, <1>3, NextIInv, ChannelNoLostWakeup, PTL DEF Spec

\* destroy may be called in any state, with fibers and threads anywhere inside the
\* channel.  It frees the channel when no thread is in the condition wait or on its way
\* out of it, and no fiber is announced, being parked or parked; and while it waits on
\* drained_cv somebody is left who will signal it.  (That the fibers it wakes have
\* returned by then, as the code says, does not hold: TLC finds ParkedHaveReturned violated.)
THEOREM ChannelDestroyOutlastsUsers == Spec => []DestroyOutlastsUsers
<1>1. IInv /\ WakeInv /\ TellInv /\ [Next]_vars => (IInv /\ WakeInv /\ TellInv)'
  BY NextIInv, NextWakeInv, NextTellInv
<1>2. Init => IInv /\ WakeInv /\ TellInv
  BY InitIInv, InitWakeInv, InitTellInv
<1>3. IInv /\ TellInv => DestroyOutlastsUsers
  BY DEF IInv, EndInv, TellInv, DestroyOutlastsUsers, CountedHaveLeft, At, Waits, Ends
<1> QED
  BY <1>1, <1>2, <1>3, PTL DEF Spec
=============================================================================
