------------------------- MODULE Completion_proofs -------------------------
(***************************************************************************)
(* Proofs about Completion, for every choice of tiers, clients and         *)
(* operations: the inductive invariant IInv and, from it, the reference    *)
(* count, the environment's single drop and what a join sees.              *)
(***************************************************************************)
EXTENDS Completion, TLAPS

(***************************************************************************)
(* First the few cases in which the vocabulary of all of IInv would only   *)
(* be in the provers' way.                                                 *)
(***************************************************************************)
LEMMA InitRecordTyped == Init => RecordTyped
<1> SUFFICES ASSUME Init PROVE RecordTyped
  OBVIOUS
<1>1. refcount \in Int /\ reaps \in 0 .. 1 /\ envDrops \in 0 .. 1
  BY DEF Init
<1>2. /\ freed \in BOOLEAN /\ done \in BOOLEAN /\ failed \in BOOLEAN
      /\ cancelReq \in BOOLEAN /\ homeLives \in BOOLEAN /\ killed \in BOOLEAN
  BY DEF Init
<1>3. rpc \in RunnerPC /\ at \in Places /\ cpc \in ClientPC /\ req \in ReqPC
  BY DEF Init, RunnerPC, Places, ClientPC, ReqPC
<1>4. /\ tier \in Tiers /\ client \in Clients /\ op \in Ops \cup {"none"}
      /\ home \in {"none", "here", "there"} /\ os \in {"none", "running", "ended"}
  BY DEF Init
<1> QED
  BY <1>1, <1>2, <1>3, <1>4 DEF RecordTyped

LEMMA SpawnFailsRecordTyped == ASSUME IInv, SpawnFails PROVE RecordTyped'
<1>1. envDrops = 0 /\ RecordTyped
  BY DEF IInv, SpawnFails, Spawned, EnvKnown, TiersApart
<1>2. /\ UNCHANGED <<tier, client, loops, cancelReq, homeLives, op, req, killed, reaps,
                     freed, at, home, os>>
      /\ rpc' = "end" /\ done' = TRUE /\ refcount' = refcount - 1 /\ cpc' = "holds"
  BY DEF SpawnFails, Spawned, fixed
<1>3. envDrops' \in 0 .. 1 /\ failed' \in BOOLEAN
  <2>1. CASE failed' = TRUE /\ UNCHANGED envDrops
    <3>1. envDrops' = 0
      BY <1>1, <2>1
    <3>2. failed' = TRUE
      BY <2>1
    <3> QED
      BY <3>1, <3>2
  <2>2. CASE DropEnv /\ UNCHANGED failed
    <3>1. envDrops' = 1
      BY <1>1, <2>2 DEF DropEnv
    <3>2. failed' = failed /\ failed \in BOOLEAN
      BY <1>1, <2>2 DEF RecordTyped
    <3> QED
      BY <3>1, <3>2
  <2> QED
    BY <2>1, <2>2 DEF SpawnFails
<1>4. /\ rpc' \in RunnerPC /\ done' \in BOOLEAN /\ refcount' \in Int
      /\ cpc' \in ClientPC
  BY <1>1, <1>2 DEF RunnerPC, ClientPC, RecordTyped
<1> QED
  BY <1>1, <1>2, <1>3, <1>4 DEF RecordTyped

LEMMA HomeExitsRecordTyped == IInv /\ HomeExits => RecordTyped'
BY DEF IInv, HomeExits, RecordTyped, record, posix, fixed

LEMMA HomeDrainsRecordTyped == IInv /\ HomeDrains => RecordTyped'
BY DEF IInv, HomeDrains, RecordTyped, record, posix, fixed, fiber, Unlink, LeftForAio, ReqGoes,
       RunnerPC, ReqPC, Places

LEMMA HomeDrainsTiersApart == ASSUME IInv, HomeDrains PROVE TiersApart'
<1>1. UNCHANGED <<record, posix, fixed, cpc, op>>
  BY DEF HomeDrains, ReqGoes
<1>2. CASE Unlink("list") \/ Unlink("inbox")
  <2>1. rpc = "body"
    BY <1>2 DEF IInv, PlaceKnown, HomeDrains, Driven, Scheduled, Live, Unlink
  <2> QED
    BY <1>1, <1>2, <2>1 DEF IInv, TiersApart, Unlink, record, posix, fixed
<1>3. CASE UNCHANGED <<rpc, fiber>>
  BY <1>1, <1>3 DEF IInv, TiersApart, record, posix, fixed, fiber
<1>4. CASE LeftForAio
  BY <1>1, <1>4 DEF IInv, TiersApart, LeftForAio, record, posix, fixed, fiber
<1> QED
  BY <1>2, <1>3, <1>4 DEF HomeDrains

\* A request drops the runner's reference when it destroyed the fiber, and its
\* own when it is through.
LEMMA HomeUnrefsRefs == ASSUME IInv, HomeUnrefs PROVE RefsMatchHolders'
<1>1. UNCHANGED <<home, homeLives, op, cpc>>
  BY DEF HomeUnrefs, ReqGoes, fiber
<1>2. req # "none" /\ (Covered => req \notin {"x_done", "x_unref"})
  BY DEF IInv, HomeUnrefs, ReqGoes, OneDestroyer, Covered
<1>3. refcount' = refcount - 1 /\ freed' = (freed \/ refcount = 1)
  BY DEF HomeUnrefs, Unref
<1>4. CASE req = "cl_unref"
  <2>1. rpc = "taken" /\ rpc' = "end" /\ req' = "h_drop"
    BY <1>4 DEF IInv, HomeUnrefs, ReqGoes, OneDestroyer, HomeDestroying
  <2> QED
    BY <1>1, <1>2, <1>3, <1>4, <2>1
    DEF IInv, RecordTyped, RefsMatchHolders, Covered, Count, RunnerHolds, ClientHolds,
        RequestHolds
<1>5. CASE req = "h_drop"
  <2>1. rpc' = rpc /\ req' = "none"
    BY <1>5 DEF HomeUnrefs, ReqGoes
  <2>2. /\ Count(RunnerHolds)' = Count(RunnerHolds)
        /\ Count(ClientHolds)' = Count(ClientHolds)
        /\ Covered' = Covered
    BY <1>1, <2>1 DEF Count, RunnerHolds, ClientHolds, Covered
  <2>3. Count(RequestHolds) = 1 /\ Count(RequestHolds)' = 0
    BY <1>2, <2>1 DEF Count, RequestHolds
  <2>4. Count(RunnerHolds) \in {0, 1} /\ Count(ClientHolds) \in {0, 1}
    BY DEF Count
  <2>5. refcount \in Int /\ freed \in BOOLEAN
    BY DEF IInv, RecordTyped
  <2>6. SUFFICES ASSUME Covered
                 PROVE  /\ refcount' = Count(RunnerHolds) + Count(ClientHolds)
                        /\ freed' <=> refcount' = 0
    BY <2>2, <2>3, <2>4 DEF RefsMatchHolders
  <2>7. refcount = Count(RunnerHolds) + Count(ClientHolds) + 1 /\ (freed <=> refcount = 0)
    BY <2>3, <2>6 DEF IInv, RefsMatchHolders
  <2>8. refcount' = refcount - 1 /\ refcount > 0 /\ refcount' = Count(RunnerHolds) + Count(ClientHolds)
    BY <1>3, <2>4, <2>7
  <2>9. ~freed /\ (refcount = 1 <=> refcount' = 0)
    BY <2>5, <2>7, <2>8
  <2> QED
    BY <1>3, <2>8, <2>9
<1>6. CASE req = "x_unref"
  BY <1>1, <1>2, <1>6 DEF RefsMatchHolders, Covered
<1> QED
  BY <1>4, <1>5, <1>6 DEF HomeUnrefs, ReqGoes

-----------------------------------------------------------------------------
(***************************************************************************)
(* From here on the state's vocabulary is known to the provers, and a      *)
(* proof names the action it is about.                                     *)
(***************************************************************************)
USE TiersAssumption, OpsAssumption
DEF IInv, RecordTyped, TiersApart, PlaceKnown, OneDestroyer, DoneKnown, EnvKnown,
    ReapsKnown, RefsMatchHolders, EnvDroppedOnce, JoinSeesTheEnd, PthreadReapedOnce,
    Covered, Count, RunnerHolds, ClientHolds, RequestHolds,
    Live, Destroying, HomeDestroying, FiberOnly, GivenUp, Unfinished,
    RunnerPC, ClientPC, ReqPC, Places, record, fiber, posix, fixed

LEMMA InitIInv == Init => IInv
<1> SUFFICES ASSUME Init PROVE IInv
  OBVIOUS
<1>1. RecordTyped
  BY InitRecordTyped
<1>2. TiersApart
  BY DEF Init
<1>3. PlaceKnown
  BY DEF Init
<1>4. OneDestroyer
  BY DEF Init
<1>5. DoneKnown
  BY DEF Init
<1>6. EnvKnown
  BY DEF Init
<1>7. ReapsKnown
  BY DEF Init
<1>8. RefsMatchHolders
  BY DEF Init
<1>9. EnvDroppedOnce
  BY DEF Init
<1>10. JoinSeesTheEnd
  BY DEF Init
<1>11. PthreadReapedOnce
  BY DEF Init
<1> QED
  BY <1>1, <1>2, <1>3, <1>4, <1>5, <1>6,
     <1>7, <1>8, <1>9, <1>10, <1>11

LEMMA SpawnStartsIInv == IInv /\ SpawnStarts => IInv'
<1> SUFFICES ASSUME IInv, SpawnStarts PROVE IInv'
  OBVIOUS
<1>1. RecordTyped'
  BY DEF SpawnStarts, Spawned
<1>2. TiersApart'
  BY DEF SpawnStarts, Spawned
<1>3. PlaceKnown'
  BY DEF SpawnStarts, Spawned
<1>4. OneDestroyer'
  BY DEF SpawnStarts, Spawned
<1>5. DoneKnown'
  BY DEF SpawnStarts, Spawned
<1>6. EnvKnown'
  BY DEF SpawnStarts, Spawned
<1>7. ReapsKnown'
  BY DEF SpawnStarts, Spawned
<1>8. RefsMatchHolders'
  BY DEF SpawnStarts, Spawned
<1>9. EnvDroppedOnce'
  BY DEF SpawnStarts, Spawned
<1>10. JoinSeesTheEnd'
  BY DEF SpawnStarts, Spawned
<1>11. PthreadReapedOnce'
  BY DEF SpawnStarts, Spawned
<1> QED
  BY <1>1, <1>2, <1>3, <1>4, <1>5, <1>6,
     <1>7, <1>8, <1>9, <1>10, <1>11

LEMMA SpawnFailsIInv == IInv /\ SpawnFails => IInv'
<1> SUFFICES ASSUME IInv, SpawnFails PROVE IInv'
  OBVIOUS
<1>1. RecordTyped'
  BY SpawnFailsRecordTyped
<1>2. TiersApart'
  BY DEF SpawnFails, Spawned, DropEnv
<1>3. PlaceKnown'
  BY DEF SpawnFails, Spawned, DropEnv
<1>4. OneDestroyer'
  BY DEF SpawnFails, Spawned, DropEnv
<1>5. DoneKnown'
  BY DEF SpawnFails, Spawned, DropEnv
<1>6. EnvKnown'
  BY DEF SpawnFails, Spawned, DropEnv
<1>7. ReapsKnown'
  BY DEF SpawnFails, Spawned, DropEnv
<1>8. RefsMatchHolders'
  BY DEF SpawnFails, Spawned, DropEnv
<1>9. EnvDroppedOnce'
  BY DEF SpawnFails, Spawned, DropEnv
<1>10. JoinSeesTheEnd'
  BY DEF SpawnFails, Spawned, DropEnv
<1>11. PthreadReapedOnce'
  BY DEF SpawnFails, Spawned, DropEnv
<1> QED
  BY <1>1, <1>2, <1>3, <1>4, <1>5, <1>6,
     <1>7, <1>8, <1>9, <1>10, <1>11

LEMMA BodyReturnsIInv == IInv /\ BodyReturns => IInv'
BY DEF BodyReturns

LEMMA BodyCancelledIInv == IInv /\ BodyCancelled => IInv'
<1> SUFFICES ASSUME IInv, BodyCancelled PROVE IInv'
  OBVIOUS
<1>1. RecordTyped'
  BY DEF BodyCancelled
<1>2. TiersApart'
  BY DEF BodyCancelled
<1>3. PlaceKnown'
  BY DEF BodyCancelled
<1>4. OneDestroyer'
  BY DEF BodyCancelled
<1>5. DoneKnown'
  BY DEF BodyCancelled
<1>6. EnvKnown'
  BY DEF BodyCancelled
<1>7. ReapsKnown'
  BY DEF BodyCancelled
<1>8. RefsMatchHolders'
  BY DEF BodyCancelled
<1>9. EnvDroppedOnce'
  BY DEF BodyCancelled
<1>10. JoinSeesTheEnd'
  BY DEF BodyCancelled
<1>11. PthreadReapedOnce'
  BY DEF BodyCancelled
<1> QED
  BY <1>1, <1>2, <1>3, <1>4, <1>5, <1>6,
     <1>7, <1>8, <1>9, <1>10, <1>11

LEMMA RunnerSetsDoneIInv == IInv /\ RunnerSetsDone => IInv'
BY DEF RunnerSetsDone, SetDone, Woken, WokenAndDrained

LEMMA RunnerDropsDoneIInv == IInv /\ RunnerDropsDone => IInv'
BY DEF RunnerDropsDone, SetDone, Woken

LEMMA RunnerFreesEnvIInv == IInv /\ RunnerFreesEnv => IInv'
BY DEF RunnerFreesEnv, DropEnv

LEMMA RunnerUnrefsIInv == IInv /\ RunnerUnrefs => IInv'
BY DEF RunnerUnrefs, Unref

LEMMA RunnerExitsIInv == IInv /\ RunnerExits => IInv'
BY DEF RunnerExits

LEMMA PoolPopIInv == IInv /\ PoolPop => IInv'
BY DEF PoolPop, FiberMoves

LEMMA PoolAdoptsIInv == IInv /\ PoolAdopts => IInv'
BY DEF PoolAdopts

LEMMA PoolDropsIInv == IInv /\ PoolDrops => IInv'
BY DEF PoolDrops, FiberMoves

LEMMA DequeueIInv ==
  ASSUME NEW p \in {"ring", "list", "aio"}, IInv, Dequeue(p)
  PROVE IInv'
<1>1. RecordTyped'
  BY DEF Dequeue, FiberMoves, Driven, Scheduled
<1>2. TiersApart'
  BY DEF Dequeue, FiberMoves, Driven, Scheduled
<1>3. PlaceKnown'
  BY DEF Dequeue, FiberMoves, Driven, Scheduled
<1>4. OneDestroyer'
  BY DEF Dequeue, FiberMoves, Driven, Scheduled
<1>5. DoneKnown'
  BY DEF Dequeue, FiberMoves, Driven, Scheduled
<1>6. EnvKnown'
  BY DEF Dequeue, FiberMoves, Driven, Scheduled
<1>7. ReapsKnown'
  BY DEF Dequeue, FiberMoves, Driven, Scheduled
<1>8. RefsMatchHolders'
  <2>1. rpc = "body" /\ rpc' \in {"body", "set_done"} /\ UNCHANGED <<record, cpc, req, homeLives, op>>
    BY DEF Dequeue, FiberMoves, Driven, Scheduled
  <2> QED
    BY <2>1
<1>9. EnvDroppedOnce'
  BY DEF Dequeue, FiberMoves, Driven, Scheduled
<1>10. JoinSeesTheEnd'
  BY DEF Dequeue, FiberMoves, Driven, Scheduled
<1>11. PthreadReapedOnce'
  BY DEF Dequeue, FiberMoves, Driven, Scheduled
<1> QED
  BY <1>1, <1>2, <1>3, <1>4, <1>5, <1>6,
     <1>7, <1>8, <1>9, <1>10, <1>11

LEMMA InboxDrainedIInv == IInv /\ InboxDrained => IInv'
BY DEF InboxDrained, FiberMoves, Driven, Scheduled

LEMMA FiberYieldsIInv ==
  ASSUME NEW p \in {"ring", "list", "aio", "parked"}, IInv, FiberYields(p)
  PROVE IInv'
BY DEF FiberYields, FiberMoves

LEMMA FiberWokenIInv ==
  ASSUME NEW p \in {"ring", "list"}, IInv, FiberWoken(p)
  PROVE IInv'
BY DEF FiberWoken, FiberMoves, Scheduled

LEMMA FiberPostedIInv == IInv /\ FiberPosted => IInv'
BY DEF FiberPosted, FiberMoves, Scheduled

LEMMA EntersIInv == ASSUME NEW s \in {"here", "there"}, IInv, Enters(s) PROVE IInv'
BY DEF Enters

LEMMA LeavesIInv == ASSUME NEW s \in {"here", "there"}, IInv, Leaves(s) PROVE IInv'
BY DEF Leaves

LEMMA FiberReturnsIInv == IInv /\ FiberReturns => IInv'
BY DEF FiberReturns, FiberMoves

LEMMA HomeExitsIInv == IInv /\ HomeExits => IInv'
<1> SUFFICES ASSUME IInv, HomeExits PROVE IInv'
  OBVIOUS
<1>1. RecordTyped'
  BY HomeExitsRecordTyped
<1>2. TiersApart'
  BY DEF HomeExits, BetweenTurns
<1>3. PlaceKnown'
  BY DEF HomeExits, BetweenTurns
<1>4. OneDestroyer'
  BY DEF HomeExits, BetweenTurns
<1>5. DoneKnown'
  BY DEF HomeExits, BetweenTurns
<1>6. EnvKnown'
  BY DEF HomeExits, BetweenTurns
<1>7. ReapsKnown'
  BY DEF HomeExits, BetweenTurns
<1>8. RefsMatchHolders'
  BY DEF HomeExits, BetweenTurns
<1>9. EnvDroppedOnce'
  BY DEF HomeExits, BetweenTurns
<1>10. JoinSeesTheEnd'
  BY DEF HomeExits, BetweenTurns
<1>11. PthreadReapedOnce'
  BY DEF HomeExits, BetweenTurns
<1> QED
  BY <1>1, <1>2, <1>3, <1>4, <1>5, <1>6,
     <1>7, <1>8, <1>9, <1>10, <1>11

LEMMA CallIInv == IInv /\ Call => IInv'
<1> SUFFICES ASSUME IInv, Call PROVE IInv'
  OBVIOUS
<1>1. RecordTyped'
  BY DEF Call, Begin, ClientGoes, Untouched
<1>2. TiersApart'
  BY DEF Call, Begin, ClientGoes, Untouched
<1>3. PlaceKnown'
  BY DEF Call, Begin, ClientGoes, Untouched
<1>4. OneDestroyer'
  BY DEF Call, Begin, ClientGoes, Untouched
<1>5. DoneKnown'
  BY DEF Call, Begin, ClientGoes, Untouched
<1>6. EnvKnown'
  BY DEF Call, Begin, ClientGoes, Untouched
<1>7. ReapsKnown'
  BY DEF Call, Begin, ClientGoes, Untouched
<1>8. RefsMatchHolders'
  <2>1. cpc = "holds" /\ cpc' # "out" /\ UNCHANGED <<record, fiber, rpc, req>>
    BY DEF Call, Begin, ClientGoes, Untouched
  <2>2. Covered' => Covered
    BY <2>1
  <2>3. ClientHolds /\ ClientHolds'
    BY <2>1
  <2>4. RefsMatchHolders
    OBVIOUS
  <2> HIDE DEF IInv, RecordTyped, TiersApart, PlaceKnown, OneDestroyer, DoneKnown, EnvKnown,
               ReapsKnown, Covered, ClientHolds
  <2> QED
    BY <2>1, <2>2, <2>3, <2>4
<1>9. EnvDroppedOnce'
  BY DEF Call, Begin, ClientGoes, Untouched
<1>10. JoinSeesTheEnd'
  BY DEF Call, Begin, ClientGoes, Untouched
<1>11. PthreadReapedOnce'
  BY DEF Call, Begin, ClientGoes, Untouched
<1> QED
  BY <1>1, <1>2, <1>3, <1>4, <1>5, <1>6,
     <1>7, <1>8, <1>9, <1>10, <1>11

LEMMA TryJoinIInv == IInv /\ TryJoin => IInv'
<1> SUFFICES ASSUME IInv, TryJoin PROVE IInv'
  OBVIOUS
<1>1. RecordTyped'
  BY DEF TryJoin, Finished, ClientGoes, Untouched
<1>2. TiersApart'
  BY DEF TryJoin, Finished, ClientGoes, Untouched
<1>3. PlaceKnown'
  BY DEF TryJoin, Finished, ClientGoes, Untouched
<1>4. OneDestroyer'
  BY DEF TryJoin, Finished, ClientGoes, Untouched
<1>5. DoneKnown'
  BY DEF TryJoin, Finished, ClientGoes, Untouched
<1>6. EnvKnown'
  BY DEF TryJoin, Finished, ClientGoes, Untouched
<1>7. ReapsKnown'
  BY DEF TryJoin, Finished, ClientGoes, Untouched
<1>8. RefsMatchHolders'
  BY DEF TryJoin, Finished, ClientGoes, Untouched
<1>9. EnvDroppedOnce'
  BY DEF TryJoin, Finished, ClientGoes, Untouched
<1>10. JoinSeesTheEnd'
  BY DEF TryJoin, Finished, ClientGoes, Untouched
<1>11. PthreadReapedOnce'
  BY DEF TryJoin, Finished, ClientGoes, Untouched
<1> QED
  BY <1>1, <1>2, <1>3, <1>4, <1>5, <1>6,
     <1>7, <1>8, <1>9, <1>10, <1>11

LEMMA JoinTestIInv == IInv /\ JoinTest => IInv'
<1> SUFFICES ASSUME IInv, JoinTest PROVE IInv'
  OBVIOUS
<1>1. RecordTyped'
  BY DEF JoinTest, Decide, ClientGoes, Untouched
<1>2. TiersApart'
  BY DEF JoinTest, Decide, ClientGoes, Untouched
<1>3. PlaceKnown'
  BY DEF JoinTest, Decide, ClientGoes, Untouched
<1>4. OneDestroyer'
  BY DEF JoinTest, Decide, ClientGoes, Untouched
<1>5. DoneKnown'
  BY DEF JoinTest, Decide, ClientGoes, Untouched
<1>6. EnvKnown'
  BY DEF JoinTest, Decide, ClientGoes, Untouched
<1>7. ReapsKnown'
  BY DEF JoinTest, Decide, ClientGoes, Untouched
<1>8. RefsMatchHolders'
  BY DEF JoinTest, Decide, ClientGoes, Untouched
<1>9. EnvDroppedOnce'
  BY DEF JoinTest, Decide, ClientGoes, Untouched
<1>10. JoinSeesTheEnd'
  BY DEF JoinTest, Decide, ClientGoes, Untouched
<1>11. PthreadReapedOnce'
  BY DEF JoinTest, Decide, ClientGoes, Untouched
<1> QED
  BY <1>1, <1>2, <1>3, <1>4, <1>5, <1>6,
     <1>7, <1>8, <1>9, <1>10, <1>11

LEMMA JoinParkIInv == IInv /\ JoinPark => IInv'
BY DEF JoinPark, Decide, ClientGoes, Untouched, Parks

LEMMA JoinDrivesIInv == IInv /\ JoinDrives => IInv'
BY DEF JoinDrives

LEMMA DriveReturnsIInv == IInv /\ DriveReturns => IInv'
BY DEF DriveReturns

LEMMA PollTestIInv == IInv /\ PollTest => IInv'
BY DEF PollTest, Decide, ClientGoes, Untouched

LEMMA ReapIInv == IInv /\ Reap => IInv'
BY DEF Reap, ReapPthread, HasPthread, ClientGoes

LEMMA DropHandleIInv == IInv /\ DropHandle => IInv'
BY DEF DropHandle, Unref, ClientGoes, Untouched

LEMMA DetachTestIInv == IInv /\ DetachTest => IInv'
BY DEF DetachTest, Decide, ClientGoes, Untouched

LEMMA DetachPthreadIInv == IInv /\ DetachPthread => IInv'
BY DEF DetachPthread, ClientGoes

LEMMA CancelTestIInv == IInv /\ CancelTest => IInv'
BY DEF CancelTest, Decide, ClientGoes, Untouched

LEMMA KillIInv == IInv /\ Kill => IInv'
BY DEF Kill, ClientGoes

LEMMA KillJoinIInv == IInv /\ KillJoin => IInv'
BY DEF KillJoin, ReapPthread, HasPthread, Owed, ClientGoes

LEMMA DropOwedIInv == IInv /\ DropOwed => IInv'
<1> SUFFICES ASSUME IInv, DropOwed PROVE IInv'
  OBVIOUS
<1>1. RecordTyped'
  BY DEF DropOwed, Unref, ClientGoes
<1>2. TiersApart'
  BY DEF DropOwed, Unref, ClientGoes
<1>3. PlaceKnown'
  BY DEF DropOwed, Unref, ClientGoes
<1>4. OneDestroyer'
  BY DEF DropOwed, Unref, ClientGoes
<1>5. DoneKnown'
  BY DEF DropOwed, Unref, ClientGoes
<1>6. EnvKnown'
  BY DEF DropOwed, Unref, ClientGoes
<1>7. ReapsKnown'
  BY DEF DropOwed, Unref, ClientGoes
<1>8. RefsMatchHolders'
  BY DEF DropOwed, Unref, ClientGoes
<1>9. EnvDroppedOnce'
  BY DEF DropOwed, Unref, ClientGoes
<1>10. JoinSeesTheEnd'
  BY DEF DropOwed, Unref, ClientGoes
<1>11. PthreadReapedOnce'
  BY DEF DropOwed, Unref, ClientGoes
<1> QED
  BY <1>1, <1>2, <1>3, <1>4, <1>5, <1>6,
     <1>7, <1>8, <1>9, <1>10, <1>11

LEMMA CancelFlagIInv == IInv /\ CancelFlag => IInv'
BY DEF CancelFlag, ClientGoes, Untouched

LEMMA CancelHomeIInv == IInv /\ CancelHome => IInv'
BY DEF CancelHome, Decide, ClientGoes, Untouched

LEMMA PostIInv == IInv /\ Post => IInv'
BY DEF Post, ForRequest, Untouched

LEMMA DeadDoneIInv == IInv /\ DeadDone => IInv'
BY DEF DeadDone, ClientGoes, Untouched

LEMMA CancelLocalIInv == IInv /\ CancelLocal => IInv'
<1> SUFFICES ASSUME IInv, CancelLocal PROVE IInv'
  OBVIOUS
<1>1. RecordTyped'
  BY DEF CancelLocal, ClientGoes, Unlink, LeftForAio
<1>2. TiersApart'
  BY DEF CancelLocal, ClientGoes, Unlink, LeftForAio
<1>3. PlaceKnown'
  BY DEF CancelLocal, ClientGoes, Unlink, LeftForAio
<1>4. OneDestroyer'
  BY DEF CancelLocal, ClientGoes, Unlink, LeftForAio
<1>5. DoneKnown'
  BY DEF CancelLocal, ClientGoes, Unlink, LeftForAio
<1>6. EnvKnown'
  BY DEF CancelLocal, ClientGoes, Unlink, LeftForAio
<1>7. ReapsKnown'
  BY DEF CancelLocal, ClientGoes, Unlink, LeftForAio
<1>8. RefsMatchHolders'
  BY DEF CancelLocal, ClientGoes, Unlink, LeftForAio
<1>9. EnvDroppedOnce'
  BY DEF CancelLocal, ClientGoes, Unlink, LeftForAio
<1>10. JoinSeesTheEnd'
  BY DEF CancelLocal, ClientGoes, Unlink, LeftForAio
<1>11. PthreadReapedOnce'
  BY DEF CancelLocal, ClientGoes, Unlink, LeftForAio
<1> QED
  BY <1>1, <1>2, <1>3, <1>4, <1>5, <1>6,
     <1>7, <1>8, <1>9, <1>10, <1>11

LEMMA PoolWalkIInv == IInv /\ PoolWalk => IInv'
<1> SUFFICES ASSUME IInv, PoolWalk PROVE IInv'
  OBVIOUS
<1>1. RecordTyped'
  BY DEF PoolWalk, ClientGoes, Unlink
<1>2. TiersApart'
  BY DEF PoolWalk, ClientGoes, Unlink
<1>3. PlaceKnown'
  BY DEF PoolWalk, ClientGoes, Unlink
<1>4. OneDestroyer'
  BY DEF PoolWalk, ClientGoes, Unlink
<1>5. DoneKnown'
  BY DEF PoolWalk, ClientGoes, Unlink
<1>6. EnvKnown'
  BY DEF PoolWalk, ClientGoes, Unlink
<1>7. ReapsKnown'
  BY DEF PoolWalk, ClientGoes, Unlink
<1>8. RefsMatchHolders'
  BY DEF PoolWalk, ClientGoes, Unlink
<1>9. EnvDroppedOnce'
  BY DEF PoolWalk, ClientGoes, Unlink
<1>10. JoinSeesTheEnd'
  BY DEF PoolWalk, ClientGoes, Unlink
<1>11. PthreadReapedOnce'
  BY DEF PoolWalk, ClientGoes, Unlink
<1> QED
  BY <1>1, <1>2, <1>3, <1>4, <1>5, <1>6,
     <1>7, <1>8, <1>9, <1>10, <1>11

LEMMA ClientFreesEnvIInv == IInv /\ ClientFreesEnv => IInv'
<1> SUFFICES ASSUME IInv, ClientFreesEnv PROVE IInv'
  OBVIOUS
<1>1. RecordTyped'
  BY DEF ClientFreesEnv, ClientGoes, DropEnv
<1>2. TiersApart'
  BY DEF ClientFreesEnv, ClientGoes, DropEnv
<1>3. PlaceKnown'
  BY DEF ClientFreesEnv, ClientGoes, DropEnv
<1>4. OneDestroyer'
  BY DEF ClientFreesEnv, ClientGoes, DropEnv
<1>5. DoneKnown'
  BY DEF ClientFreesEnv, ClientGoes, DropEnv
<1>6. EnvKnown'
  BY DEF ClientFreesEnv, ClientGoes, DropEnv
<1>7. ReapsKnown'
  BY DEF ClientFreesEnv, ClientGoes, DropEnv
<1>8. RefsMatchHolders'
  BY DEF ClientFreesEnv, ClientGoes, DropEnv
<1>9. EnvDroppedOnce'
  BY DEF ClientFreesEnv, ClientGoes, DropEnv
<1>10. JoinSeesTheEnd'
  BY DEF ClientFreesEnv, ClientGoes, DropEnv
<1>11. PthreadReapedOnce'
  BY DEF ClientFreesEnv, ClientGoes, DropEnv
<1> QED
  BY <1>1, <1>2, <1>3, <1>4, <1>5, <1>6,
     <1>7, <1>8, <1>9, <1>10, <1>11

LEMMA ClientSetsDoneIInv == IInv /\ ClientSetsDone => IInv'
<1> SUFFICES ASSUME IInv, ClientSetsDone PROVE IInv'
  OBVIOUS
<1>1. RecordTyped'
  BY DEF ClientSetsDone, ClientGoes, Untouched
<1>2. TiersApart'
  BY DEF ClientSetsDone, ClientGoes, Untouched
<1>3. PlaceKnown'
  BY DEF ClientSetsDone, ClientGoes, Untouched
<1>4. OneDestroyer'
  BY DEF ClientSetsDone, ClientGoes, Untouched
<1>5. DoneKnown'
  BY DEF ClientSetsDone, ClientGoes, Untouched
<1>6. EnvKnown'
  BY DEF ClientSetsDone, ClientGoes, Untouched
<1>7. ReapsKnown'
  BY DEF ClientSetsDone, ClientGoes, Untouched
<1>8. RefsMatchHolders'
  BY DEF ClientSetsDone, ClientGoes, Untouched
<1>9. EnvDroppedOnce'
  BY DEF ClientSetsDone, ClientGoes, Untouched
<1>10. JoinSeesTheEnd'
  BY DEF ClientSetsDone, ClientGoes, Untouched
<1>11. PthreadReapedOnce'
  BY DEF ClientSetsDone, ClientGoes, Untouched
<1> QED
  BY <1>1, <1>2, <1>3, <1>4, <1>5, <1>6,
     <1>7, <1>8, <1>9, <1>10, <1>11

LEMMA HomeDrainsIInv == IInv /\ HomeDrains => IInv'
<1> SUFFICES ASSUME IInv, HomeDrains PROVE IInv'
  OBVIOUS
<1>1. RecordTyped'
  BY HomeDrainsRecordTyped
<1>2. TiersApart'
  BY HomeDrainsTiersApart
<1>3. PlaceKnown'
  BY DEF HomeDrains, Driven, Scheduled, ReqGoes, Unlink, LeftForAio
<1>4. OneDestroyer'
  BY DEF HomeDrains, Driven, Scheduled, ReqGoes, Unlink, LeftForAio
<1>5. DoneKnown'
  BY DEF HomeDrains, Driven, Scheduled, ReqGoes, Unlink, LeftForAio
<1>6. EnvKnown'
  BY DEF HomeDrains, Driven, Scheduled, ReqGoes, Unlink, LeftForAio
<1>7. ReapsKnown'
  BY DEF HomeDrains, Driven, Scheduled, ReqGoes, Unlink, LeftForAio
<1>8. RefsMatchHolders'
  BY DEF HomeDrains, Driven, Scheduled, ReqGoes, Unlink, LeftForAio
<1>9. EnvDroppedOnce'
  BY DEF HomeDrains, Driven, Scheduled, ReqGoes, Unlink, LeftForAio
<1>10. JoinSeesTheEnd'
  BY DEF HomeDrains, Driven, Scheduled, ReqGoes, Unlink, LeftForAio
<1>11. PthreadReapedOnce'
  BY DEF HomeDrains, Driven, Scheduled, ReqGoes, Unlink, LeftForAio
<1> QED
  BY <1>1, <1>2, <1>3, <1>4, <1>5, <1>6,
     <1>7, <1>8, <1>9, <1>10, <1>11

LEMMA HomeFreesEnvIInv == IInv /\ HomeFreesEnv => IInv'
BY DEF HomeFreesEnv, ReqGoes, DropEnv

LEMMA HomeSetsDoneIInv == IInv /\ HomeSetsDone => IInv'
<1> SUFFICES ASSUME IInv, HomeSetsDone PROVE IInv'
  OBVIOUS
<1>1. RecordTyped'
  BY DEF HomeSetsDone, ReqGoes, SetDone, Woken
<1>2. TiersApart'
  BY DEF HomeSetsDone, ReqGoes, SetDone, Woken
<1>3. PlaceKnown'
  BY DEF HomeSetsDone, ReqGoes, SetDone, Woken
<1>4. OneDestroyer'
  BY DEF HomeSetsDone, ReqGoes, SetDone, Woken
<1>5. DoneKnown'
  BY DEF HomeSetsDone, ReqGoes, SetDone, Woken
<1>6. EnvKnown'
  BY DEF HomeSetsDone, ReqGoes, SetDone, Woken
<1>7. ReapsKnown'
  BY DEF HomeSetsDone, ReqGoes, SetDone, Woken
<1>8. RefsMatchHolders'
  BY DEF HomeSetsDone, ReqGoes, SetDone, Woken
<1>9. EnvDroppedOnce'
  BY DEF HomeSetsDone, ReqGoes, SetDone, Woken
<1>10. JoinSeesTheEnd'
  BY DEF HomeSetsDone, ReqGoes, SetDone, Woken
<1>11. PthreadReapedOnce'
  BY DEF HomeSetsDone, ReqGoes, SetDone, Woken
<1> QED
  BY <1>1, <1>2, <1>3, <1>4, <1>5, <1>6,
     <1>7, <1>8, <1>9, <1>10, <1>11

LEMMA HomeUnrefsIInv == IInv /\ HomeUnrefs => IInv'
<1> SUFFICES ASSUME IInv, HomeUnrefs PROVE IInv'
  OBVIOUS
<1>1. RecordTyped'
  BY DEF HomeUnrefs, ReqGoes, Unref
<1>2. TiersApart'
  BY DEF HomeUnrefs, ReqGoes, Unref
<1>3. PlaceKnown'
  BY DEF HomeUnrefs, ReqGoes, Unref
<1>4. OneDestroyer'
  BY DEF HomeUnrefs, ReqGoes, Unref
<1>5. DoneKnown'
  BY DEF HomeUnrefs, ReqGoes, Unref
<1>6. EnvKnown'
  BY DEF HomeUnrefs, ReqGoes, Unref
<1>7. ReapsKnown'
  BY DEF HomeUnrefs, ReqGoes, Unref
<1>8. RefsMatchHolders'
  BY HomeUnrefsRefs
<1>9. EnvDroppedOnce'
  BY DEF HomeUnrefs, ReqGoes, Unref
<1>10. JoinSeesTheEnd'
  BY DEF HomeUnrefs, ReqGoes, Unref
<1>11. PthreadReapedOnce'
  BY DEF HomeUnrefs, ReqGoes, Unref
<1> QED
  BY <1>1, <1>2, <1>3, <1>4, <1>5, <1>6,
     <1>7, <1>8, <1>9, <1>10, <1>11

LEMMA CleanupIInv == IInv /\ Cleanup => IInv'
BY DEF Cleanup, ReqGoes

LEMMA CleanupWakeIInv == IInv /\ CleanupWake => IInv'
<1> SUFFICES ASSUME IInv, CleanupWake PROVE IInv'
  OBVIOUS
<1>1. RecordTyped'
  BY DEF CleanupWake, FiberMoves
<1>2. TiersApart'
  BY DEF CleanupWake, FiberMoves
<1>3. PlaceKnown'
  BY DEF CleanupWake, FiberMoves
<1>4. OneDestroyer'
  BY DEF CleanupWake, FiberMoves
<1>5. DoneKnown'
  BY DEF CleanupWake, FiberMoves
<1>6. EnvKnown'
  BY DEF CleanupWake, FiberMoves
<1>7. ReapsKnown'
  BY DEF CleanupWake, FiberMoves
<1>8. RefsMatchHolders'
  BY DEF CleanupWake, FiberMoves
<1>9. EnvDroppedOnce'
  BY DEF CleanupWake, FiberMoves
<1>10. JoinSeesTheEnd'
  BY DEF CleanupWake, FiberMoves
<1>11. PthreadReapedOnce'
  BY DEF CleanupWake, FiberMoves
<1> QED
  BY <1>1, <1>2, <1>3, <1>4, <1>5, <1>6,
     <1>7, <1>8, <1>9, <1>10, <1>11

HIDE DEF IInv, RecordTyped, TiersApart, PlaceKnown, OneDestroyer, DoneKnown, EnvKnown,
    ReapsKnown, RefsMatchHolders, EnvDroppedOnce, JoinSeesTheEnd, PthreadReapedOnce,
    Covered, Count, RunnerHolds, ClientHolds, RequestHolds,
    Live, Destroying, HomeDestroying, FiberOnly, GivenUp, Unfinished,
    RunnerPC, ClientPC, ReqPC, Places, record, fiber, posix, fixed

LEMMA StutterIInv == IInv /\ UNCHANGED vars => IInv'
<1> SUFFICES ASSUME IInv, UNCHANGED vars PROVE IInv'
  OBVIOUS
<1>1. RecordTyped' /\ TiersApart' /\ PlaceKnown' /\ OneDestroyer'
  BY DEF vars, IInv, RecordTyped, TiersApart, PlaceKnown, OneDestroyer
<1>2. DoneKnown' /\ EnvKnown' /\ ReapsKnown' /\ RefsMatchHolders'
  BY DEF vars, IInv, DoneKnown, EnvKnown, ReapsKnown, RefsMatchHolders, Covered,
         Count, RunnerHolds, ClientHolds, RequestHolds
<1>3. EnvDroppedOnce' /\ JoinSeesTheEnd' /\ PthreadReapedOnce'
  BY DEF vars, IInv, EnvDroppedOnce, JoinSeesTheEnd, PthreadReapedOnce
<1> QED
  BY <1>1, <1>2, <1>3 DEF IInv

LEMMA NextIInv == IInv /\ [Next]_vars => IInv'
<1> SUFFICES ASSUME IInv, [Next]_vars PROVE IInv'
  OBVIOUS
<1>1. CASE RunnerStep
  BY <1>1, BodyReturnsIInv, BodyCancelledIInv, RunnerSetsDoneIInv,
     RunnerDropsDoneIInv, RunnerFreesEnvIInv, RunnerUnrefsIInv,
     RunnerExitsIInv DEF RunnerStep
<1>2. CASE SchedulerStep
  BY <1>2, PoolPopIInv, PoolAdoptsIInv, PoolDropsIInv, DequeueIInv,
     InboxDrainedIInv DEF SchedulerStep
<1>3. CASE FiberStep
  BY <1>3, FiberYieldsIInv, FiberReturnsIInv DEF FiberStep
<1>4. CASE ClientStep
  BY <1>4, JoinTestIInv, JoinParkIInv, JoinDrivesIInv, DriveReturnsIInv, PollTestIInv, ReapIInv, DropHandleIInv,
     DetachTestIInv, DetachPthreadIInv, CancelTestIInv, KillIInv,
     KillJoinIInv, DropOwedIInv, CancelFlagIInv, CancelHomeIInv, PostIInv,
     DeadDoneIInv, CancelLocalIInv, PoolWalkIInv, ClientFreesEnvIInv,
     ClientSetsDoneIInv DEF ClientStep
<1>5. CASE HomeStep
  BY <1>5, HomeDrainsIInv, HomeFreesEnvIInv, HomeSetsDoneIInv,
     HomeUnrefsIInv, CleanupWakeIInv, CleanupIInv DEF HomeStep
<1>6. CASE SpawnStarts \/ SpawnFails \/ HomeExits \/ Call \/ TryJoin
  BY <1>6, SpawnStartsIInv, SpawnFailsIInv, HomeExitsIInv, CallIInv, TryJoinIInv
<1>7. CASE UNCHANGED vars
  BY <1>7, StutterIInv
<1>8. CASE WakerStep \/ LoopStep
  BY <1>8, FiberWokenIInv, FiberPostedIInv, EntersIInv, LeavesIInv DEF WakerStep, LoopStep
<1> QED
  BY <1>1, <1>2, <1>3, <1>4, <1>5, <1>6, <1>7, <1>8 DEF Next

-----------------------------------------------------------------------------
\* The invariant of the completion record, from which the rest follows.
THEOREM CompletionInvariant == Spec => []IInv
<1>1. IInv /\ [Next]_vars => IInv'
  BY NextIInv
<1> QED
  BY InitIInv, <1>1, PTL DEF Spec

LEMMA NextLoopsTyped == LoopsTyped /\ [Next]_vars => LoopsTyped'
<1> SUFFICES ASSUME LoopsTyped, [Next]_vars PROVE LoopsTyped'
  OBVIOUS
<1>1. CASE loops' = loops
  BY <1>1 DEF LoopsTyped
<1>2. CASE \E s \in {"here", "there"} : loops' = loops \cup {s} \/ loops' = loops \ {s}
  BY <1>2 DEF LoopsTyped
<1>3. CASE RunnerStep
  BY <1>1, <1>3 DEF RunnerStep, BodyReturns, BodyCancelled, RunnerSetsDone, RunnerDropsDone,
     RunnerFreesEnv, RunnerUnrefs, RunnerExits, fixed
<1>4. CASE SchedulerStep
  BY <1>1, <1>2, <1>4 DEF SchedulerStep, PoolPop, PoolAdopts, PoolDrops, InboxDrained, Dequeue,
     FiberMoves, fixed
<1>5. CASE WakerStep \/ FiberStep
  BY <1>1, <1>5 DEF WakerStep, FiberStep, FiberWoken, FiberPosted, FiberYields, FiberReturns,
     FiberMoves, fixed
<1>6. CASE LoopStep
  BY <1>2, <1>6 DEF LoopStep, Enters, Leaves
<1>7. CASE ClientStep
  <2>1. CASE JoinDrives \/ DriveReturns
    BY <1>2, <2>1 DEF JoinDrives, DriveReturns
  <2>2. CASE JoinTest \/ JoinPark \/ PollTest \/ Reap \/ DropHandle \/ DetachTest \/ DetachPthread
    BY <1>1, <2>2 DEF JoinTest, JoinPark, PollTest, Reap, ReapPthread, DropHandle, DetachTest,
       DetachPthread, Decide, ClientGoes, fixed
  <2>3. CASE CancelTest \/ Kill \/ KillJoin \/ DropOwed \/ CancelFlag \/ CancelHome
    BY <1>1, <2>3 DEF CancelTest, Kill, KillJoin, ReapPthread, DropOwed, CancelFlag, CancelHome,
       Decide, ClientGoes, fixed
  <2>4. CASE Post \/ DeadDone \/ CancelLocal \/ PoolWalk \/ ClientFreesEnv \/ ClientSetsDone
    BY <1>1, <2>4 DEF Post, DeadDone, CancelLocal, PoolWalk, ClientFreesEnv, ClientSetsDone,
       ClientGoes, fixed
  <2> QED
    BY <1>7, <2>1, <2>2, <2>3, <2>4 DEF ClientStep
<1>8. CASE HomeStep
  BY <1>1, <1>8 DEF HomeStep, HomeDrains, HomeFreesEnv, HomeSetsDone, HomeUnrefs, CleanupWake,
     Cleanup, ReqGoes, FiberMoves, fixed
<1>9. CASE SpawnStarts \/ SpawnFails \/ HomeExits \/ Call \/ TryJoin
  BY <1>1, <1>9 DEF SpawnStarts, SpawnFails, Spawned, HomeExits, Call, Begin, TryJoin, ClientGoes, fixed
<1>10. CASE UNCHANGED vars
  BY <1>1, <1>10 DEF vars
<1> QED
  BY <1>3, <1>4, <1>5, <1>6, <1>7, <1>8, <1>9, <1>10 DEF Next

\* The type invariant of the completion record.
THEOREM CompletionTypeOK == Spec => []TypeOK
<1>1. Init => LoopsTyped
  BY DEF Init, LoopsTyped
<1>2. IInv /\ LoopsTyped => TypeOK
  BY DEF IInv, TypeOK
<1> QED
  BY CompletionInvariant, NextLoopsTyped, <1>1, <1>2, PTL DEF Spec

\* The reference count of __maka_thread_ref and __maka_thread_unref is the number
\* of parties that still have to drop a reference, in every execution that does
\* without select on threads and without the exit of a fiber's home thread.
THEOREM CompletionRefsMatchHolders == Spec => []RefsMatchHolders
<1>1. IInv => RefsMatchHolders
  BY DEF IInv
<1> QED
  BY CompletionInvariant, <1>1, PTL

\* In those executions nobody who may still touch the record finds it freed.
THEOREM CompletionNoUseAfterFree == Spec => [](Covered => NoUseAfterFree)
<1>1. IInv => (Covered => NoUseAfterFree)
  BY DEF IInv, RefsMatchHolders, NoUseAfterFree, Count, RunnerHolds, ClientHolds,
         RequestHolds
<1> QED
  BY CompletionInvariant, <1>1, PTL

\* __maka_free_env runs at most once and not before the body is over, in every
\* execution of the model: the natural end, the reaping of a flagged fiber, the
\* local cancel, the pool's queue and the home's inbox exclude each other; and
\* pthread_join or pthread_detach is called exactly once for a started thread.
THEOREM CompletionCleanedUpOnce == Spec => []CleanedUpOnce
<1>1. IInv => CleanedUpOnce
  BY DEF IInv, CleanedUpOnce
<1> QED
  BY CompletionInvariant, <1>1, PTL

LEMMA IInvImpliesSeen == IInv => JoinSeesTheEnd
BY DEF IInv

-----------------------------------------------------------------------------
(***************************************************************************)
(* What becomes of a client that waits, and of what is left when everybody *)
(* is through.  EndInv holds beside IInv, and needs it.                    *)
(***************************************************************************)
USE TiersAssumption, OpsAssumption
DEF IInv, RecordTyped, TiersApart, PlaceKnown, OneDestroyer, DoneKnown, EnvKnown,
    EndInv, Joining, CancelKnown, KillKnown, EnvLeft, Canceling,
    Covered, Live, Destroying, HomeDestroying, FiberOnly, GivenUp, Unfinished,
    record, fiber, posix, fixed

LEMMA InitEndInv == Init => EndInv
BY DEF Init

LEMMA SpawnStartsEndInv == IInv /\ EndInv /\ SpawnStarts => EndInv'
BY DEF SpawnStarts, Spawned

LEMMA SpawnFailsEndInv == IInv /\ EndInv /\ SpawnFails => EndInv'
BY DEF SpawnFails, Spawned, DropEnv

LEMMA BodyReturnsEndInv == IInv /\ EndInv /\ BodyReturns => EndInv'
BY DEF BodyReturns

LEMMA BodyCancelledEndInv == IInv /\ EndInv /\ BodyCancelled => EndInv'
BY DEF BodyCancelled

LEMMA RunnerSetsDoneEndInv == IInv /\ EndInv /\ RunnerSetsDone => EndInv'
BY DEF RunnerSetsDone, SetDone, Woken, WokenAndDrained

LEMMA RunnerDropsDoneEndInv == IInv /\ EndInv /\ RunnerDropsDone => EndInv'
BY DEF RunnerDropsDone, SetDone, Woken

LEMMA RunnerFreesEnvEndInv == IInv /\ EndInv /\ RunnerFreesEnv => EndInv'
BY DEF RunnerFreesEnv, DropEnv

LEMMA RunnerUnrefsEndInv == IInv /\ EndInv /\ RunnerUnrefs => EndInv'
BY DEF RunnerUnrefs, Unref

LEMMA RunnerExitsEndInv == IInv /\ EndInv /\ RunnerExits => EndInv'
BY DEF RunnerExits

LEMMA PoolPopEndInv == IInv /\ EndInv /\ PoolPop => EndInv'
BY DEF PoolPop, FiberMoves

LEMMA PoolAdoptsEndInv == IInv /\ EndInv /\ PoolAdopts => EndInv'
BY DEF PoolAdopts

LEMMA PoolDropsEndInv == IInv /\ EndInv /\ PoolDrops => EndInv'
BY DEF PoolDrops, FiberMoves

LEMMA FiberReturnsEndInv == IInv /\ EndInv /\ FiberReturns => EndInv'
BY DEF FiberReturns, FiberMoves

LEMMA HomeExitsEndInv == IInv /\ EndInv /\ HomeExits => EndInv'
BY DEF HomeExits, BetweenTurns

LEMMA CallEndInv == IInv /\ EndInv /\ Call => EndInv'
BY DEF Call, Begin, ClientGoes, Untouched

LEMMA TryJoinEndInv == IInv /\ EndInv /\ TryJoin => EndInv'
BY DEF TryJoin, ClientGoes, Untouched

LEMMA JoinTestEndInv == IInv /\ EndInv /\ JoinTest => EndInv'
BY DEF JoinTest, Decide, ClientGoes, Untouched

LEMMA JoinParkEndInv == IInv /\ EndInv /\ JoinPark => EndInv'
BY DEF JoinPark, Parks, Decide, ClientGoes, Untouched

LEMMA JoinDrivesEndInv == IInv /\ EndInv /\ JoinDrives => EndInv'
BY DEF JoinDrives

LEMMA DriveReturnsEndInv == IInv /\ EndInv /\ DriveReturns => EndInv'
BY DEF DriveReturns

LEMMA PollTestEndInv == IInv /\ EndInv /\ PollTest => EndInv'
BY DEF PollTest, Decide, ClientGoes, Untouched

LEMMA ReapEndInv == IInv /\ EndInv /\ Reap => EndInv'
BY DEF Reap, ReapPthread, HasPthread, ClientGoes

LEMMA DropHandleEndInv == IInv /\ EndInv /\ DropHandle => EndInv'
BY DEF DropHandle, ClientGoes, Unref, Untouched

LEMMA DetachTestEndInv == IInv /\ EndInv /\ DetachTest => EndInv'
BY DEF DetachTest, Decide, ClientGoes, Untouched

LEMMA DetachPthreadEndInv == IInv /\ EndInv /\ DetachPthread => EndInv'
BY DEF DetachPthread, ClientGoes

LEMMA CancelTestEndInv == IInv /\ EndInv /\ CancelTest => EndInv'
BY DEF CancelTest, Decide, ClientGoes, Untouched

LEMMA KillEndInv == IInv /\ EndInv /\ Kill => EndInv'
BY DEF Kill, ClientGoes

LEMMA KillJoinEndInv == IInv /\ EndInv /\ KillJoin => EndInv'
BY DEF KillJoin, Owed, ReapPthread, HasPthread, ClientGoes

LEMMA DropOwedEndInv == IInv /\ EndInv /\ DropOwed => EndInv'
BY DEF DropOwed, ClientGoes, Unref

LEMMA CancelFlagEndInv == IInv /\ EndInv /\ CancelFlag => EndInv'
BY DEF CancelFlag, ClientGoes, Untouched

LEMMA CancelHomeEndInv == IInv /\ EndInv /\ CancelHome => EndInv'
BY DEF CancelHome, Decide, ClientGoes, Untouched

LEMMA PostEndInv == IInv /\ EndInv /\ Post => EndInv'
BY DEF Post, ForRequest, Untouched

LEMMA DeadDoneEndInv == IInv /\ EndInv /\ DeadDone => EndInv'
BY DEF DeadDone, ClientGoes, Untouched

LEMMA CancelLocalEndInv == ASSUME IInv, EndInv, CancelLocal PROVE EndInv'
<1>1. /\ cpc = "cancel_local" /\ cpc' \in {"cl_env", "drop", "pool_walk", "sel_done"}
      /\ UNCHANGED <<op, req, tier, done, cancelReq, failed, killed, envDrops, homeLives>>
  BY DEF CancelLocal, Unlink, LeftForAio, ClientGoes
<1>2. rpc' = rpc \/ rpc' = "taken"
  BY DEF CancelLocal, Unlink, LeftForAio, ClientGoes
<1>3. op # "select_thread" /\ ~killed
  BY <1>1
<1> QED
  BY <1>1, <1>2, <1>3

LEMMA PoolWalkEndInv == IInv /\ EndInv /\ PoolWalk => EndInv'
BY DEF PoolWalk, Unlink, ClientGoes

LEMMA ClientFreesEnvEndInv == IInv /\ EndInv /\ ClientFreesEnv => EndInv'
BY DEF ClientFreesEnv, DropEnv, ClientGoes

LEMMA ClientSetsDoneEndInv == IInv /\ EndInv /\ ClientSetsDone => EndInv'
BY DEF ClientSetsDone, ClientGoes, Untouched

LEMMA HomeDrainsEndInv == ASSUME IInv, EndInv, HomeDrains PROVE EndInv'
<1>1. /\ cpc \in {"drop", "out"} /\ req' \in {"cl_env", "h_done", "h_drop"}
      /\ UNCHANGED <<cpc, op, tier, done, cancelReq, failed, killed, envDrops, homeLives>>
  BY DEF HomeDrains, Driven, Scheduled, ReqGoes, Unlink, LeftForAio
<1>2. rpc' = rpc \/ rpc' = "taken"
  BY DEF HomeDrains, Driven, Scheduled, ReqGoes, Unlink, LeftForAio
<1> QED
  BY <1>1, <1>2

LEMMA HomeFreesEnvEndInv == IInv /\ EndInv /\ HomeFreesEnv => EndInv'
BY DEF HomeFreesEnv, ReqGoes, DropEnv

LEMMA HomeSetsDoneEndInv == IInv /\ EndInv /\ HomeSetsDone => EndInv'
BY DEF HomeSetsDone, ReqGoes, SetDone, Woken

LEMMA HomeUnrefsEndInv == IInv /\ EndInv /\ HomeUnrefs => EndInv'
BY DEF HomeUnrefs, ReqGoes, Unref

LEMMA CleanupEndInv == IInv /\ EndInv /\ Cleanup => EndInv'
BY DEF Cleanup, ReqGoes

LEMMA DequeueEndInv ==
  ASSUME NEW p \in {"ring", "list", "aio"}, IInv, EndInv, Dequeue(p)
  PROVE  EndInv'
BY DEF Dequeue, FiberMoves, Driven, Scheduled

LEMMA InboxDrainedEndInv == IInv /\ EndInv /\ InboxDrained => EndInv'
BY DEF InboxDrained, FiberMoves

LEMMA FiberPostedEndInv == IInv /\ EndInv /\ FiberPosted => EndInv'
BY DEF FiberPosted, FiberMoves

LEMMA EntersEndInv ==
  ASSUME NEW s \in {"here", "there"}, IInv, EndInv, Enters(s)
  PROVE  EndInv'
BY DEF Enters

LEMMA LeavesEndInv ==
  ASSUME NEW s \in {"here", "there"}, IInv, EndInv, Leaves(s)
  PROVE  EndInv'
BY DEF Leaves

LEMMA CleanupWakeEndInv == IInv /\ EndInv /\ CleanupWake => EndInv'
BY DEF CleanupWake, FiberMoves

LEMMA FiberYieldsEndInv ==
  ASSUME NEW p \in {"ring", "list", "aio", "parked"}, IInv, EndInv, FiberYields(p)
  PROVE  EndInv'
BY DEF FiberYields, FiberMoves

LEMMA FiberWokenEndInv ==
  ASSUME NEW p \in {"ring", "list"}, IInv, EndInv, FiberWoken(p)
  PROVE  EndInv'
BY DEF FiberWoken, FiberMoves, Scheduled

LEMMA EndInvImpliesJoiner == IInv /\ EndInv => JoinerIsWoken
BY DEF JoinerIsWoken, RunnerPC

LEMMA EndInvImpliesNothingLeft == IInv /\ EndInv => NothingLeft
<1> SUFFICES ASSUME IInv, EndInv, Covered, cpc = "out", req = "none",
                    rpc \in {"exit", "end", "killed", "taken"}
             PROVE  freed /\ (envDrops = 1 \/ killed \/ failed)
  BY DEF NothingLeft
<1>1. rpc \in {"exit", "end"}
  OBVIOUS
<1>2. refcount = 0
  BY <1>1 DEF RefsMatchHolders, Count, RunnerHolds, ClientHolds, RequestHolds
<1> QED
  BY <1>1, <1>2 DEF RefsMatchHolders

HIDE DEF IInv, RecordTyped, TiersApart, PlaceKnown, OneDestroyer, DoneKnown, EnvKnown,
    EndInv, Joining, CancelKnown, KillKnown, EnvLeft, Canceling,
    Covered, Live, Destroying, HomeDestroying, FiberOnly, GivenUp, Unfinished,
    record, fiber, posix, fixed

LEMMA StutterEndInv == EndInv /\ UNCHANGED vars => EndInv'
BY DEF vars, EndInv, Joining, CancelKnown, KillKnown, EnvLeft, Covered

LEMMA NextEndInv == IInv /\ EndInv /\ [Next]_vars => EndInv'
<1> SUFFICES ASSUME IInv, EndInv, [Next]_vars PROVE EndInv'
  OBVIOUS
<1>1. CASE RunnerStep
  BY <1>1, BodyReturnsEndInv, BodyCancelledEndInv, RunnerSetsDoneEndInv,
     RunnerDropsDoneEndInv, RunnerFreesEnvEndInv, RunnerUnrefsEndInv,
     RunnerExitsEndInv DEF RunnerStep
<1>2. CASE SchedulerStep
  BY <1>2, PoolPopEndInv, PoolAdoptsEndInv, PoolDropsEndInv, DequeueEndInv,
     InboxDrainedEndInv DEF SchedulerStep
<1>3. CASE FiberStep
  BY <1>3, FiberYieldsEndInv, FiberReturnsEndInv DEF FiberStep
<1>4. CASE ClientStep
  BY <1>4, JoinTestEndInv, JoinParkEndInv, JoinDrivesEndInv, DriveReturnsEndInv,
     PollTestEndInv, ReapEndInv, DropHandleEndInv,
     DetachTestEndInv, DetachPthreadEndInv, CancelTestEndInv, KillEndInv,
     KillJoinEndInv, DropOwedEndInv, CancelFlagEndInv, CancelHomeEndInv,
     PostEndInv, DeadDoneEndInv, CancelLocalEndInv, PoolWalkEndInv,
     ClientFreesEnvEndInv, ClientSetsDoneEndInv DEF ClientStep
<1>5. CASE HomeStep
  BY <1>5, HomeDrainsEndInv, HomeFreesEnvEndInv, HomeSetsDoneEndInv,
     HomeUnrefsEndInv, CleanupWakeEndInv, CleanupEndInv DEF HomeStep
<1>6. CASE SpawnStarts \/ SpawnFails \/ HomeExits \/ Call \/ TryJoin
  BY <1>6, SpawnStartsEndInv, SpawnFailsEndInv, HomeExitsEndInv, CallEndInv, TryJoinEndInv
<1>7. CASE UNCHANGED vars
  BY <1>7, StutterEndInv
<1>8. CASE WakerStep \/ LoopStep
  BY <1>8, FiberWokenEndInv, FiberPostedEndInv, EntersEndInv, LeavesEndInv DEF WakerStep, LoopStep
<1> QED
  BY <1>1, <1>2, <1>3, <1>4, <1>5, <1>6, <1>7, <1>8 DEF Next

\* A joiner that waits, for a thread, a job or a fiber, or parked for a fiber, does
\* so before done_flag is set, and the runner has still to set it and to wake it:
\* no pool worker, canceller or cancel request does so in the runner's place.  A client
\* that reads the result reads it after the body is over.
THEOREM CompletionJoinMeetsTheEnd == Spec => []JoinMeetsTheEnd
<1>1. IInv /\ EndInv /\ [Next]_vars => EndInv'
  BY NextEndInv
<1>2. JoinSeesTheEnd /\ JoinerIsWoken => JoinMeetsTheEnd
  BY DEF JoinMeetsTheEnd
<1> QED
  BY InitEndInv, CompletionInvariant, <1>1, IInvImpliesSeen, EndInvImpliesJoiner, <1>2, PTL DEF Spec

\* When the handle is given up and neither the runner nor a request has a step to
\* take, the record was freed, and so was the environment, unless pthread_cancel
\* cut the body short or the spawn failed.
THEOREM CompletionNothingLeft == Spec => []NothingLeft
<1>1. IInv /\ EndInv /\ [Next]_vars => EndInv'
  BY NextEndInv
<1>2. IInv /\ EndInv => NothingLeft
  BY EndInvImpliesNothingLeft
<1> QED
  BY InitEndInv, CompletionInvariant, <1>1, <1>2, PTL DEF Spec
=============================================================================
