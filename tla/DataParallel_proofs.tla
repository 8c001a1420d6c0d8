------------------------ MODULE DataParallel_proofs ------------------------
(***************************************************************************)
(* Proofs about DataParallel for any range, slice, number of processors    *)
(* and limit of chunks, and whichever threads can be had.  Also where the  *)
(* arithmetic of the chunks overflows, no thread loses its record or its   *)
(* handle while it works, and each is given up exactly once (RecordInv).   *)
(* Where it does not, the chunks cut the range into pieces that do not     *)
(* meet, every item is done once (ItemInv), and what the helpers return is *)
(* what a loop over the items computes (ResultInv, and FilterInv).         *)
(***************************************************************************)
EXTENDS DataParallel, FiniteSetTheorems, SequenceTheorems, TLAPS

-----------------------------------------------------------------------------
(***************************************************************************)
(* How many chunks there are.                                              *)
(***************************************************************************)
\* What Init says of the call, and no step changes.
CallKnown ==
  /\ op \in RangeOps \cup SliceOps
  /\ cores \in Int /\ start \in Int /\ end \in Int
  /\ op \in SliceOps => start = 0 /\ end <= IntMax

LEMMA SmallMod ==
  ASSUME NEW n \in Nat, n > 0, NEW y \in 0 .. n - 1
  PROVE  y % n = y
OBVIOUS

LEMMA WrapKnown ==
  /\ \A x \in Int : Wrap(x) \in Int
  /\ \A x \in 0 .. IntMax : Wrap(x) = x
<1>1. IntMax \in Nat
  BY LimitAssumption
<1> DEFINE m == 2 * (IntMax + 1)
<1>2. m \in Nat /\ m > 0
  BY <1>1
<1>3. \A x \in Int : Wrap(x) \in Int
  BY <1>1, <1>2 DEF Wrap
<1>4. ASSUME NEW x \in 0 .. IntMax PROVE Wrap(x) = x
  <2>1. x + IntMax + 1 \in 0 .. m - 1
    BY <1>1
  <2>2. (x + IntMax + 1) % m = x + IntMax + 1
    BY <2>1, <1>2, SmallMod
  <2> QED
    BY <1>1, <2>2 DEF Wrap
<1> QED
  BY <1>3, <1>4

\* Never more than Limit; and a slice with something in it has at least one.
LEMMA ChunksKnown ==
  ASSUME CallKnown
  PROVE  /\ Chunks \in Int /\ Chunks <= Limit
         /\ op \in SliceOps /\ start < end => Chunks >= 1
<1>1. Limit \in Nat /\ Limit >= 1
  BY LimitAssumption
<1>2. Procs \in Int /\ Procs >= 1 /\ Procs <= Limit
  BY <1>1 DEF CallKnown, Procs
<1>3. Total \in Int
  BY WrapKnown DEF CallKnown, Total
<1>4. op \in SliceOps /\ start < end => Total >= 1
  <2> SUFFICES ASSUME op \in SliceOps, start < end PROVE Total >= 1
    OBVIOUS
  <2>1. end - start = end /\ end \in 0 .. IntMax /\ end >= 1
    BY LimitAssumption DEF CallKnown
  <2> QED
    BY <2>1, WrapKnown DEF Total
<1> QED
  BY <1>1, <1>2, <1>3, <1>4 DEF Chunks

-----------------------------------------------------------------------------
(***************************************************************************)
(* What is held of a chunk, by how far the call is with it.                *)
(***************************************************************************)
Keeps == {"for_each", "map"}

\* It has not been started.
Fresh(c) == th[c] = "none" /\ refs[c] = 0 /\ freed[c] = 0 /\ c \notin lost

\* It was started and not joined: the caller holds a reference, and so does the
\* thread until it ends.
Out(c) ==
  /\ th[c] \in {"work", "done", "gone", "failed"}
  /\ refs[c] = IF th[c] \in {"work", "done"} THEN 2 ELSE 1
  /\ freed[c] = IF th[c] = "gone" /\ op \in FreedByThread THEN 1 ELSE 0
  /\ op \in Keeps => (c \in lost <=> th[c] = "failed")

\* It was joined once: a filter still holds the handle, and a filter and a scan
\* the record.
Once(c) ==
  /\ th[c] \in {"gone", "failed"}
  /\ refs[c] = IF op = "filter" THEN 1 ELSE 0
  /\ freed[c] = IF \/ op = "filter" \/ op \in Scans
                   \/ op \in Keeps /\ c \in lost
                THEN 0 ELSE 1

\* Everything was given up.
Given(c) ==
  /\ th[c] \in {"gone", "failed"}
  /\ refs[c] = 0
  /\ freed[c] = IF op \in Keeps /\ c \in lost THEN 0 ELSE 1

\* Where the caller is says which chunks are where.
ChunkKnown(c) ==
  /\ c >= Chunks => Fresh(c)
  /\ c < Chunks =>
       /\ pc = "call" => Fresh(c)
       /\ pc = "spawn" => IF c < k THEN Out(c) ELSE Fresh(c)
       /\ pc = "inline" => IF c <= k THEN Out(c) ELSE Fresh(c)
       /\ pc = "join" => IF c < k THEN Once(c) ELSE Out(c)
       /\ pc = "compact" => IF c < k THEN Given(c) ELSE Once(c)
       /\ pc = "offsets" => IF 1 <= c /\ c < k THEN Out(c) ELSE Once(c)
       /\ pc = "rejoin" => IF c = 0 THEN Once(c) ELSE IF c < k THEN Given(c) ELSE Out(c)
       /\ pc = "returned" => Fresh(c) \/ Given(c)

CallerKnown ==
  /\ k \in Nat
  /\ pc \in {"call", "spawn", "inline", "join", "compact", "offsets", "rejoin", "returned"}
  /\ pc \notin {"call", "returned"} => start < end
  /\ pc = "call" => k = 0
  /\ pc = "inline" => op \in Inlines
  /\ pc = "compact" => op = "filter"
  /\ pc \in {"offsets", "rejoin"} => op \in Scans /\ k >= 1

RecordsTyped ==
  /\ th \in [Slots -> {"none", "work", "done", "gone", "failed"}]
  /\ refs \in [Slots -> Int]
  /\ freed \in [Slots -> Int]

RecordInv == CallKnown /\ CallerKnown /\ RecordsTyped /\ \A c \in Slots : ChunkKnown(c)

LEMMA InitRecordInv == Init => RecordInv
<1> SUFFICES ASSUME Init PROVE RecordInv
  OBVIOUS
<1>1. CallKnown
  BY OpsAssumption, RangesAssumption, LimitAssumption DEF Init, CallKnown, RangeOps, SliceOps
<1>2. CallerKnown /\ RecordsTyped
  BY DEF Init, CallerKnown, RecordsTyped
<1>3. \A c \in Slots : ChunkKnown(c)
  BY DEF Init, ChunkKnown, Fresh
<1> QED
  BY <1>1, <1>2, <1>3 DEF RecordInv

LEMMA RecordInvImpliesRecordsKept == RecordInv => RecordsKept
<1> SUFFICES ASSUME RecordInv PROVE RecordsKept
  OBVIOUS
<1>1. Chunks \in Int
  BY ChunksKnown DEF RecordInv
<1>2. Slots \subseteq Int /\ k \in Int
  BY LimitAssumption DEF Slots, RecordInv, CallerKnown
<1>3. ASSUME NEW c \in Slots, th[c] \in {"work", "done"} PROVE freed[c] = 0 /\ refs[c] > 0
  <2>1. ChunkKnown(c) /\ CallerKnown
    BY DEF RecordInv
  <2>2. Out(c)
    BY <1>1, <1>2, <1>3, <2>1 DEF ChunkKnown, CallerKnown, Fresh, Once, Given
  <2> QED
    BY <1>3, <2>2 DEF Out
<1>4. ASSUME pc = "returned", NEW c \in Slots
      PROVE  /\ th[c] \in {"none", "gone", "failed"}
             /\ refs[c] = 0
             /\ freed[c] = IF th[c] = "none" \/ (c \in lost /\ op \in {"for_each", "map"})
                           THEN 0 ELSE 1
  <2>1. Fresh(c) \/ Given(c)
    BY <1>1, <1>2, <1>4 DEF RecordInv, ChunkKnown
  <2> QED
    BY <2>1 DEF Fresh, Given, Keeps
<1> QED
  BY <1>3, <1>4 DEF RecordsKept

-----------------------------------------------------------------------------
(***************************************************************************)
(* Steps of the threads.                                                   *)
(***************************************************************************)
Same(c) ==
  /\ th'[c] = th[c] /\ refs'[c] = refs[c] /\ freed'[c] = freed[c]
  /\ c \in lost' <=> c \in lost

LEMMA Untouched ==
  ASSUME UNCHANGED call, NEW c \in Slots, Same(c)
  PROVE  /\ Fresh(c)' <=> Fresh(c)
         /\ Out(c)' <=> Out(c)
         /\ Once(c)' <=> Once(c)
         /\ Given(c)' <=> Given(c)
BY DEF call, Same, Fresh, Out, Once, Given

LEMMA SameCall ==
  ASSUME CallKnown, UNCHANGED call
  PROVE  CallKnown' /\ Chunks' = Chunks
BY DEF call, CallKnown, Chunks, Procs, Total, Wrap

\* Whoever works on a chunk, the records and the caller's place are as before.
LEMMA StillKnown ==
  ASSUME RecordInv, UNCHANGED <<call, pc, k, th, refs, freed, lost>>
  PROVE  RecordInv'
<1>1. CallKnown' /\ Chunks' = Chunks
  BY SameCall DEF RecordInv
<1>2. CallerKnown' /\ RecordsTyped'
  BY DEF RecordInv, CallerKnown, RecordsTyped, call
<1>3. \A c \in Slots : ChunkKnown(c)'
  BY <1>1, Untouched DEF RecordInv, ChunkKnown, Same
<1> QED
  BY <1>1, <1>2, <1>3 DEF RecordInv

\* A thread that takes a step is that of a chunk that is out.
LEMMA RunningIsOut ==
  ASSUME RecordInv, NEW c \in Slots, th[c] \in {"work", "done"}
  PROVE  Out(c)
<1>1. ChunkKnown(c) /\ CallerKnown /\ Chunks \in Int /\ c \in Int
  BY ChunksKnown, LimitAssumption DEF RecordInv, Slots
<1> QED
  BY <1>1 DEF ChunkKnown, CallerKnown, Fresh, Once, Given

\* When one chunk goes from being out to being out, all the rest is as before.
LEMMA OutStaysOut ==
  ASSUME RecordInv, NEW c \in Slots, th[c] \in {"work", "done"}, Out(c)',
         UNCHANGED <<call, pc, k>>, RecordsTyped',
         \A d \in Slots \ {c} : Same(d)
  PROVE  RecordInv'
<1>1. CallKnown' /\ Chunks' = Chunks
  BY SameCall DEF RecordInv
<1>2. CallerKnown'
  BY DEF RecordInv, CallerKnown, call
<1>3. ChunkKnown(c)'
  <2>1. ChunkKnown(c) /\ CallerKnown /\ Chunks \in Int /\ c \in Int
    BY ChunksKnown, LimitAssumption DEF RecordInv, Slots
  <2>2. ~Fresh(c) /\ ~Once(c) /\ ~Given(c)
    BY DEF Fresh, Once, Given
  <2> QED
    BY <1>1, <2>1, <2>2 DEF ChunkKnown
<1>4. \A d \in Slots \ {c} : ChunkKnown(d)'
  BY <1>1, Untouched DEF RecordInv, ChunkKnown
<1> QED
  BY <1>1, <1>2, <1>3, <1>4 DEF RecordInv

LEMMA ThreadRecordInv ==
  ASSUME RecordInv, NEW c \in Slots, Work(c) \/ SetDone(c) \/ End(c)
  PROVE  RecordInv'
<1>1. CASE Work(c)
  BY <1>1, StillKnown DEF Work
<1>2. CASE SetDone(c)
  <2>1. Out(c) /\ RecordsTyped
    BY <1>2, RunningIsOut DEF SetDone, RecordInv
  <2>2. Out(c)' /\ RecordsTyped'
    BY <1>2, <2>1 DEF SetDone, Out, RecordsTyped, call
  <2>3. \A d \in Slots \ {c} : Same(d)
    BY <1>2, <2>1 DEF SetDone, Same, RecordsTyped
  <2> QED
    BY <1>2, <2>2, <2>3, OutStaysOut DEF SetDone
<1>3. CASE End(c)
  <2>1. Out(c) /\ RecordsTyped
    BY <1>3, RunningIsOut DEF End, RecordInv
  <2>2. Out(c)' /\ RecordsTyped'
    BY <1>3, <2>1 DEF End, Unref, FreeRecord, Out, RecordsTyped, call
  <2>3. \A d \in Slots \ {c} : Same(d)
    BY <1>3, <2>1 DEF End, Unref, FreeRecord, Same, RecordsTyped
  <2> QED
    BY <1>3, <2>2, <2>3, OutStaysOut DEF End
<1> QED
  BY <1>1, <1>2, <1>3

-----------------------------------------------------------------------------
(***************************************************************************)
(* Steps of the caller.                                                    *)
(***************************************************************************)
\* What every step of the caller starts from.
LEMMA AtHand ==
  ASSUME RecordInv
  PROVE  /\ CallKnown /\ CallerKnown /\ RecordsTyped /\ k \in Nat
         /\ Chunks \in Int /\ Chunks <= Limit /\ Limit \in Nat
         /\ Slots \subseteq Nat /\ 0 \in Slots
         /\ k < Chunks => k \in Slots
         /\ op \in SliceOps /\ start < end => Chunks >= 1
         /\ \A c \in Slots : ChunkKnown(c)
BY ChunksKnown, LimitAssumption DEF RecordInv, CallerKnown, Slots

\* A step that changes nothing of the chunks but the caller's place.
LEMMA CallerMoves ==
  ASSUME RecordInv, UNCHANGED <<call, th, refs, freed, lost>>, CallerKnown',
         \A c \in Slots : ChunkKnown(c)'
  PROVE  RecordInv'
BY SameCall DEF RecordInv, RecordsTyped

LEMMA BeginRecordInv == RecordInv /\ Begin => RecordInv'
<1> SUFFICES ASSUME RecordInv, Begin PROVE RecordInv'
  OBVIOUS
<1>1. CallerKnown'
  BY AtHand DEF Begin, CallerKnown, call, CallKnown
<1>2. ASSUME NEW c \in Slots PROVE ChunkKnown(c)'
  BY AtHand, SameCall, Untouched DEF Begin, ChunkKnown, CallerKnown, Same
<1> QED
  BY <1>1, <1>2, CallerMoves DEF Begin

LEMMA SpawnRecordInv == RecordInv /\ Spawn => RecordInv'
<1> SUFFICES ASSUME RecordInv, Spawn PROVE RecordInv'
  OBVIOUS
<1>1. PICK result \in BOOLEAN :
        /\ Started(k, result)
        /\ IF ~result /\ RunsInline
           THEN pc' = "inline" /\ UNCHANGED k
           ELSE k' = k + 1 /\ UNCHANGED pc
  BY DEF Spawn
<1>2. CallKnown' /\ Chunks' = Chunks
  BY AtHand, SameCall DEF Spawn
<1>3. PICK j \in Slots : j = k
  BY AtHand DEF Spawn
<1>4. CallerKnown'
  BY <1>1, AtHand DEF Spawn, CallerKnown, RunsInline, call
<1>5. RecordsTyped'
  <2>1. th' \in [Slots -> {"none", "work", "done", "gone", "failed"}]
    BY <1>1, AtHand DEF Started, RecordsTyped
  <2>2. refs' = [refs EXCEPT ![k] = 2] \/ refs' = [refs EXCEPT ![k] = 1]
    BY <1>1 DEF Started
  <2>3. refs' \in [Slots -> Int]
    BY <2>2, AtHand DEF RecordsTyped
  <2> QED
    BY <2>1, <2>3, AtHand DEF Spawn, RecordsTyped
<1>6. Fresh(j)
  BY <1>2, <1>3, AtHand DEF Spawn, ChunkKnown
<1>7. Out(j)'
  BY <1>1, <1>2, <1>3, <1>6, AtHand
     DEF Spawn, Started, RunsInline, Inlines, Keeps, RecordsTyped, Fresh, Out, call
<1>8. ASSUME NEW c \in Slots \ {j} PROVE Same(c)
  BY <1>1, <1>8, <1>3, AtHand DEF Spawn, Started, RecordsTyped, Same
<1>9. ASSUME NEW c \in Slots PROVE ChunkKnown(c)'
  <2>1. CASE c = j
    BY <1>1, <1>2, <1>3, <1>7, <2>1, AtHand DEF Spawn, ChunkKnown
  <2>2. CASE c # j
    <3>1. (Fresh(c)' <=> Fresh(c)) /\ (Out(c)' <=> Out(c))
      BY <1>8, <2>2, Untouched DEF Spawn
    <3> QED
      BY <1>1, <1>2, <1>3, <2>2, <3>1, AtHand DEF Spawn, ChunkKnown
  <2> QED
    BY <2>1, <2>2
<1> QED
  BY <1>2, <1>4, <1>5, <1>9 DEF RecordInv

LEMMA InlineRecordInv == RecordInv /\ Inline => RecordInv'
<1> SUFFICES ASSUME RecordInv, Inline PROVE RecordInv'
  OBVIOUS
<1>1. CASE at[k] < To(k)
  BY <1>1, StillKnown DEF Inline
<1>2. CASE ~(at[k] < To(k))
  <2>1. CallerKnown'
    BY <1>2, AtHand DEF Inline, CallerKnown, call
  <2>2. ASSUME NEW c \in Slots PROVE ChunkKnown(c)'
    <3>1. (Fresh(c)' <=> Fresh(c)) /\ (Out(c)' <=> Out(c)) /\ Chunks' = Chunks
      BY AtHand, Untouched, SameCall DEF Inline, Same
    <3> QED
      BY <1>2, <3>1, AtHand DEF Inline, ChunkKnown
  <2> QED
    BY <2>1, <2>2, CallerMoves DEF Inline
<1> QED
  BY <1>1, <1>2

LEMMA SpawnsEndRecordInv == RecordInv /\ SpawnsEnd => RecordInv'
<1> SUFFICES ASSUME RecordInv, SpawnsEnd PROVE RecordInv'
  OBVIOUS
<1>1. CallerKnown'
  BY AtHand DEF SpawnsEnd, CallerKnown, call
<1>2. ASSUME NEW c \in Slots PROVE ChunkKnown(c)'
  <2>1. (Fresh(c)' <=> Fresh(c)) /\ (Out(c)' <=> Out(c)) /\ Chunks' = Chunks
    BY AtHand, Untouched, SameCall DEF SpawnsEnd, Same
  <2> QED
    BY <2>1, AtHand DEF SpawnsEnd, ChunkKnown
<1> QED
  BY <1>1, <1>2, CallerMoves DEF SpawnsEnd

LEMMA JoinRecordInv == RecordInv /\ Join => RecordInv'
<1> SUFFICES ASSUME RecordInv, Join PROVE RecordInv'
  OBVIOUS
<1>1. CallKnown' /\ Chunks' = Chunks
  BY AtHand, SameCall DEF Join
<1>2. PICK j \in Slots : j = k
  BY AtHand DEF Join
<1>3. CallerKnown' /\ RecordsTyped'
  BY AtHand DEF Join, Unref, FreeRecord, CallerKnown, RecordsTyped, call
<1>4. Out(j)
  BY <1>2, AtHand DEF Join, ChunkKnown
<1>5. Once(j)'
  <2>1. th'[j] = th[j] /\ th[j] \in {"gone", "failed"} /\ (j \in lost' <=> j \in lost) /\ op' = op
    BY <1>2 DEF Join, Joined, call
  <2>2. refs'[j] = IF op = "filter" THEN 1 ELSE 0
    BY <1>2, <1>4, <2>1, AtHand DEF Join, Unref, Out, RecordsTyped
  <2>3. freed'[j] = IF \/ op \in {"reduce_int", "reduce"}
                       \/ op \in Inlines /\ th[j] = "failed"
                       \/ th[j] = "gone" /\ op \in FreedByThread
                    THEN 1 ELSE 0
    BY <1>2, <1>4, <2>1, AtHand DEF Join, FreeRecord, Out, RecordsTyped, Inlines, FreedByThread
  <2>4. op \in Keeps => (j \in lost <=> th[j] = "failed")
    BY <1>4 DEF Out
  <2> QED
    BY <2>1, <2>2, <2>3, <2>4, AtHand
       DEF Once, Keeps, Inlines, FreedByThread, Scans, CallKnown, RangeOps, SliceOps
<1>6. ASSUME NEW c \in Slots \ {j} PROVE Same(c)
  BY <1>2, <1>6, AtHand DEF Join, Unref, FreeRecord, RecordsTyped, Same
<1>7. ASSUME NEW c \in Slots PROVE ChunkKnown(c)'
  <2>1. CASE c = j
    BY <1>1, <1>2, <1>5, <2>1, AtHand DEF Join, ChunkKnown
  <2>2. CASE c # j
    <3>1. (Fresh(c)' <=> Fresh(c)) /\ (Out(c)' <=> Out(c)) /\ (Once(c)' <=> Once(c))
      BY <1>6, <2>2, Untouched DEF Join
    <3> QED
      BY <1>1, <1>2, <2>2, <3>1, AtHand DEF Join, ChunkKnown
  <2> QED
    BY <2>1, <2>2
<1> QED
  BY <1>1, <1>3, <1>7 DEF RecordInv

LEMMA JoinsEndRecordInv == RecordInv /\ JoinsEnd => RecordInv'
<1> SUFFICES ASSUME RecordInv, JoinsEnd PROVE RecordInv'
  OBVIOUS
<1>1. /\ pc' \in {"compact", "offsets", "returned"}
      /\ pc' = "compact" => op = "filter"
      /\ pc' = "offsets" => op \in Scans
      /\ pc' = "returned" => op \notin Scans /\ op # "filter"
      /\ k' = IF op \in Scans THEN 1 ELSE 0
  BY DEF JoinsEnd, Scans
<1>2. CallerKnown'
  BY <1>1, AtHand DEF JoinsEnd, CallerKnown, call
<1>3. ASSUME NEW c \in Slots PROVE ChunkKnown(c)'
  <2>1. /\ Fresh(c)' <=> Fresh(c)
        /\ Once(c)' <=> Once(c)
        /\ Given(c)' <=> Given(c)
        /\ Chunks' = Chunks
    BY AtHand, Untouched, SameCall DEF JoinsEnd, Same
  <2>2. c < Chunks => Once(c)
    BY AtHand DEF JoinsEnd, ChunkKnown
  <2>3. pc' = "returned" /\ Once(c) => Given(c)
    BY <1>1 DEF Once, Given
  <2> QED
    BY <1>1, <2>1, <2>2, <2>3, AtHand DEF ChunkKnown, Scans
<1> QED
  BY <1>2, <1>3, CallerMoves DEF JoinsEnd

LEMMA CompactRecordInv == RecordInv /\ Compact => RecordInv'
<1> SUFFICES ASSUME RecordInv, Compact PROVE RecordInv'
  OBVIOUS
<1>1. CallKnown' /\ Chunks' = Chunks
  BY AtHand, SameCall DEF Compact
<1>2. PICK j \in Slots : j = k
  BY AtHand DEF Compact
<1>3. CallerKnown' /\ RecordsTyped'
  BY SMTT(30), AtHand DEF Compact, Unref, FreeRecord, CallerKnown, RecordsTyped, call
<1>4. Once(j) /\ op = "filter"
  BY <1>2, AtHand DEF Compact, ChunkKnown, CallerKnown
<1>5. Given(j)'
  BY <1>2, <1>4, AtHand DEF Compact, Unref, FreeRecord, Once, Given, RecordsTyped, Keeps, call
<1>6. ASSUME NEW c \in Slots \ {j} PROVE Same(c)
  BY <1>2, <1>6, AtHand DEF Compact, Unref, FreeRecord, RecordsTyped, Same
<1>7. ASSUME NEW c \in Slots PROVE ChunkKnown(c)'
  <2>1. CASE c = j
    BY <1>1, <1>2, <1>5, <2>1, AtHand DEF Compact, ChunkKnown
  <2>2. CASE c # j
    <3>1. (Fresh(c)' <=> Fresh(c)) /\ (Once(c)' <=> Once(c)) /\ (Given(c)' <=> Given(c))
      BY <1>6, <2>2, Untouched DEF Compact
    <3> QED
      BY <1>1, <1>2, <2>2, <3>1, AtHand DEF Compact, ChunkKnown
  <2> QED
    BY <2>1, <2>2
<1> QED
  BY <1>1, <1>3, <1>7 DEF RecordInv

LEMMA SpawnOffsetRecordInv == RecordInv /\ SpawnOffset => RecordInv'
<1> SUFFICES ASSUME RecordInv, SpawnOffset PROVE RecordInv'
  OBVIOUS
<1>1. PICK result \in BOOLEAN : Started(k, result)
  BY DEF SpawnOffset
<1>2. CallKnown' /\ Chunks' = Chunks
  BY AtHand, SameCall DEF SpawnOffset
<1>3. PICK j \in Slots : j = k
  BY AtHand DEF SpawnOffset
<1>4. CallerKnown'
  BY AtHand DEF SpawnOffset, CallerKnown, call
<1>5. RecordsTyped'
  <2>1. th' \in [Slots -> {"none", "work", "done", "gone", "failed"}]
    BY <1>1, AtHand DEF Started, RecordsTyped
  <2>2. refs' = [refs EXCEPT ![k] = 2] \/ refs' = [refs EXCEPT ![k] = 1]
    BY <1>1 DEF Started
  <2>3. refs' \in [Slots -> Int]
    BY <2>2, AtHand DEF RecordsTyped
  <2> QED
    BY <2>1, <2>3, AtHand DEF SpawnOffset, RecordsTyped
<1>6. Once(j) /\ op \in Scans
  BY <1>2, <1>3, AtHand DEF SpawnOffset, ChunkKnown, CallerKnown
<1>7. Out(j)'
  BY <1>1, <1>3, <1>6, AtHand
     DEF SpawnOffset, Started, Scans, Keeps, FreedByThread, RecordsTyped, Once, Out, call
<1>8. ASSUME NEW c \in Slots \ {j} PROVE Same(c)
  BY <1>1, <1>3, <1>8, AtHand DEF SpawnOffset, Started, RecordsTyped, Same
<1>9. ASSUME NEW c \in Slots PROVE ChunkKnown(c)'
  <2>1. CASE c = j
    BY <1>2, <1>3, <1>7, <2>1, AtHand DEF SpawnOffset, ChunkKnown, CallerKnown
  <2>2. CASE c # j
    <3>1. (Fresh(c)' <=> Fresh(c)) /\ (Out(c)' <=> Out(c)) /\ (Once(c)' <=> Once(c))
      BY <1>8, <2>2, Untouched DEF SpawnOffset
    <3> QED
      BY <1>2, <1>3, <2>2, <3>1, AtHand DEF SpawnOffset, ChunkKnown
  <2> QED
    BY <2>1, <2>2
<1> QED
  BY <1>2, <1>4, <1>5, <1>9 DEF RecordInv

LEMMA OffsetsEndRecordInv == RecordInv /\ OffsetsEnd => RecordInv'
<1> SUFFICES ASSUME RecordInv, OffsetsEnd PROVE RecordInv'
  OBVIOUS
<1>1. CallerKnown'
  BY AtHand DEF OffsetsEnd, CallerKnown, call
<1>2. ASSUME NEW c \in Slots PROVE ChunkKnown(c)'
  <2>1. /\ Fresh(c)' <=> Fresh(c)
        /\ Out(c)' <=> Out(c)
        /\ Once(c)' <=> Once(c)
        /\ Chunks' = Chunks
    BY AtHand, Untouched, SameCall DEF OffsetsEnd, Same
  <2> QED
    BY <2>1, AtHand DEF OffsetsEnd, ChunkKnown
<1> QED
  BY <1>1, <1>2, CallerMoves DEF OffsetsEnd

LEMMA RejoinRecordInv == RecordInv /\ Rejoin => RecordInv'
<1> SUFFICES ASSUME RecordInv, Rejoin PROVE RecordInv'
  OBVIOUS
<1>1. CallKnown' /\ Chunks' = Chunks
  BY AtHand, SameCall DEF Rejoin
<1>2. PICK j \in Slots : j = k
  BY AtHand DEF Rejoin
<1>3. CallerKnown' /\ RecordsTyped'
  BY AtHand DEF Rejoin, Unref, FreeRecord, CallerKnown, RecordsTyped, call
<1>4. Out(j) /\ op \in Scans /\ j # 0
  BY <1>2, AtHand DEF Rejoin, ChunkKnown, CallerKnown
<1>5. Given(j)'
  BY <1>2, <1>4, AtHand
     DEF Rejoin, Joined, Unref, FreeRecord, Out, Given, RecordsTyped, Keeps, Scans,
         FreedByThread, call
<1>6. ASSUME NEW c \in Slots \ {j} PROVE Same(c)
  BY <1>2, <1>6, AtHand DEF Rejoin, Unref, FreeRecord, RecordsTyped, Same
<1>7. ASSUME NEW c \in Slots PROVE ChunkKnown(c)'
  <2>1. CASE c = j
    BY <1>1, <1>2, <1>4, <1>5, <2>1, AtHand DEF Rejoin, ChunkKnown
  <2>2. CASE c # j
    <3>1. /\ Fresh(c)' <=> Fresh(c)
          /\ Out(c)' <=> Out(c)
          /\ Once(c)' <=> Once(c)
          /\ Given(c)' <=> Given(c)
      BY <1>6, <2>2, Untouched DEF Rejoin
    <3> QED
      BY <1>1, <1>2, <2>2, <3>1, AtHand DEF Rejoin, ChunkKnown
  <2> QED
    BY <2>1, <2>2
<1> QED
  BY <1>1, <1>3, <1>7 DEF RecordInv

\* A scan frees the record of the first chunk, whose second pass there is none of.
LEMMA ReturnRecordInv == RecordInv /\ Return => RecordInv'
<1> SUFFICES ASSUME RecordInv, Return PROVE RecordInv'
  OBVIOUS
<1>1. CallKnown' /\ Chunks' = Chunks
  BY AtHand, SameCall DEF Return
<1>2. CallerKnown'
  BY AtHand DEF Return, CallerKnown, call
<1>3. CASE pc = "compact"
  <2>1. ASSUME NEW c \in Slots PROVE ChunkKnown(c)'
    <3>1. (Fresh(c)' <=> Fresh(c)) /\ (Given(c)' <=> Given(c))
      BY <1>3, Untouched DEF Return, Same
    <3> QED
      BY <1>1, <1>3, <3>1, AtHand DEF Return, ChunkKnown
  <2> QED
    BY <1>2, <1>3, <2>1, CallerMoves DEF Return
<1>4. CASE pc = "rejoin"
  <2>1. op \in Scans /\ Chunks >= 1
    BY <1>4, AtHand DEF CallerKnown, Scans, SliceOps
  <2>2. RecordsTyped'
    BY <1>4, AtHand DEF Return, FreeRecord, RecordsTyped
  <2>3. Given(0)'
    <3>1. Once(0)
      BY <1>4, <2>1, AtHand DEF ChunkKnown
    <3> QED
      BY <1>4, <2>1, <3>1, AtHand
         DEF Return, FreeRecord, Once, Given, RecordsTyped, Keeps, Scans, call
  <2>4. ASSUME NEW c \in Slots \ {0} PROVE Same(c)
    BY <1>4, <2>4, AtHand DEF Return, FreeRecord, RecordsTyped, Same
  <2>5. ASSUME NEW c \in Slots PROVE ChunkKnown(c)'
    <3>1. CASE c = 0
      BY <1>1, <2>1, <2>3, <3>1, AtHand DEF Return, ChunkKnown
    <3>2. CASE c # 0
      <4>1. (Fresh(c)' <=> Fresh(c)) /\ (Given(c)' <=> Given(c))
        BY <2>4, <3>2, Untouched DEF Return
      <4> QED
        BY <1>1, <1>4, <3>2, <4>1, AtHand DEF Return, ChunkKnown
    <3> QED
      BY <3>1, <3>2
  <2> QED
    BY <1>1, <1>2, <2>2, <2>5 DEF RecordInv
<1> QED
  BY <1>3, <1>4 DEF Return

-----------------------------------------------------------------------------
LEMMA NextRecordInv == RecordInv /\ [Next]_vars => RecordInv'
<1> SUFFICES ASSUME RecordInv, [Next]_vars PROVE RecordInv'
  OBVIOUS
<1>1. CASE Begin \/ Spawn \/ Inline \/ SpawnsEnd
  BY <1>1, BeginRecordInv, SpawnRecordInv, InlineRecordInv, SpawnsEndRecordInv
<1>2. CASE Join \/ JoinsEnd \/ Compact
  BY <1>2, JoinRecordInv, JoinsEndRecordInv, CompactRecordInv
<1>3. CASE SpawnOffset \/ OffsetsEnd \/ Rejoin \/ Return
  BY <1>3, SpawnOffsetRecordInv, OffsetsEndRecordInv, RejoinRecordInv, ReturnRecordInv
<1>4. CASE \E c \in Slots : Work(c) \/ SetDone(c) \/ End(c)
  BY <1>4, ThreadRecordInv
<1>5. CASE Terminated \/ UNCHANGED vars
  BY <1>5, StillKnown DEF Terminated, vars
<1> QED
  BY <1>1, <1>2, <1>3, <1>4, <1>5 DEF Next

\* However a range is cut and whichever threads can be had, a thread at work finds its
\* chunk's record and its handle; when the helper returns no thread is left, and every
\* record and handle was given up exactly once, but for what for_each and map lose.
THEOREM DataParallelRecordsKept == Spec => []RecordsKept
<1>1. Init => RecordInv
  BY InitRecordInv
<1>2. RecordInv /\ [Next]_vars => RecordInv'
  BY NextRecordInv
<1>3. RecordInv => RecordsKept
  BY RecordInvImpliesRecordsKept
<1> QED
  BY <1>1, <1>2, <1>3, PTL DEF Spec

-----------------------------------------------------------------------------
(***************************************************************************)
(* Where nothing overflows, the chunks cut the range into pieces that do   *)
(* not meet and leave nothing out.                                         *)
(***************************************************************************)
\* What Init says of a call whose chunks do not reach beyond IntMax.
CallFits == start \in -(IntMax + 1) .. IntMax /\ end \in -(IntMax + 1) .. IntMax /\ Fits

LEMMA RoundedUp ==
  ASSUME NEW t \in Nat, NEW n \in Nat, n >= 1
  PROVE  LET p == (t + n - 1) \div n
         IN  p \in Nat /\ n * p >= t /\ n * p <= t + n - 1
<1> DEFINE a == t + n - 1
           p == a \div n
<1>1. a \in Nat
  OBVIOUS
<1> HIDE DEF a
<1>2. p \in Int /\ n * p <= a /\ a < n * p + n
  BY <1>1
<1>3. p >= 0
  BY <1>1
<1> QED
  BY <1>2, <1>3 DEF a

LEMMA WrapIsIdentity ==
  ASSUME NEW x \in -(IntMax + 1) .. IntMax
  PROVE  Wrap(x) = x
<1>1. IntMax \in Nat
  BY LimitAssumption
<1> DEFINE m == 2 * (IntMax + 1)
<1>2. m \in Nat /\ m > 0 /\ x + IntMax + 1 \in 0 .. m - 1
  BY <1>1
<1>3. (x + IntMax + 1) % m = x + IntMax + 1
  BY <1>2, SmallMod
<1> QED
  BY <1>1, <1>3 DEF Wrap

\* How many chunks there are, and how long they are.
LEMMA ChunksFit ==
  ASSUME CallKnown, CallFits, start < end
  PROVE  /\ Chunks \in Nat /\ Per \in Nat
         /\ 1 <= Chunks /\ Chunks <= Procs /\ Procs \in Nat
         /\ Chunks * Per >= end - start
         /\ Chunks * Per <= end - start + Chunks - 1
<1>1. Limit \in Nat /\ Limit >= 1 /\ IntMax \in Nat
  BY LimitAssumption
<1>2. Procs \in Nat /\ Procs >= 1
  BY <1>1 DEF CallKnown, Procs
<1>3. start \in Int /\ end \in Int
  BY DEF CallKnown
<1>4. end - start \in 1 .. IntMax /\ end - start + Procs - 1 <= IntMax
  BY <1>1, <1>2, <1>3 DEF CallFits, Fits
<1>5. Total = end - start
  BY <1>1, <1>3, <1>4, WrapKnown DEF Total
<1>6. Chunks \in Nat /\ 1 <= Chunks /\ Chunks <= Procs
  BY <1>2, <1>3, <1>4, <1>5 DEF Chunks
<1>7. Total + Chunks - 1 \in 0 .. IntMax
  BY <1>1, <1>2, <1>3, <1>4, <1>5, <1>6
<1>8. Per = (Total + Chunks - 1) \div Chunks
  BY <1>7, WrapKnown DEF Per, Quotient
<1>9. Total \in Nat
  BY <1>3, <1>4, <1>5
<1> QED
  BY <1>2, <1>5, <1>6, <1>8, <1>9, RoundedUp

LEMMA Multiples ==
  ASSUME NEW p \in Nat, NEW a \in Nat, NEW b \in Nat, a < b
  PROVE  a * p \in Nat /\ b * p \in Nat /\ a * p + p <= b * p
<1>1. PICK d \in Nat : b = a + 1 + d
  <2>1. b - a - 1 \in Nat /\ b = a + 1 + (b - a - 1)
    OBVIOUS
  <2> QED
    BY <2>1
<1>2. b * p = a * p + p + d * p /\ d * p \in Nat /\ a * p \in Nat
  BY <1>1
<1> QED
  BY <1>2

\* Where a chunk begins, and where it ends.
LEMMA ChunkBounds ==
  ASSUME CallKnown, CallFits, start < end, NEW c \in Nat, c < Chunks
  PROVE  /\ c * Per \in Nat
         /\ From(c) = start + c * Per
         /\ To(c) = IF start + c * Per + Per > end THEN end ELSE start + c * Per + Per
<1>1. /\ Chunks \in Nat /\ Per \in Nat
      /\ 1 <= Chunks /\ Chunks <= Procs /\ Procs \in Nat
      /\ Chunks * Per <= end - start + Chunks - 1
  BY ChunksFit
<1>2. IntMax \in Nat /\ start \in Int /\ end \in Int /\ start >= -(IntMax + 1)
  BY LimitAssumption DEF CallKnown, CallFits
<1>3. end - start + Procs - 1 <= IntMax /\ end + Procs - 1 <= IntMax
  BY DEF CallFits, Fits
<1>4. c * Per \in Nat /\ c * Per + Per <= Chunks * Per
  BY <1>1, Multiples
<1> DEFINE x == c * Per
           y == Chunks * Per
<1>5. x \in Nat /\ y \in Int /\ x + Per <= y /\ y <= end - start + Chunks - 1
  BY <1>1, <1>4
<1> HIDE DEF x, y
<1>6. x \in 0 .. IntMax
  BY <1>1, <1>2, <1>3, <1>5
<1>7. start + x \in -(IntMax + 1) .. IntMax
  BY <1>1, <1>2, <1>3, <1>5
<1>8. start + x + Per \in -(IntMax + 1) .. IntMax
  BY <1>1, <1>2, <1>3, <1>5
<1>9. Wrap(x) = x /\ Wrap(start + x) = start + x /\ Wrap(start + x + Per) = start + x + Per
  BY <1>6, <1>7, <1>8, WrapKnown, WrapIsIdentity
<1>10. From(c) = start + x
  BY <1>9 DEF From, x
<1>11. UpTo(c) = start + x + Per
  BY <1>9, <1>10 DEF UpTo
<1> QED
  BY <1>4, <1>10, <1>11 DEF To, x

\* A chunk's items.
Piece(c) == From(c) .. To(c) - 1

LEMMA PiecesInside ==
  ASSUME CallKnown, CallFits, start < end, NEW c \in Nat, c < Chunks
  PROVE  /\ From(c) \in Int /\ To(c) \in Int
         /\ start <= From(c) /\ To(c) <= end
<1>1. c * Per \in Nat /\ Per \in Nat /\ start \in Int /\ end \in Int
  BY ChunkBounds, ChunksFit DEF CallKnown
<1> QED
  BY <1>1, ChunkBounds

LEMMA PiecesApart ==
  ASSUME CallKnown, CallFits, start < end,
         NEW c \in Nat, NEW d \in Nat, c < d, d < Chunks
  PROVE  Piece(c) \cap Piece(d) = {}
<1>1. Chunks \in Nat /\ Per \in Nat /\ start \in Int /\ end \in Int
  BY ChunksFit DEF CallKnown
<1>2. c < Chunks
  BY <1>1
<1>3. c * Per \in Nat /\ d * Per \in Nat /\ c * Per + Per <= d * Per
  BY <1>1, Multiples
<1> DEFINE x == c * Per
           y == d * Per
<1>4. /\ To(c) = IF start + x + Per > end THEN end ELSE start + x + Per
      /\ From(d) = start + y
      /\ x \in Nat /\ y \in Nat /\ x + Per <= y
  BY <1>2, <1>3, ChunkBounds
<1> HIDE DEF x, y
<1>5. To(c) <= From(d) /\ To(c) \in Int /\ From(d) \in Int
  BY <1>1, <1>4
<1>6. From(c) \in Int /\ To(d) \in Int
  BY <1>2, PiecesInside
<1> QED
  BY <1>5, <1>6 DEF Piece

LEMMA Remainder ==
  ASSUME NEW a \in Nat, NEW p \in Nat, p >= 1
  PROVE  LET q == a \div p IN q \in Nat /\ q * p <= a /\ a < q * p + p
<1> DEFINE q == a \div p
<1>1. q \in Int /\ p * q <= a /\ a < p * q + p
  OBVIOUS
<1>2. q >= 0
  OBVIOUS
<1>3. p * q = q * p
  BY <1>1
<1> QED
  BY <1>1, <1>2, <1>3

LEMMA PiecesCover ==
  ASSUME CallKnown, CallFits, start < end, NEW i \in start .. end - 1
  PROVE  \E c \in Nat : c < Chunks /\ i \in Piece(c)
<1>1. /\ Chunks \in Nat /\ Per \in Nat /\ start \in Int /\ end \in Int
      /\ Chunks >= 1 /\ Chunks * Per >= end - start
  BY ChunksFit DEF CallKnown
<1>2. Per >= 1
  <2>1. Per = 0 => Chunks * Per = 0
    BY <1>1
  <2> QED
    BY <1>1, <2>1
<1>3. i - start \in Nat /\ i - start < end - start
  BY <1>1
<1> DEFINE q == (i - start) \div Per
<1>4. q \in Nat /\ q * Per <= i - start /\ i - start < q * Per + Per
  BY <1>1, <1>2, <1>3, Remainder
<1> HIDE DEF q
<1>5. q < Chunks
  <2> SUFFICES ASSUME ~(q < Chunks) PROVE FALSE
    OBVIOUS
  <2>1. Chunks * Per <= q * Per
    <3>1. CASE Chunks < q
      BY <1>1, <1>4, <3>1, Multiples
    <3>2. CASE Chunks = q
      BY <1>1, <1>4, <3>2
    <3> QED
      BY <1>1, <1>4, <3>1, <3>2
  <2>2. q * Per \in Int /\ Chunks * Per \in Int
    BY <1>1, <1>4
  <2> DEFINE x == q * Per
             y == Chunks * Per
  <2>3. x \in Int /\ y \in Int /\ y <= x /\ x <= i - start /\ y >= end - start
    BY <1>1, <1>4, <2>1, <2>2
  <2> HIDE DEF x, y
  <2> QED
    BY <1>1, <1>3, <2>3
<1> DEFINE x == q * Per
<1>6. /\ From(q) = start + x
      /\ To(q) = IF start + x + Per > end THEN end ELSE start + x + Per
      /\ x \in Nat /\ x <= i - start /\ i - start < x + Per
  BY <1>4, <1>5, ChunkBounds
<1> HIDE DEF x
<1>7. i \in Piece(q)
  BY <1>1, <1>3, <1>6 DEF Piece
<1> QED
  BY <1>4, <1>5, <1>7

-----------------------------------------------------------------------------
(***************************************************************************)
(* How far each chunk is.                                                  *)
(***************************************************************************)
\* A chunk that was started is not beyond its end, and is there when its thread has
\* ended, or, where the caller does the chunk itself, when the caller goes on.
ItemKnown(c) ==
  th[c] # "none" =>
    /\ start < end
    /\ at[c] >= From(c) /\ (at[c] > From(c) => at[c] <= To(c))
    /\ th[c] \in {"done", "gone"} => at[c] >= To(c)
    /\ th[c] = "failed" => c \in lost \/ at[c] >= To(c) \/ (pc = "inline" /\ c = k)

\* The helper returns when every chunk was started, or there is none to start.
AllStarted ==
  pc = "returned" /\ start < end /\ ~Refused =>
    \A c \in Slots : c < Chunks => th[c] # "none"

\* The chunk that the caller does itself was started.
InlineKnown == pc = "inline" => k \in Slots /\ th[k] # "none"

ItemInv ==
  /\ RecordInv
  /\ CallFits
  /\ InlineKnown
  /\ at \in [Slots -> Int]
  /\ \A c \in Slots : ItemKnown(c)
  /\ AllStarted

LEMMA InitItemInv == Representable /\ Init => ItemInv
<1> SUFFICES ASSUME Representable, Init PROVE ItemInv
  OBVIOUS
<1>1. RecordInv
  BY InitRecordInv
<1>2. CallFits
  BY RangesAssumption, LimitAssumption DEF Init, CallFits
<1>3. at \in [Slots -> Int] /\ AllStarted /\ InlineKnown
  BY DEF Init, AllStarted, InlineKnown
<1>4. \A c \in Slots : ItemKnown(c)
  BY DEF Init, ItemKnown
<1> QED
  BY <1>1, <1>2, <1>3, <1>4 DEF ItemInv

\* The chunks that were started are among those there are.
LEMMA StartedIsChunk ==
  ASSUME ItemInv, NEW c \in Slots, th[c] # "none"
  PROVE  c \in Nat /\ c < Chunks /\ start < end /\ From(c) \in Int /\ To(c) \in Int
<1>1. c \in Nat /\ ChunkKnown(c) /\ Chunks \in Int /\ CallKnown
  BY AtHand DEF ItemInv
<1>2. c < Chunks /\ start < end
  BY <1>1 DEF ChunkKnown, Fresh, ItemInv, ItemKnown
<1> QED
  BY <1>1, <1>2, PiecesInside DEF ItemInv

-----------------------------------------------------------------------------
(***************************************************************************)
(* What the items done then come to.                                       *)
(***************************************************************************)
LEMMA DoneInPiece ==
  ASSUME ItemInv, NEW c \in Slots
  PROVE  Done(c) \subseteq Piece(c) /\ Done(c) \subseteq start .. end - 1
<1>1. CASE th[c] = "none"
  BY <1>1 DEF Done
<1>2. CASE th[c] # "none"
  <2>1. c \in Nat /\ c < Chunks /\ start < end /\ From(c) \in Int /\ To(c) \in Int
    BY <1>2, StartedIsChunk
  <2>2. start <= From(c) /\ To(c) <= end /\ start \in Int /\ end \in Int
    BY <2>1, PiecesInside DEF ItemInv, RecordInv, CallKnown
  <2>3. at[c] \in Int /\ (at[c] > From(c) => at[c] <= To(c))
    BY <1>2 DEF ItemInv, ItemKnown
  <2> QED
    BY <1>2, <2>1, <2>2, <2>3 DEF Done, Piece
<1> QED
  BY <1>1, <1>2

LEMMA DoneOnce ==
  ASSUME ItemInv, NEW i, NEW c \in DoneBy(i), NEW d \in DoneBy(i)
  PROVE  c = d
<1> SUFFICES ASSUME c # d PROVE FALSE
  OBVIOUS
<1>1. /\ c \in Slots /\ d \in Slots /\ th[c] # "none" /\ th[d] # "none"
      /\ i \in Piece(c) /\ i \in Piece(d)
  BY DoneInPiece DEF DoneBy, Done
<1>2. c \in Nat /\ d \in Nat /\ c < Chunks /\ d < Chunks /\ start < end
  BY <1>1, StartedIsChunk
<1>3. CallKnown /\ CallFits
  BY DEF ItemInv, RecordInv
<1>4. CASE c < d
  BY <1>1, <1>2, <1>3, <1>4, PiecesApart
<1>5. CASE d < c
  BY <1>1, <1>2, <1>3, <1>5, PiecesApart
<1> QED
  BY <1>2, <1>4, <1>5

LEMMA DoneByFew ==
  ASSUME ItemInv, NEW i
  PROVE  Cardinality(DoneBy(i)) <= 1
<1>1. CASE DoneBy(i) = {}
  BY <1>1, FS_EmptySet
<1>2. CASE DoneBy(i) # {}
  <2>1. PICK c \in DoneBy(i) : TRUE
    BY <1>2
  <2>2. DoneBy(i) = {c}
    BY <2>1, DoneOnce
  <2> QED
    BY <2>2, FS_Singleton
<1> QED
  BY <1>1, <1>2

LEMMA AllDone ==
  ASSUME ItemInv, Finished, NEW i \in start .. end - 1
  PROVE  DoneBy(i) # {}
<1>1. CallKnown /\ CallFits /\ start \in Int /\ end \in Int
  BY DEF ItemInv, RecordInv, CallKnown
<1>2. start < end
  BY <1>1
<1>3. PICK c \in Nat : c < Chunks /\ i \in Piece(c)
  BY <1>1, <1>2, PiecesCover
<1>4. c \in Slots
  BY <1>1, <1>3, ChunksKnown, LimitAssumption DEF Slots
<1>5. th[c] # "none"
  BY <1>2, <1>3, <1>4 DEF ItemInv, AllStarted, Finished
<1>6. th[c] \in {"gone", "failed"}
  <2>1. Fresh(c) \/ Given(c)
    BY <1>3, <1>4, AtHand DEF ItemInv, ChunkKnown, Finished
  <2> QED
    BY <1>5, <2>1 DEF Fresh, Given
<1>7. at[c] >= To(c)
  BY <1>4, <1>5, <1>6 DEF ItemInv, ItemKnown, Finished
<1>8. at[c] \in Int /\ From(c) \in Int /\ To(c) \in Int
  BY <1>4, <1>5, StartedIsChunk DEF ItemInv
<1>9. i \in Done(c)
  BY <1>3, <1>5, <1>7, <1>8 DEF Done, Piece
<1> QED
  BY <1>4, <1>9 DEF DoneBy

LEMMA ItemInvImpliesEachItemOnce == ItemInv => EachItemOnce
BY DoneInPiece, DoneByFew, AllDone DEF EachItemOnce

-----------------------------------------------------------------------------
(***************************************************************************)
(* Steps.                                                                  *)
(***************************************************************************)
LEMMA SamePieces ==
  ASSUME UNCHANGED call
  PROVE  /\ \A c : From(c)' = From(c) /\ To(c)' = To(c)
         /\ CallFits' <=> CallFits
         /\ Chunks' = Chunks /\ (Refused' <=> Refused)
         /\ start' = start /\ end' = end
<1>1. op' = op /\ start' = start /\ end' = end /\ cores' = cores
  BY DEF call
<1>2. Procs' = Procs /\ Total' = Total
  BY <1>1 DEF Procs, Total, Wrap
<1>3. Chunks' = Chunks
  BY <1>2 DEF Chunks
<1>4. Per' = Per
  BY <1>2, <1>3 DEF Per, Quotient, Wrap
<1>5. \A c : From(c)' = From(c)
  BY <1>1, <1>4 DEF From, Wrap
<1>6. \A c : UpTo(c)' = UpTo(c)
  BY <1>4, <1>5 DEF UpTo, Wrap
<1>7. \A c : To(c)' = To(c)
  BY <1>1, <1>6 DEF To
<1>8. CallFits' <=> CallFits
  BY <1>1, <1>2 DEF CallFits, Fits
<1>9. Refused' <=> Refused
  BY <1>1, <1>2 DEF Refused, TooLong
<1> QED
  BY <1>1, <1>3, <1>5, <1>7, <1>8, <1>9

\* Of a chunk that is not the one at hand everything that matters is as before.
LEMMA ItemStays ==
  ASSUME ItemInv, UNCHANGED call, NEW c \in Slots, th'[c] = th[c], at'[c] = at[c],
         lost \subseteq lost',
         pc = "inline" /\ c = k => pc' = "inline" /\ k' = k
  PROVE  ItemKnown(c)'
BY SamePieces DEF ItemInv, ItemKnown

\* Nothing was done and nobody has got anywhere, but for the caller.
LEMMA CallerOnly ==
  ASSUME ItemInv, RecordInv', UNCHANGED <<call, th, at, lost>>, pc # "inline", pc' # "inline",
         AllStarted'
  PROVE  ItemInv'
<1>1. CallFits' /\ (at \in [Slots -> Int])' /\ InlineKnown'
  BY SamePieces DEF ItemInv, InlineKnown
<1>2. \A c \in Slots : ItemKnown(c)'
  BY ItemStays
<1> QED
  BY <1>1, <1>2 DEF ItemInv

\* The steps that do not take the helper to its return.
LEMMA NotReturned == pc' # "returned" => AllStarted'
BY DEF AllStarted

LEMMA StartedStays ==
  ASSUME AllStarted, UNCHANGED <<call, pc>>,
         \A c \in Slots : th[c] # "none" => th'[c] # "none"
  PROVE  AllStarted'
BY SamePieces DEF AllStarted

\* One more item of a chunk is done, by its thread or by the caller.
LEMMA TreatItemInv ==
  ASSUME ItemInv, RecordInv', NEW c \in Slots, th[c] # "none", at[c] < To(c),
         at' = [at EXCEPT ![c] = at[c] + 1], UNCHANGED <<call, pc, k, th, lost>>
  PROVE  ItemInv'
<1>1. CallFits' /\ (at \in [Slots -> Int])' /\ InlineKnown'
  BY SamePieces DEF ItemInv, InlineKnown
<1>2. AllStarted'
  BY StartedStays DEF ItemInv
<1>3. ItemKnown(c)'
  <2>1. From(c) \in Int /\ To(c) \in Int /\ at[c] \in Int /\ start < end
    BY StartedIsChunk DEF ItemInv
  <2>2. at'[c] = at[c] + 1
    BY DEF ItemInv
  <2> QED
    BY <2>1, <2>2, SamePieces DEF ItemInv, ItemKnown
<1>4. \A d \in Slots \ {c} : ItemKnown(d)'
  BY ItemStays DEF ItemInv
<1> QED
  BY <1>1, <1>2, <1>3, <1>4 DEF ItemInv

\* A chunk's thread goes on, having done all of it.
LEMMA PassedItemInv ==
  ASSUME ItemInv, RecordInv', NEW c \in Slots, th[c] # "none", at[c] >= To(c),
         NEW s \in {"done", "gone"}, th' = [th EXCEPT ![c] = s],
         UNCHANGED <<call, pc, k, at, lost>>
  PROVE  ItemInv'
<1>1. CallFits' /\ (at \in [Slots -> Int])'
  BY SamePieces DEF ItemInv
<1>2. th'[c] = s /\ \A d \in Slots \ {c} : th'[d] = th[d]
  BY DEF ItemInv, RecordInv, RecordsTyped
<1>3. InlineKnown'
  BY <1>2 DEF ItemInv, InlineKnown
<1>4. AllStarted'
  BY <1>2, StartedStays DEF ItemInv
<1>5. ItemKnown(c)'
  BY <1>2, SamePieces DEF ItemInv, ItemKnown
<1>6. \A d \in Slots \ {c} : ItemKnown(d)'
  BY <1>2, ItemStays
<1> QED
  BY <1>1, <1>3, <1>4, <1>5, <1>6 DEF ItemInv

\* A chunk is handed to a thread, or to nobody, or left to the caller.
LEMMA StartedItemInv ==
  ASSUME ItemInv, RecordInv', k \in Slots, k < Chunks, start < end,
         NEW result \in BOOLEAN, Started(k, result), pc # "inline", pc' # "returned",
         ~result /\ RunsInline => pc' = "inline", pc' = "inline" => k' = k,
         UNCHANGED call
  PROVE  ItemInv'
<1>1. CallFits'
  BY SamePieces DEF ItemInv
<1>2. k \in Nat /\ From(k) \in Int /\ To(k) \in Int
  BY AtHand, PiecesInside DEF ItemInv, RecordInv
<1>3. (at \in [Slots -> Int])'
  BY <1>2 DEF ItemInv, Started
<1>4. PICK j \in Slots : j = k
  OBVIOUS
<1>5. InlineKnown'
  BY <1>4 DEF InlineKnown, Started, ItemInv, RecordInv, RecordsTyped
<1>6. ItemKnown(j)'
  <2>1. at'[j] = From(j) /\ th'[j] = IF result THEN "work" ELSE "failed"
    BY <1>4 DEF Started, ItemInv, RecordInv, RecordsTyped
  <2>2. ~result => j \in lost' \/ (pc' = "inline" /\ j = k')
    BY <1>4 DEF Started
  <2>3. From(j)' = From(j) /\ start' < end'
    BY SamePieces
  <2> QED
    BY <1>2, <1>4, <2>1, <2>2, <2>3 DEF ItemKnown
<1>7. ASSUME NEW c \in Slots \ {j} PROVE ItemKnown(c)'
  <2>1. th'[c] = th[c] /\ at'[c] = at[c] /\ lost \subseteq lost'
    BY <1>4, <1>7 DEF Started, ItemInv, RecordInv, RecordsTyped
  <2> QED
    BY <2>1, ItemStays
<1> QED
  BY <1>1, <1>3, <1>6, <1>7, <1>5, NotReturned DEF ItemInv

LEMMA ThreadItemInv ==
  ASSUME ItemInv, NEW c \in Slots, Work(c) \/ SetDone(c) \/ End(c)
  PROVE  ItemInv'
<1>1. RecordInv'
  BY ThreadRecordInv DEF ItemInv
<1>2. CASE Work(c)
  BY <1>1, <1>2, TreatItemInv DEF Work, Treat
<1>3. CASE SetDone(c)
  BY <1>1, <1>3, PassedItemInv DEF SetDone
<1>4. CASE End(c)
  <2>1. at[c] >= To(c)
    BY <1>4 DEF End, ItemInv, ItemKnown
  <2> QED
    BY <1>1, <1>4, <2>1, PassedItemInv DEF End
<1> QED
  BY <1>2, <1>3, <1>4

LEMMA SpawnItemInv == ItemInv /\ Spawn => ItemInv'
<1> SUFFICES ASSUME ItemInv, Spawn PROVE ItemInv'
  OBVIOUS
<1>1. RecordInv'
  BY SpawnRecordInv DEF ItemInv
<1>2. PICK result \in BOOLEAN :
        /\ Started(k, result)
        /\ IF ~result /\ RunsInline
           THEN pc' = "inline" /\ UNCHANGED k
           ELSE k' = k + 1 /\ UNCHANGED pc
  BY DEF Spawn
<1>3. k \in Slots /\ k < Chunks /\ start < end
  BY AtHand DEF Spawn, ItemInv, CallerKnown
<1> QED
  BY <1>1, <1>2, <1>3, StartedItemInv DEF Spawn

LEMMA SpawnOffsetItemInv == ItemInv /\ SpawnOffset => ItemInv'
<1> SUFFICES ASSUME ItemInv, SpawnOffset PROVE ItemInv'
  OBVIOUS
<1>1. RecordInv'
  BY SpawnOffsetRecordInv DEF ItemInv
<1>2. PICK result \in BOOLEAN : Started(k, result)
  BY DEF SpawnOffset
<1>3. k \in Slots /\ k < Chunks /\ start < end /\ op \in Scans
  BY AtHand DEF SpawnOffset, ItemInv, CallerKnown
<1>4. ~RunsInline
  BY <1>3 DEF RunsInline, Inlines, Scans
<1> QED
  BY <1>1, <1>2, <1>3, <1>4, StartedItemInv DEF SpawnOffset

\* The caller is through with a chunk that found no thread, and goes on to the next.
LEMMA InlineItemInv == ItemInv /\ Inline => ItemInv'
<1> SUFFICES ASSUME ItemInv, Inline PROVE ItemInv'
  OBVIOUS
<1>1. RecordInv'
  BY InlineRecordInv DEF ItemInv
<1>2. k \in Slots /\ th[k] # "none"
  BY DEF ItemInv, InlineKnown, Inline
<1>3. CASE at[k] < To(k)
  BY <1>1, <1>2, <1>3, TreatItemInv DEF Inline, Treat
<1>4. CASE ~(at[k] < To(k))
  <2>1. UNCHANGED <<call, th, at, lost>> /\ pc' = "spawn"
    BY <1>4 DEF Inline
  <2>2. CallFits' /\ (at \in [Slots -> Int])'
    BY <2>1, SamePieces DEF ItemInv
  <2>3. PICK j \in Slots : j = k
    BY <1>2
  <2>4. at[j] >= To(j)
    <3>1. at[j] \in Int /\ To(j) \in Int
      BY <1>2, <2>3, StartedIsChunk DEF ItemInv
    <3> QED
      BY <1>4, <2>3, <3>1
  <2>5. ItemKnown(j)'
    BY <2>1, <2>4, SamePieces DEF ItemInv, ItemKnown
  <2>6. \A c \in Slots \ {j} : ItemKnown(c)'
    BY <2>1, <2>3, ItemStays
  <2> QED
    BY <1>1, <2>1, <2>2, <2>5, <2>6, NotReturned DEF ItemInv, InlineKnown
<1> QED
  BY <1>3, <1>4

LEMMA CallerItemInv ==
  ASSUME ItemInv, Begin \/ SpawnsEnd \/ Join \/ Compact \/ OffsetsEnd \/ Rejoin
  PROVE  ItemInv'
<1>1. RecordInv'
  BY BeginRecordInv, SpawnsEndRecordInv, JoinRecordInv, CompactRecordInv,
     OffsetsEndRecordInv, RejoinRecordInv DEF ItemInv
<1>2. UNCHANGED <<call, th, at, lost>> /\ pc # "inline" /\ pc' # "inline"
  BY DEF Begin, SpawnsEnd, Join, Compact, OffsetsEnd, Rejoin, data
<1>3. AllStarted'
  <2>1. CASE Begin
    BY <1>2, <2>1, SamePieces, AtHand DEF Begin, AllStarted, ItemInv, CallKnown
  <2>2. CASE SpawnsEnd \/ Join \/ Compact \/ OffsetsEnd \/ Rejoin
    BY <2>2, NotReturned DEF SpawnsEnd, Join, Compact, OffsetsEnd, Rejoin
  <2> QED
    BY <2>1, <2>2
<1> QED
  BY <1>1, <1>2, <1>3, CallerOnly

\* When the caller is at its last step it has joined every chunk.
LEMMA LastItemInv ==
  ASSUME ItemInv, JoinsEnd \/ Return
  PROVE  ItemInv'
<1>1. RecordInv'
  BY JoinsEndRecordInv, ReturnRecordInv DEF ItemInv
<1>2. UNCHANGED <<call, th, at, lost>> /\ pc # "inline" /\ pc' # "inline"
  BY DEF JoinsEnd, Return, data
<1>3. ASSUME NEW c \in Slots, c < Chunks PROVE th[c] # "none"
  <2>1. /\ c \in Nat /\ k \in Nat /\ Chunks \in Int /\ k >= Chunks
        /\ pc \in {"join", "compact", "rejoin"} /\ ChunkKnown(c)
    BY AtHand DEF ItemInv, JoinsEnd, Return
  <2>2. Once(c) \/ Given(c)
    BY <1>3, <2>1 DEF ChunkKnown
  <2> QED
    BY <2>2 DEF Once, Given
<1>4. AllStarted'
  BY <1>2, <1>3, SamePieces DEF AllStarted
<1> QED
  BY <1>1, <1>2, <1>4, CallerOnly

LEMMA NextItemInv == ItemInv /\ [Next]_vars => ItemInv'
<1> SUFFICES ASSUME ItemInv, [Next]_vars PROVE ItemInv'
  OBVIOUS
<1>1. CASE Begin \/ SpawnsEnd \/ Join \/ Compact \/ OffsetsEnd \/ Rejoin
  BY <1>1, CallerItemInv
<1>2. CASE JoinsEnd \/ Return
  BY <1>2, LastItemInv
<1>3. CASE Spawn \/ Inline \/ SpawnOffset
  BY <1>3, SpawnItemInv, InlineItemInv, SpawnOffsetItemInv
<1>4. CASE \E c \in Slots : Work(c) \/ SetDone(c) \/ End(c)
  BY <1>4, ThreadItemInv
<1>5. CASE Terminated \/ UNCHANGED vars
  <2>1. UNCHANGED <<call, pc, k, th, at, refs, freed, lost>>
    BY <1>5 DEF Terminated, vars
  <2>2. RecordInv' /\ CallFits' /\ (at \in [Slots -> Int])' /\ InlineKnown'
    BY <2>1, StillKnown, SamePieces DEF ItemInv, InlineKnown
  <2>3. \A c \in Slots : ItemKnown(c)'
    BY <2>1, ItemStays
  <2>4. AllStarted'
    BY <2>1, StartedStays DEF ItemInv
  <2> QED
    BY <2>2, <2>3, <2>4 DEF ItemInv
<1> QED
  BY <1>1, <1>2, <1>3, <1>4, <1>5 DEF Next

\* Provided that no chunk reaches beyond INT64_MAX: for any range, slice, number of
\* processors and limit of chunks, and whichever threads can be had, the chunks that
\* __maka_par_for and the others hand out meet nowhere and stay inside the range, and
\* when the helper returns every item was done, unless its chunk found no thread or
\* map_int refused the call.
THEOREM DataParallelEachItemOnce == ASSUME Representable PROVE Spec => []EachItemOnce
<1>1. Init => ItemInv
  BY InitItemInv
<1>2. ItemInv /\ [Next]_vars => ItemInv'
  BY NextItemInv
<1>3. ItemInv => EachItemOnce
  BY ItemInvImpliesEachItemOnce
<1> QED
  BY <1>1, <1>2, <1>3, PTL DEF Spec

-----------------------------------------------------------------------------
(***************************************************************************)
(* What the results are on the way, as long as no chunk was lost.  Filter  *)
(* comes later.                                                            *)
(***************************************************************************)
\* The items a .. b in order.
Run(a, b) == [j \in 1 .. b - a + 1 |-> a + j - 1]

Maps == {"map_int", "map"}
Reduces == {"reduce_int", "reduce"}

\* The helpers whose result is claimed: a reduction's when it is seeded with an
\* identity of combine.
Claimed == op \in Reduces => Neutral
Reducing == op \in Reduces /\ Neutral

\* A scan is at the chunk for the second time.  The first chunk stays as it is.
Second(c) ==
  /\ op \in Scans /\ c >= 1
  /\ pc \in {"rejoin", "returned"} \/ (pc = "offsets" /\ c < k)

\* What the items of a chunk were given.
OutKnown(c) ==
  th[c] # "none" =>
    /\ op \in Maps => \A i \in Done(c) : Get(i) = <<i>>
    /\ op \in Scans /\ ~Second(c) => \A i \in Done(c) : Get(i) = Run(From(c), i)
    /\ op \in Scans /\ Second(c) =>
         \A i \in Piece(c) : Get(i) = IF i < at[c] THEN Run(start, i) ELSE Run(From(c), i)

\* What the record of a chunk holds.
AccKnown(c) ==
  th[c] # "none" =>
    /\ Reducing => acc[c] = Run(From(c), at[c] - 1)
    /\ op \in Scans /\ From(c) < To(c) =>
         acc[c] = IF Second(c) THEN Run(start, From(c) - 1) ELSE Run(From(c), at[c] - 1)

\* Only a helper that does the chunk itself goes on without a thread.
FailedKnown(c) == th[c] = "failed" => op \in Inlines

\* Where the chunks before c end.
Base(c) == IF c = 0 THEN start ELSE To(c - 1)
Before == IF op = "reduce_int" THEN <<InitValue>> ELSE <<>>
Openings == {<<>>, <<InitValue>>}

\* What the caller has merged.
SumKnown ==
  /\ Reducing /\ start < end =>
       /\ pc \in {"spawn", "inline"} => sum = Before
       /\ pc = "join" => sum = Before \o Run(start, Base(k) - 1)
  /\ Reducing /\ pc = "returned" => sum = Before \o Run(start, end - 1)
  /\ op = "scan" /\ pc = "join" /\ k >= 1 => sum = Run(start, To(0) - 1)
  /\ pc = "offsets" /\ k < Chunks /\ From(k) < To(k) => sum = Run(start, From(k) - 1)

\* The caller's loop ends at the number of chunks.
LoopKnown ==
  /\ pc \in {"spawn", "join"} => k <= Chunks
  /\ pc = "inline" => k < Chunks

ResultKnown ==
  lost = {} => SumKnown /\ \A c \in Slots : OutKnown(c) /\ AccKnown(c) /\ FailedKnown(c)

ResultInv == ItemInv /\ DOMAIN acc = Slots /\ LoopKnown /\ ResultKnown

-----------------------------------------------------------------------------
(***************************************************************************)
(* Runs of items, and what is put into the output.                         *)
(***************************************************************************)
LEMMA RunIsSeq ==
  ASSUME NEW a \in Int, NEW b \in Int, a <= b + 1
  PROVE  /\ Run(a, b) \in Seq(Int)
         /\ Len(Run(a, b)) = b - a + 1
         /\ \A j \in 1 .. b - a + 1 : Run(a, b)[j] = a + j - 1
<1> DEFINE n == b - a + 1
<1>1. n \in Nat
  OBVIOUS
<1>2. Run(a, b) = [j \in 1 .. n |-> a + j - 1]
  BY DEF Run
<1> HIDE DEF n
<1>3. \A j \in 1 .. n : a + j - 1 \in Int
  BY <1>1
<1>4. Run(a, b) \in [1 .. n -> Int]
  BY <1>2, <1>3
<1>5. Run(a, b) \in Seq(Int)
  BY <1>1, <1>4
<1>6. DOMAIN Run(a, b) = 1 .. n
  BY <1>2
<1>7. Len(Run(a, b)) = n
  BY <1>1, <1>5, <1>6, LenProperties
<1>8. \A j \in 1 .. n : Run(a, b)[j] = a + j - 1
  BY <1>2
<1> QED
  BY <1>5, <1>7, <1>8 DEF n

LEMMA EmptyRun ==
  ASSUME NEW a \in Int, NEW b \in Int, b < a
  PROVE  Run(a, b) = <<>>
<1>1. 1 .. b - a + 1 = {}
  OBVIOUS
<1>2. Run(a, b) = [j \in {} |-> a + j - 1]
  BY <1>1 DEF Run
<1>3. Run(a, b) \in [1 .. 0 -> Int]
  BY <1>2
<1>4. Run(a, b) \in Seq(Int) /\ DOMAIN Run(a, b) = {}
  BY <1>2, <1>3
<1>5. Len(Run(a, b)) = 0
  BY <1>4, LenProperties
<1> QED
  BY <1>4, <1>5, EmptySeq

LEMMA RunsJoin ==
  ASSUME NEW a \in Int, NEW b \in Int, NEW c \in Int, a <= b + 1, b <= c
  PROVE  Run(a, b) \o Run(b + 1, c) = Run(a, c)
<1> DEFINE r == Run(a, b)
           s == Run(b + 1, c)
           t == Run(a, c)
<1>1. /\ r \in Seq(Int) /\ Len(r) = b - a + 1
      /\ \A j \in 1 .. b - a + 1 : r[j] = a + j - 1
  BY RunIsSeq
<1>2. /\ s \in Seq(Int) /\ Len(s) = c - b
      /\ \A j \in 1 .. c - b : s[j] = b + j
  <2>1. b + 1 \in Int /\ b + 1 <= c + 1 /\ c - (b + 1) + 1 = c - b
    OBVIOUS
  <2>2. /\ s \in Seq(Int) /\ Len(s) = c - b
        /\ \A j \in 1 .. c - b : s[j] = b + 1 + j - 1
    BY <2>1, RunIsSeq
  <2>3. \A j \in 1 .. c - b : b + 1 + j - 1 = b + j
    OBVIOUS
  <2> QED
    BY <2>2, <2>3
<1>3. /\ t \in Seq(Int) /\ Len(t) = c - a + 1
      /\ \A j \in 1 .. c - a + 1 : t[j] = a + j - 1
  <2>1. a <= c + 1
    OBVIOUS
  <2> QED
    BY <2>1, RunIsSeq
<1> HIDE DEF r, s, t
<1>4. /\ r \o s \in Seq(Int) /\ Len(r \o s) = Len(r) + Len(s)
      /\ \A i \in 1 .. Len(r) + Len(s) :
           (r \o s)[i] = IF i <= Len(r) THEN r[i] ELSE s[i - Len(r)]
  BY <1>1, <1>2, ConcatProperties
<1>5. Len(r \o s) = Len(t)
  BY <1>1, <1>2, <1>3, <1>4
<1>6. ASSUME NEW i \in 1 .. Len(t) PROVE (r \o s)[i] = t[i]
  <2>1. i \in 1 .. c - a + 1 /\ t[i] = a + i - 1
    BY <1>3
  <2>2. (r \o s)[i] = IF i <= b - a + 1 THEN r[i] ELSE s[i - (b - a + 1)]
    <3>1. i \in 1 .. Len(r) + Len(s)
      BY <1>4, <1>5
    <3> QED
      BY <1>1, <1>4, <3>1
  <2>3. CASE i <= b - a + 1
    BY <1>1, <2>1, <2>2, <2>3
  <2>4. CASE ~(i <= b - a + 1)
    <3>1. i - (b - a + 1) \in 1 .. c - b
      BY <2>1, <2>4
    <3>2. s[i - (b - a + 1)] = b + (i - (b - a + 1))
      BY <1>2, <3>1
    <3> QED
      BY <2>1, <2>2, <2>4, <3>2
  <2> QED
    BY <2>3, <2>4
<1>7. r \o s = t
  BY <1>3, <1>4, <1>5, <1>6, SeqEqual
<1> QED
  BY <1>7 DEF r, s, t

LEMMA RunOfOne ==
  ASSUME NEW a \in Int
  PROVE  Run(a, a) = <<a>>
<1>1. Run(a, a) \in Seq(Int) /\ Len(Run(a, a)) = 1 /\ Run(a, a)[1] = a
  <2>1. a - a + 1 = 1 /\ a + 1 - 1 = a /\ a <= a + 1 /\ 1 \in 1 .. 1
    OBVIOUS
  <2>2. /\ Run(a, a) \in Seq(Int) /\ Len(Run(a, a)) = a - a + 1
        /\ \A j \in 1 .. a - a + 1 : Run(a, a)[j] = a + j - 1
    BY <2>1, RunIsSeq
  <2> QED
    BY <2>1, <2>2
<1> QED
  BY <1>1

LEMMA RunGrows ==
  ASSUME NEW a \in Int, NEW b \in Int, a <= b
  PROVE  Append(Run(a, b - 1), b) = Run(a, b)
<1>1. Run(a, b - 1) \in Seq(Int)
  BY RunIsSeq
<1>2. Append(Run(a, b - 1), b) = Run(a, b - 1) \o <<b>>
  BY <1>1, AppendIsConcat
<1>3. Run(b, b) = <<b>>
  BY RunOfOne
<1>4. Run(a, b - 1) \o Run(b, b) = Run(a, b)
  <2> DEFINE d == b - 1
  <2>1. d \in Int /\ a <= d + 1 /\ d <= b /\ d + 1 = b
    OBVIOUS
  <2> HIDE DEF d
  <2>2. Run(a, d) \o Run(d + 1, b) = Run(a, b)
    BY <2>1, RunsJoin, Zenon
  <2> QED
    BY <2>1, <2>2 DEF d
<1> QED
  BY <1>2, <1>3, <1>4

\* Also what the reductions start from.
LEMMA RunsJoinAfter ==
  ASSUME NEW p \in Openings,
         NEW a \in Int, NEW b \in Int, NEW c \in Int, a <= b + 1, b <= c
  PROVE  (p \o Run(a, b)) \o Run(b + 1, c) = p \o Run(a, c)
<1> DEFINE S == Int \cup {InitValue}
<1>1. Run(a, b) \in Seq(Int) /\ Run(b + 1, c) \in Seq(Int)
  BY RunIsSeq
<1>2. ASSUME NEW s \in Seq(Int) PROVE s \in Seq(S)
  <2>1. Len(s) \in Nat /\ s \in [1 .. Len(s) -> Int]
    BY LenProperties
  <2>2. s \in [1 .. Len(s) -> S]
    BY <2>1
  <2> QED
    BY <2>1, <2>2
<1>3. p \in Seq(S)
  <2>1. InitValue \in S
    OBVIOUS
  <2> HIDE DEF S
  <2>2. <<>> \in Seq(S) /\ <<InitValue>> \in Seq(S)
    BY <2>1, EmptySeq
  <2> QED
    BY <2>2 DEF Openings
<1> DEFINE r == Run(a, b)
           s == Run(b + 1, c)
<1>4. r \in Seq(S) /\ s \in Seq(S)
  BY <1>1, <1>2
<1>5. r \o s = Run(a, c)
  BY RunsJoin
<1> HIDE DEF S, r, s
<1>6. (p \o r) \o s = p \o (r \o s)
  BY <1>3, <1>4, ConcatAssociative
<1>7. (p \o r) \o s = p \o Run(a, c)
  BY <1>5, <1>6, Zenon
<1> QED
  BY <1>7 DEF r, s

LEMMA ItemsAreRun ==
  ASSUME CallKnown
  PROVE  /\ Items = Run(start, end - 1)
         /\ \A i \in start .. end - 1 : Upto(i) = Run(start, i)
<1>1. start \in Int /\ end \in Int
  BY DEF CallKnown
<1>2. Items = Run(start, end - 1)
  <2>1. end - start = end - 1 - start + 1
    BY <1>1
  <2> QED
    BY <2>1 DEF Items, Run
<1>3. ASSUME NEW i \in start .. end - 1 PROVE Upto(i) = Run(start, i)
  <2> DEFINE n == i - start + 1
  <2>1. n \in Nat /\ i \in Int /\ start <= i + 1 /\ start <= end - 1 + 1 /\ n <= end - 1 - start + 1
    BY <1>1
  <2>2. /\ Items \in Seq(Int)
        /\ \A j \in 1 .. end - 1 - start + 1 : Items[j] = start + j - 1
    <3>1. end - 1 \in Int
      BY <1>1
    <3> QED
      BY <1>1, <1>2, <2>1, <3>1, RunIsSeq
  <2>3. /\ Run(start, i) \in Seq(Int) /\ Len(Run(start, i)) = n
        /\ \A j \in 1 .. n : Run(start, i)[j] = start + j - 1
    BY <1>1, <2>1, RunIsSeq
  <2> HIDE DEF n
  <2>4. \A j \in 1 .. n : Items[j] = start + j - 1
    BY <1>1, <2>1, <2>2
  <2>5. \A j \in 1 .. n : Items[j] \in Int
    BY <1>1, <2>1, <2>4
  <2>6. /\ SubSeq(Items, 1, n) \in Seq(Int)
        /\ Len(SubSeq(Items, 1, n)) = IF 1 <= n THEN n - 1 + 1 ELSE 0
        /\ \A j \in 1 .. n - 1 + 1 : SubSeq(Items, 1, n)[j] = Items[1 + j - 1]
    BY <2>1, <2>5, SubSeqProperties
  <2>7. Len(SubSeq(Items, 1, n)) = n
    BY <2>1, <2>6
  <2>8. ASSUME NEW j \in 1 .. n PROVE SubSeq(Items, 1, n)[j] = Run(start, i)[j]
    <3>1. SubSeq(Items, 1, n)[j] = Items[1 + j - 1] /\ 1 + j - 1 = j
      BY <2>1, <2>6
    <3> QED
      BY <2>3, <2>4, <3>1
  <2>9. SubSeq(Items, 1, n) = Run(start, i)
    BY <2>3, <2>6, <2>7, <2>8, SeqEqual
  <2> QED
    BY <2>9 DEF Upto, n
<1> QED
  BY <1>2, <1>3

\* Of the output nothing changes but what is put there.
LEMMA PutThenGet ==
  ASSUME NEW i, NEW v, Put(i, v)
  PROVE  Get(i)' = v /\ \A j : j # i => Get(j)' = Get(j)
<1>1. out' = [j \in {i} \cup DOMAIN out |-> IF j = i THEN v ELSE out[j]]
  BY DEF Put
<1> QED
  BY <1>1 DEF Get

LEMMA NothingAfter ==
  ASSUME NEW p \in Openings, NEW a \in Int, NEW b \in Int, a <= b + 1
  PROVE  (p \o Run(a, b)) \o <<>> = p \o Run(a, b)
<1>1. b + 1 \in Int /\ b < b + 1 /\ b <= b
  OBVIOUS
<1>2. Run(b + 1, b) = <<>>
  BY <1>1, EmptyRun
<1>3. (p \o Run(a, b)) \o Run(b + 1, b) = p \o Run(a, b)
  BY <1>1, RunsJoinAfter, Zenon
<1> QED
  BY <1>2, <1>3

LEMMA BeforeNothing ==
  ASSUME NEW p \in Openings, NEW a \in Int, NEW b \in Int, b < a
  PROVE  p \o Run(a, b) = p
<1>1. Run(a, b) = <<>>
  BY EmptyRun
<1>2. <<>> \in Seq({InitValue}) /\ <<InitValue>> \in Seq({InitValue})
  OBVIOUS
<1>3. p \o <<>> = p
  BY <1>2, ConcatEmptySeq DEF Openings
<1> QED
  BY <1>1, <1>3

LEMMA NothingBefore ==
  ASSUME NEW a \in Int, NEW b \in Int, a <= b + 1
  PROVE  <<>> \o Run(a, b) = Run(a, b)
BY RunIsSeq, ConcatEmptySeq

-----------------------------------------------------------------------------
(***************************************************************************)
(* How the pieces follow on each other.                                    *)
(***************************************************************************)
\* A chunk that has anything in it begins where the one before it ends; the chunks
\* that have nothing in them come last.
LEMMA PiecesFollow ==
  ASSUME CallKnown, CallFits, start < end, NEW c \in Nat, c < Chunks
  PROVE  /\ Base(c) \in Int /\ start <= Base(c) /\ Base(c) <= To(c)
         /\ From(c) < To(c) => Base(c) = From(c)
         /\ ~(From(c) < To(c)) => Base(c) = To(c)
<1>1. /\ Chunks \in Nat /\ Per \in Nat /\ start \in Int /\ end \in Int
      /\ Chunks >= 1 /\ Chunks * Per >= end - start
  BY ChunksFit DEF CallKnown
<1>2. Per >= 1
  <2>1. Per = 0 => Chunks * Per = 0
    BY <1>1
  <2> QED
    BY <1>1, <2>1
<1> DEFINE x == c * Per
<1>3. /\ x \in Nat /\ From(c) = start + x
      /\ To(c) = IF start + x + Per > end THEN end ELSE start + x + Per
  BY ChunkBounds
<1>4. CASE c = 0
  <2>1. x = 0
    BY <1>1, <1>4
  <2> HIDE DEF x
  <2>2. Base(c) = start
    BY <1>4 DEF Base
  <2> QED
    BY <1>1, <1>2, <1>3, <2>1, <2>2
<1>5. CASE c # 0
  <2> DEFINE d == c - 1
             y == d * Per
  <2>1. d \in Nat /\ d < Chunks /\ c = d + 1
    BY <1>1, <1>5
  <2>2. x = y + Per /\ y \in Nat
    BY <1>1, <2>1
  <2>3. To(d) = IF start + y + Per > end THEN end ELSE start + y + Per
    BY <2>1, ChunkBounds
  <2>4. Base(c) = To(d)
    BY <1>5 DEF Base
  <2> HIDE DEF d, x, y
  <2> QED
    BY <1>1, <1>2, <1>3, <2>2, <2>3, <2>4
<1> QED
  BY <1>4, <1>5

LEMMA FirstPiece ==
  ASSUME CallKnown, CallFits, start < end
  PROVE  /\ 0 < Chunks /\ 0 \in Slots
         /\ From(0) = start /\ From(0) < To(0) /\ To(0) \in Int
<1>1. /\ Chunks \in Nat /\ Per \in Nat /\ start \in Int /\ end \in Int
      /\ Chunks >= 1 /\ Chunks * Per >= end - start
  BY ChunksFit DEF CallKnown
<1>2. Per >= 1
  <2>1. Per = 0 => Chunks * Per = 0
    BY <1>1
  <2> QED
    BY <1>1, <2>1
<1>3. 0 \in Nat /\ 0 < Chunks /\ 0 * Per = 0
  BY <1>1
<1>4. /\ From(0) = start + 0 * Per
      /\ To(0) = IF start + 0 * Per + Per > end THEN end ELSE start + 0 * Per + Per
  BY <1>3, ChunkBounds
<1>5. 0 \in Slots
  BY LimitAssumption DEF Slots
<1> QED
  BY <1>1, <1>2, <1>3, <1>4, <1>5

LEMMA LastPiece ==
  ASSUME CallKnown, CallFits, start < end
  PROVE  Base(Chunks) = end
<1>1. /\ Chunks \in Nat /\ Per \in Nat /\ start \in Int /\ end \in Int
      /\ Chunks >= 1 /\ Chunks * Per >= end - start
  BY ChunksFit DEF CallKnown
<1> DEFINE d == Chunks - 1
           y == d * Per
<1>2. d \in Nat /\ d < Chunks
  BY <1>1
<1>3. y \in Nat /\ y + Per = Chunks * Per
  BY <1>1, <1>2
<1>4. To(d) = IF start + y + Per > end THEN end ELSE start + y + Per
  BY <1>2, ChunkBounds
<1>5. Base(Chunks) = To(d)
  BY <1>1 DEF Base
<1> HIDE DEF d, y
<1> QED
  BY <1>1, <1>3, <1>4, <1>5

\* The chunk after one that has nothing in it has nothing in it either.
LEMMA NextPiece ==
  ASSUME CallKnown, CallFits, start < end, NEW c \in Nat, c + 1 < Chunks,
         From(c + 1) < To(c + 1)
  PROVE  From(c) < To(c) /\ From(c + 1) = To(c)
<1>1. /\ Chunks \in Nat /\ Per \in Nat /\ start \in Int /\ end \in Int
      /\ c < Chunks /\ c + 1 \in Nat
  BY ChunksFit DEF CallKnown
<1> DEFINE x == c * Per
           y == (c + 1) * Per
<1>2. y = x + Per
  BY <1>1
<1>3. /\ x \in Nat /\ From(c) = start + x
      /\ To(c) = IF start + x + Per > end THEN end ELSE start + x + Per
  BY <1>1, ChunkBounds
<1>4. /\ y \in Nat /\ From(c + 1) = start + y
      /\ To(c + 1) = IF start + y + Per > end THEN end ELSE start + y + Per
  BY <1>1, ChunkBounds
<1> HIDE DEF x, y
<1> QED
  BY <1>1, <1>2, <1>3, <1>4

-----------------------------------------------------------------------------
(***************************************************************************)
(* What the steps leave of the results as they were.                       *)
(***************************************************************************)
LEMMA InitResultInv == Representable /\ Init => ResultInv
<1> SUFFICES ASSUME Representable, Init PROVE ResultInv
  OBVIOUS
<1>1. ItemInv
  BY InitItemInv
<1>2. DOMAIN acc = Slots /\ LoopKnown
  BY DEF Init, LoopKnown
<1>3. SumKnown
  BY DEF Init, SumKnown
<1>4. \A c \in Slots : OutKnown(c) /\ AccKnown(c) /\ FailedKnown(c)
  BY DEF Init, OutKnown, AccKnown, FailedKnown
<1> QED
  BY <1>1, <1>2, <1>3, <1>4 DEF ResultInv, ResultKnown

\* Of a chunk in whose items nothing was put, and that is not begun anew, everything
\* that matters is as before.
LEMMA ResultStays ==
  ASSUME ItemInv, UNCHANGED call, NEW c \in Slots, at'[c] = at[c], acc'[c] = acc[c],
         th'[c] = th[c] \/ (th[c] # "none" /\ th'[c] \in {"done", "gone"}),
         th[c] # "none" => (Second(c)' <=> Second(c)),
         \A i \in Piece(c) : Get(i)' = Get(i),
         OutKnown(c), AccKnown(c), FailedKnown(c)
  PROVE  OutKnown(c)' /\ AccKnown(c)' /\ FailedKnown(c)'
<1>1. op' = op /\ From(c)' = From(c) /\ To(c)' = To(c) /\ start' = start
  BY SamePieces DEF call
<1>2. FailedKnown(c)'
  BY <1>1 DEF FailedKnown
<1>3. CASE th[c] = "none"
  BY <1>2, <1>3 DEF OutKnown, AccKnown
<1>4. CASE th[c] # "none"
  <2>1. th'[c] # "none"
    BY <1>4
  <2>2. Done(c)' = Done(c) /\ Piece(c)' = Piece(c)
    BY <1>1, <1>4, <2>1 DEF Done, Piece
  <2>3. Done(c) \subseteq Piece(c)
    BY DoneInPiece
  <2>4. OutKnown(c)'
    <3>1. ASSUME op \in Maps, NEW i \in Done(c) PROVE Get(i)' = <<i>>
      BY <1>4, <2>3, <3>1 DEF OutKnown
    <3>2. ASSUME op \in Scans, ~Second(c), NEW i \in Done(c) PROVE Get(i)' = Run(From(c), i)
      BY <1>4, <2>3, <3>2 DEF OutKnown
    <3>3. ASSUME op \in Scans, Second(c), NEW i \in Piece(c)
          PROVE  Get(i)' = IF i < at[c] THEN Run(start, i) ELSE Run(From(c), i)
      BY <1>4, <3>3 DEF OutKnown
    <3> QED
      BY <1>1, <1>4, <2>2, <3>1, <3>2, <3>3 DEF OutKnown, Run
  <2>5. AccKnown(c)'
    BY <1>1, <1>4 DEF AccKnown, Run, Reducing
  <2> QED
    BY <1>2, <2>4, <2>5
<1> QED
  BY <1>3, <1>4

\* No chunk that was lost is found again.
LEMMA LostStays == ASSUME Next PROVE lost \subseteq lost'
BY DEF Next, Begin, Spawn, Started, Inline, SpawnsEnd, Join, JoinsEnd, Compact, SpawnOffset,
       OffsetsEnd, Rejoin, Return, Work, SetDone, End, Terminated, vars

\* A step of the caller alone.
LEMMA CallerOnlyResult ==
  ASSUME ResultInv, ItemInv', UNCHANGED <<call, th, at, acc, out, lost>>, LoopKnown',
         lost = {} => SumKnown',
         \A c \in Slots : th[c] # "none" => (Second(c)' <=> Second(c))
  PROVE  ResultInv'
<1>1. DOMAIN acc' = Slots
  BY DEF ResultInv
<1>2. ASSUME lost' = {}, NEW c \in Slots PROVE OutKnown(c)' /\ AccKnown(c)' /\ FailedKnown(c)'
  <2>1. OutKnown(c) /\ AccKnown(c) /\ FailedKnown(c)
    BY <1>2 DEF ResultInv, ResultKnown
  <2>2. \A i \in Piece(c) : Get(i)' = Get(i)
    BY DEF Get
  <2> QED
    BY <2>1, <2>2, ResultStays DEF ResultInv
<1> QED
  BY <1>1, <1>2 DEF ResultInv, ResultKnown

\* What the caller finds of a chunk it joins.
LEMMA JoinedResult ==
  ASSUME ResultInv, lost = {}, op \notin Inlines, NEW c \in Slots, Joined(c)
  PROVE  /\ c \in Nat /\ c < Chunks /\ start < end
         /\ From(c) \in Int /\ To(c) \in Int /\ th[c] # "none"
         /\ at[c] = IF From(c) < To(c) THEN To(c) ELSE From(c)
<1>1. th[c] = "gone"
  BY DEF Joined, ResultInv, ResultKnown, FailedKnown
<1>2. c \in Nat /\ c < Chunks /\ start < end /\ From(c) \in Int /\ To(c) \in Int
  BY <1>1, StartedIsChunk DEF ResultInv
<1>3. at[c] >= From(c) /\ (at[c] > From(c) => at[c] <= To(c)) /\ at[c] >= To(c) /\ at[c] \in Int
  BY <1>1 DEF ResultInv, ItemInv, ItemKnown
<1> QED
  BY <1>1, <1>2, <1>3

\* When the caller is past the first pass, or at its joins, it has joined these.
LEMMA Behind ==
  ASSUME ResultInv, NEW c \in Slots,
         \/ pc = "join" /\ c < k /\ c < Chunks
         \/ pc = "offsets" /\ c >= k /\ c < Chunks
  PROVE  Joined(c)
<1>1. ChunkKnown(c) /\ k \in Nat /\ c \in Nat /\ Chunks \in Int
  BY AtHand DEF ResultInv, ItemInv
<1> QED
  BY <1>1 DEF ChunkKnown, Once, Joined

\* The caller's place, for the loops.
LEMMA Handy ==
  ASSUME ResultInv
  PROVE  /\ CallKnown /\ CallFits /\ CallerKnown /\ k \in Nat /\ start \in Int /\ end \in Int
         /\ Chunks \in Int /\ Slots \subseteq Nat /\ DOMAIN acc = Slots
         /\ k < Chunks => k \in Slots
         /\ pc \notin {"call", "returned"} => start < end
         /\ pc \in {"spawn", "join"} => k <= Chunks
         /\ pc = "inline" => k < Chunks /\ op \in Inlines
         /\ Reducing => op \in Reduces
         /\ Before \in Openings
         /\ op = "reduce" => Before = <<>>
         /\ op \in Reduces => op \notin Scans /\ op \notin Inlines /\ op # "filter"
         /\ op \in Scans => op \notin Inlines /\ op # "filter" /\ op \notin Reduces
<1>1. ItemInv /\ RecordInv /\ LoopKnown
  BY DEF ResultInv, ItemInv
<1>2. /\ CallKnown /\ CallerKnown /\ k \in Nat /\ Chunks \in Int /\ Slots \subseteq Nat
      /\ k < Chunks => k \in Slots
  BY <1>1, AtHand
<1>3. start \in Int /\ end \in Int
  BY <1>2 DEF CallKnown
<1>4. /\ op = "reduce" => Before = <<>>
      /\ op \in Reduces => op \notin Scans /\ op \notin Inlines /\ op # "filter"
      /\ op \in Scans => op \notin Inlines /\ op # "filter" /\ op \notin Reduces
      /\ Before \in Openings
  BY DEF Before, Openings, Reduces, Scans, Inlines
<1> QED
  BY <1>1, <1>2, <1>3, <1>4 DEF ResultInv, ItemInv, CallerKnown, LoopKnown, Reducing

-----------------------------------------------------------------------------
(***************************************************************************)
(* Steps of the caller.                                                    *)
(***************************************************************************)
LEMMA PlaceAfter ==
  ASSUME UNCHANGED call, NEW j, k' = j
  PROVE  /\ From(k)' = From(j) /\ To(k)' = To(j) /\ Base(k)' = Base(j)
         /\ Chunks' = Chunks /\ Before' = Before /\ (Reducing' <=> Reducing)
         /\ op' = op /\ start' = start /\ end' = end
         /\ To(0)' = To(0)
         /\ \A a, b : Run(a, b)' = Run(a, b)
<1>1. /\ op' = op /\ start' = start /\ end' = end /\ Chunks' = Chunks
      /\ \A c : From(c)' = From(c) /\ To(c)' = To(c)
  BY SamePieces DEF call
<1>2. From(k)' = From(j) /\ To(k)' = To(j)
  <2>1. From(k)' = From(j)' /\ To(k)' = To(j)'
    OBVIOUS
  <2> QED
    BY <1>1, <2>1
<1>3. Base(k)' = Base(j)
  <2>1. Base(k)' = Base(j)'
    OBVIOUS
  <2>2. To(j - 1)' = To(j - 1)
    BY <1>1
  <2> QED
    BY <1>1, <2>1, <2>2 DEF Base
<1> QED
  BY <1>1, <1>2, <1>3 DEF Before, Reducing, Run

LEMMA BeginResult == ResultInv /\ Begin => ResultInv'
<1> SUFFICES ASSUME ResultInv, Begin PROVE ResultInv'
  OBVIOUS
<1>1. ItemInv' /\ UNCHANGED <<call, th, at, acc, out, lost, k>>
  BY CallerItemInv DEF ResultInv, Begin
<1>2. /\ k = 0 /\ start \in Int /\ end \in Int /\ CallKnown /\ CallFits
      /\ Before \in Openings
  BY Handy DEF Begin, CallerKnown
<1>3. LoopKnown'
  <2>1. start < end => 0 <= Chunks
    BY <1>2, FirstPiece, Handy
  <2> QED
    BY <1>1, <1>2, <2>1, SamePieces DEF LoopKnown, Begin
<1>4. SumKnown'
  <2>1. /\ op' = op /\ start' = start /\ end' = end /\ Before' = Before
        /\ (Reducing' <=> Reducing) /\ \A a, b : Run(a, b)' = Run(a, b)
    BY <1>1, PlaceAfter
  <2>2. Reducing => sum' = Before /\ (pc' = "returned" => start >= end) /\ pc' # "join"
    BY <1>2 DEF Begin, Before, Reducing, Reduces, Seed, Refused
  <2>3. start >= end => Before \o Run(start, end - 1) = Before
    <3>1. start >= end => end - 1 \in Int /\ end - 1 < start
      BY <1>2
    <3> QED
      BY <1>2, <3>1, BeforeNothing
  <2>4. pc' \in {"spawn", "returned"}
    BY DEF Begin
  <2> QED
    BY <2>1, <2>2, <2>3, <2>4 DEF SumKnown
<1>5. \A c \in Slots : th[c] = "none"
  BY AtHand DEF Begin, ResultInv, ItemInv, ChunkKnown, Fresh
<1> QED
  BY <1>1, <1>3, <1>4, <1>5, CallerOnlyResult

LEMMA SpawnsEndResult == ResultInv /\ SpawnsEnd => ResultInv'
<1> SUFFICES ASSUME ResultInv, SpawnsEnd PROVE ResultInv'
  OBVIOUS
<1>1. ItemInv' /\ UNCHANGED <<call, th, at, acc, out, lost, sum>>
  BY CallerItemInv DEF ResultInv, SpawnsEnd, data
<1>2. /\ k' = 0 /\ pc = "spawn" /\ pc' = "join" /\ start \in Int /\ end \in Int /\ start < end
      /\ Before \in Openings /\ 0 <= Chunks
  BY Handy, FirstPiece DEF SpawnsEnd
<1>3. LoopKnown'
  BY <1>1, <1>2, SamePieces DEF LoopKnown
<1>4. ASSUME lost = {} PROVE SumKnown'
  <2>1. /\ op' = op /\ start' = start /\ end' = end /\ Before' = Before
        /\ (Reducing' <=> Reducing) /\ Base(k)' = Base(0)
        /\ \A a, b : Run(a, b)' = Run(a, b)
    BY <1>1, <1>2, PlaceAfter
  <2>2. Reducing => sum = Before
    BY <1>2, <1>4 DEF ResultInv, ResultKnown, SumKnown
  <2>3. Base(0) = start
    BY DEF Base
  <2>4. Before \o Run(start, start - 1) = Before
    <3>1. start - 1 \in Int /\ start - 1 < start
      BY <1>2
    <3> QED
      BY <1>2, <3>1, BeforeNothing
  <2>5. (Before \o Run(start, Base(k) - 1))' = Before \o Run(start, start - 1)
    BY <2>1, <2>3 DEF Run
  <2> QED
    BY <1>1, <1>2, <2>1, <2>2, <2>4, <2>5 DEF SumKnown
<1>5. \A c \in Slots : ~Second(c) /\ ~Second(c)'
  BY <1>2 DEF Second
<1> QED
  BY <1>1, <1>3, <1>4, <1>5, CallerOnlyResult

\* A reduction goes on with what the chunk came to.
LEMMA MergedRun ==
  ASSUME ResultInv, lost = {}, Join, Reducing
  PROVE  sum' = Before \o Run(start, To(k) - 1)
<1>1. /\ CallKnown /\ CallFits /\ k \in Nat /\ k \in Slots /\ k < Chunks
      /\ start < end /\ start \in Int /\ op \in Reduces
      /\ op \notin Scans /\ op \notin Inlines /\ Before \in Openings
      /\ op = "reduce" => Before = <<>>
  BY Handy DEF Join
<1>2. PICK j \in Slots : j = k
  BY <1>1
<1>3. /\ From(j) \in Int /\ To(j) \in Int /\ th[j] # "none"
      /\ at[j] = IF From(j) < To(j) THEN To(j) ELSE From(j)
  BY <1>1, <1>2, JoinedResult DEF Join
<1>4. acc[j] = Run(From(j), at[j] - 1)
  BY <1>3 DEF ResultInv, ResultKnown, AccKnown
<1>5. sum = Before \o Run(start, Base(j) - 1)
  BY <1>1, <1>2 DEF ResultInv, ResultKnown, SumKnown, Join
<1>6. /\ Base(j) \in Int /\ start <= Base(j) /\ Base(j) <= To(j)
      /\ From(j) < To(j) => Base(j) = From(j)
      /\ ~(From(j) < To(j)) => Base(j) = To(j)
  BY <1>1, <1>2, PiecesFollow
<1>7. sum' = IF op = "reduce" /\ j = 0 THEN acc[j] ELSE sum \o acc[j]
  BY <1>1, <1>2 DEF Join, Merged, FirstReplaces, Reduces
<1>8. CASE From(j) < To(j)
  <2>1. acc[j] = Run(Base(j), To(j) - 1)
    BY <1>3, <1>4, <1>6, <1>8
  <2>2. CASE op = "reduce" /\ j = 0
    <3>1. From(0) = start
      BY <1>1, FirstPiece
    <3>2. acc[j] = Run(start, To(j) - 1)
      BY <1>6, <1>8, <2>1, <2>2, <3>1
    <3>3. To(j) - 1 \in Int /\ start <= To(j) - 1 + 1
      BY <1>1, <1>3, <1>6
    <3> QED
      BY <1>1, <1>2, <1>7, <2>2, <3>2, <3>3, NothingBefore
  <2>3. CASE ~(op = "reduce" /\ j = 0)
    <3> DEFINE b == Base(j) - 1
               e == To(j) - 1
    <3>1. b \in Int /\ e \in Int /\ start <= b + 1 /\ b <= e /\ b + 1 = Base(j)
      BY <1>1, <1>3, <1>6
    <3> HIDE DEF b, e
    <3>2. Before \in Openings /\ start \in Int
      BY <1>1
    <3>3. (Before \o Run(start, b)) \o Run(b + 1, e) = Before \o Run(start, e)
      BY <3>1, <3>2, RunsJoinAfter, Zenon
    <3> QED
      BY <1>2, <1>5, <1>7, <2>1, <2>3, <3>1, <3>3 DEF b, e
  <2> QED
    BY <2>2, <2>3
<1>9. CASE ~(From(j) < To(j))
  <2>1. j # 0
    BY <1>1, <1>9, FirstPiece
  <2>2. From(j) - 1 \in Int /\ From(j) - 1 < From(j)
    BY <1>3
  <2>3. acc[j] = <<>>
    BY <1>3, <1>4, <1>9, <2>2, EmptyRun
  <2>4. Base(j) - 1 \in Int /\ start <= Base(j) - 1 + 1
    BY <1>1, <1>6
  <2>5. (Before \o Run(start, Base(j) - 1)) \o <<>> = Before \o Run(start, Base(j) - 1)
    BY <1>1, <2>4, NothingAfter
  <2> QED
    BY <1>2, <1>5, <1>6, <1>7, <1>9, <2>1, <2>3, <2>5
<1> QED
  BY <1>8, <1>9

\* The first chunk of a scan, done.
LEMMA FirstOfScan ==
  ASSUME ResultInv, lost = {}, op \in Scans, Joined(0), pc = "join"
  PROVE  acc[0] = Run(start, To(0) - 1) /\ Get(To(0) - 1) = Run(start, To(0) - 1)
<1>1. /\ CallKnown /\ CallFits /\ start < end /\ op \notin Inlines /\ start \in Int
  BY Handy
<1>2. 0 \in Slots /\ From(0) = start /\ From(0) < To(0) /\ To(0) \in Int
  BY <1>1, FirstPiece
<1>3. at[0] = To(0) /\ th[0] # "none"
  BY <1>1, <1>2, JoinedResult
<1>4. ~Second(0)
  BY DEF Second
<1>5. AccKnown(0) /\ OutKnown(0)
  BY <1>2 DEF ResultInv, ResultKnown
<1>6. acc[0] = Run(start, To(0) - 1)
  BY <1>2, <1>3, <1>4, <1>5 DEF AccKnown
<1>7. To(0) - 1 \in Done(0)
  BY <1>1, <1>2, <1>3 DEF Done
<1>8. Get(To(0) - 1) = Run(start, To(0) - 1)
  BY <1>2, <1>3, <1>4, <1>5, <1>7 DEF OutKnown
<1> QED
  BY <1>6, <1>8

LEMMA JoinResult == ResultInv /\ Join => ResultInv'
<1> SUFFICES ASSUME ResultInv, Join PROVE ResultInv'
  OBVIOUS
<1>1. ItemInv' /\ UNCHANGED <<call, pc, th, at, acc, out, lost>>
  BY CallerItemInv DEF ResultInv, Join
<1>2. k' = k + 1 /\ pc = "join" /\ k \in Nat /\ k < Chunks /\ k \in Slots /\ Chunks \in Int
  BY Handy DEF Join
<1>3. LoopKnown'
  BY <1>1, <1>2, SamePieces DEF LoopKnown
<1> DEFINE j == k + 1
<1>4. /\ op' = op /\ start' = start /\ end' = end /\ Before' = Before
      /\ (Reducing' <=> Reducing) /\ Base(k)' = Base(j) /\ To(0)' = To(0)
      /\ \A a, b : Run(a, b)' = Run(a, b)
  BY <1>1, <1>2, PlaceAfter
<1>5. Base(j) = To(k)
  <2>1. j # 0 /\ j - 1 = k
    BY <1>2
  <2> QED
    BY <2>1 DEF Base
<1> HIDE DEF j
<1>6. ASSUME lost = {} PROVE SumKnown'
  <2>1. Reducing => sum' = (Before \o Run(start, Base(k) - 1))'
    BY <1>4, <1>5, <1>6, MergedRun DEF Run
  <2>2. op = "scan" => sum' = Run(start, To(0) - 1)
    <3> SUFFICES ASSUME op = "scan" PROVE sum' = Run(start, To(0) - 1)
      OBVIOUS
    <3>1. sum' = IF k = 0 THEN acc[k] ELSE sum
      BY DEF Join, Merged, FirstReplaces
    <3>2. CASE k = 0
      <4>1. Joined(0) /\ op \in Scans
        BY <3>2 DEF Join, Scans
      <4> QED
        BY <1>2, <1>6, <3>1, <3>2, <4>1, FirstOfScan
    <3>3. CASE k # 0
      <4>1. k >= 1
        BY <1>2, <3>3
      <4> QED
        BY <1>2, <1>6, <3>1, <3>3, <4>1 DEF ResultInv, ResultKnown, SumKnown
    <3> QED
      BY <3>2, <3>3
  <2>3. op = "scan" => sum' = Run(start, To(0) - 1)'
    BY <1>4, <2>2 DEF Run
  <2>4. pc' = "join"
    BY <1>1, <1>2
  <2> QED
    BY <1>4, <2>1, <2>3, <2>4 DEF SumKnown
<1>7. \A c \in Slots : ~Second(c) /\ ~Second(c)'
  BY <1>1, <1>2 DEF Second
<1> QED
  BY <1>1, <1>3, <1>6, <1>7, CallerOnlyResult

\* A reduction is over all the items, and a scan's caller has what the first chunk
\* came to, when it has joined every chunk.
LEMMA JoinsEndResult == ResultInv /\ JoinsEnd => ResultInv'
<1> SUFFICES ASSUME ResultInv, JoinsEnd PROVE ResultInv'
  OBVIOUS
<1>1. ItemInv' /\ UNCHANGED <<call, th, at, acc, out, lost>>
  BY LastItemInv DEF ResultInv, JoinsEnd
<1>2. /\ pc = "join" /\ k = Chunks /\ CallKnown /\ CallFits /\ start < end
      /\ start \in Int /\ end \in Int
      /\ op \in Scans => op \notin Inlines /\ op # "filter" /\ op \notin Reduces
      /\ Reducing => op \in Reduces
      /\ op \in Reduces => op \notin Scans /\ op \notin Inlines /\ op # "filter"
  <2>1. k <= Chunks /\ k \in Nat /\ Chunks \in Int /\ k >= Chunks
    BY Handy DEF JoinsEnd
  <2> QED
    BY <2>1, Handy DEF JoinsEnd
<1>3. /\ pc' \in {"compact", "offsets", "returned"}
      /\ pc' = "offsets" => op \in Scans /\ k' = 1
      /\ pc' = "returned" => op \notin Scans
      /\ sum' = IF op = "scan_bytes" THEN Get(To(0) - 1) ELSE sum
  BY DEF JoinsEnd, Scans
<1>4. LoopKnown'
  BY <1>3 DEF LoopKnown
<1>5. /\ op' = op /\ start' = start /\ end' = end /\ Before' = Before
      /\ (Reducing' <=> Reducing) /\ Chunks' = Chunks
      /\ \A a, b : Run(a, b)' = Run(a, b)
  BY <1>1, PlaceAfter
<1>6. ASSUME lost = {} PROVE SumKnown'
  <2>1. Reducing => sum' = Before \o Run(start, end - 1)
    <3> SUFFICES ASSUME Reducing PROVE sum' = Before \o Run(start, end - 1)
      OBVIOUS
    <3>1. sum' = sum
      BY <1>3 DEF Reducing, Reduces
    <3>2. sum = Before \o Run(start, Base(k) - 1)
      BY <1>2, <1>6 DEF ResultInv, ResultKnown, SumKnown
    <3>3. Base(k) = end
      BY <1>2, LastPiece
    <3> QED
      BY <3>1, <3>2, <3>3
  <2>2. ASSUME pc' = "offsets", 1 < Chunks, From(1) < To(1)
        PROVE  sum' = Run(start, From(1) - 1)
    <3>1. op \in Scans
      BY <1>3, <2>2
    <3>2. From(0 + 1) < To(0 + 1) /\ 0 + 1 < Chunks /\ 0 \in Nat /\ 0 + 1 = 1
      BY <2>2
    <3>3. From(1) = To(0)
      BY <1>2, <3>2, NextPiece
    <3>4. 0 < k /\ 0 < Chunks /\ 0 \in Slots
      BY <1>2, FirstPiece
    <3>5. Joined(0)
      BY <1>2, <3>4, Behind
    <3>6. Get(To(0) - 1) = Run(start, To(0) - 1)
      BY <1>2, <1>6, <3>1, <3>5, FirstOfScan
    <3>7. op = "scan" => sum = Run(start, To(0) - 1)
      <4>1. k >= 1
        BY <1>2, <3>4, Handy
      <4> QED
        BY <1>2, <1>6, <4>1 DEF ResultInv, ResultKnown, SumKnown
    <3> QED
      BY <1>3, <3>1, <3>3, <3>6, <3>7 DEF Scans
  <2>3. pc' = "offsets" => From(k)' = From(1) /\ To(k)' = To(1)
    BY <1>1, <1>3, PlaceAfter
  <2> QED
    BY <1>2, <1>3, <1>5, <2>1, <2>2, <2>3 DEF SumKnown, Run, Scans
<1>7. \A c \in Slots : ~Second(c) /\ ~Second(c)'
  <2>1. ASSUME NEW c \in Slots PROVE ~Second(c) /\ ~Second(c)'
    <3>1. c \in Nat
      BY Handy
    <3>2. ~Second(c)
      BY <1>2 DEF Second
    <3>3. ~Second(c)'
      BY <1>3, <1>5, <3>1 DEF Second
    <3> QED
      BY <3>2, <3>3
  <2> QED
    BY <2>1
<1> QED
  BY <1>1, <1>4, <1>6, <1>7, CallerOnlyResult

\* The other steps of the caller that leave results alone.
LEMMA PassingResult ==
  ASSUME ResultInv, Compact \/ OffsetsEnd \/ Rejoin \/ Return
  PROVE  ResultInv'
<1>1. ItemInv'
  BY CallerItemInv, LastItemInv DEF ResultInv
<1>2. UNCHANGED <<call, th, at, acc, out, lost>>
  BY DEF Compact, OffsetsEnd, Rejoin, Return, data
<1>3. op' = op /\ (Reducing' <=> Reducing)
  BY <1>2, PlaceAfter
<1>4. pc \in {"compact", "offsets", "rejoin"} /\ pc' \in {"compact", "rejoin", "returned"}
  BY DEF Compact, OffsetsEnd, Rejoin, Return
<1>5. op = "filter" \/ op \in Scans
  BY <1>4, Handy DEF CallerKnown
<1>6. ~Reducing
  BY <1>5, Handy
<1>7. LoopKnown' /\ SumKnown'
  BY <1>3, <1>4, <1>6 DEF LoopKnown, SumKnown
<1>8. ASSUME NEW c \in Slots, th[c] # "none" PROVE Second(c)' <=> Second(c)
  <2>1. c \in Nat /\ c < Chunks /\ k \in Nat /\ Chunks \in Int
    BY <1>8, StartedIsChunk, Handy DEF ResultInv
  <2>2. CASE OffsetsEnd
    BY <1>3, <2>1, <2>2 DEF OffsetsEnd, Second
  <2>3. CASE Rejoin
    BY <1>3, <2>3 DEF Rejoin, Second
  <2>4. CASE Compact
    <3>1. op = "filter"
      BY <2>4, Handy DEF Compact, CallerKnown
    <3> QED
      BY <1>3, <3>1 DEF Second, Scans
  <2>5. CASE Return
    <3>1. pc = "compact" => op = "filter"
      BY Handy DEF CallerKnown
    <3> QED
      BY <1>3, <2>5, <3>1 DEF Return, Second, Scans
  <2> QED
    BY <2>2, <2>3, <2>4, <2>5
<1> QED
  BY <1>1, <1>2, <1>7, <1>8, CallerOnlyResult

-----------------------------------------------------------------------------
(***************************************************************************)
(* Steps that begin a chunk.                                               *)
(***************************************************************************)
\* Of the chunks that are not begun everything is as before.
LEMMA OthersStay ==
  ASSUME ResultInv, lost = {}, UNCHANGED <<call, out>>,
         NEW c \in Slots, at'[c] = at[c], acc'[c] = acc[c], th'[c] = th[c],
         th[c] # "none" => (Second(c)' <=> Second(c))
  PROVE  OutKnown(c)' /\ AccKnown(c)' /\ FailedKnown(c)'
<1>1. OutKnown(c) /\ AccKnown(c) /\ FailedKnown(c)
  BY DEF ResultInv, ResultKnown
<1>2. \A i \in Piece(c) : Get(i)' = Get(i)
  BY DEF Get
<1> QED
  BY <1>1, <1>2, ResultStays DEF ResultInv

LEMMA SpawnResult == ResultInv /\ Spawn => ResultInv'
<1> SUFFICES ASSUME ResultInv, Spawn PROVE ResultInv'
  OBVIOUS
<1>1. PICK result \in BOOLEAN :
        /\ Started(k, result)
        /\ acc' = [acc EXCEPT ![k] = IF result /\ (op \in Scans => From(k) < To(k))
                                     THEN Seed ELSE Unfolded]
        /\ IF ~result /\ RunsInline
           THEN pc' = "inline" /\ UNCHANGED k
           ELSE k' = k + 1 /\ UNCHANGED pc
  BY DEF Spawn
<1>2. /\ ItemInv' /\ UNCHANGED <<call, out, sum>> /\ pc = "spawn" /\ k \in Nat /\ k < Chunks
      /\ start < end /\ Chunks \in Int /\ DOMAIN acc = Slots /\ CallKnown /\ CallFits
  BY SpawnItemInv, Handy DEF ResultInv, Spawn
<1>3. PICK j \in Slots : j = k
  BY <1>2, Handy
<1>4. /\ op' = op /\ start' = start /\ end' = end /\ Before' = Before
      /\ (Reducing' <=> Reducing) /\ Chunks' = Chunks
  BY <1>2, PlaceAfter
<1>5. DOMAIN acc' = Slots
  BY <1>1, <1>2
<1>6. LoopKnown'
  BY <1>1, <1>2, <1>4 DEF LoopKnown
<1>7. pc' \in {"spawn", "inline"}
  BY <1>1, <1>2
<1>8. lost \subseteq lost'
  BY <1>1 DEF Started
<1>9. ASSUME lost' = {} PROVE SumKnown'
  <2>1. lost = {} /\ SumKnown
    BY <1>8, <1>9 DEF ResultInv, ResultKnown
  <2> QED
    BY <1>2, <1>4, <1>7, <2>1 DEF SumKnown
<1>10. \A c \in Slots : ~Second(c) /\ ~Second(c)'
  BY <1>2, <1>7 DEF Second
<1>11. ASSUME lost' = {} PROVE OutKnown(j)' /\ AccKnown(j)' /\ FailedKnown(j)'
  <2>1. th'[j] = IF result THEN "work" ELSE "failed"
    BY <1>1, <1>3 DEF Started, ResultInv, ItemInv, RecordInv, RecordsTyped
  <2>2. at'[j] = From(j)
    BY <1>1, <1>3 DEF Started, ResultInv, ItemInv
  <2>3. ~result => op \in Inlines
    BY <1>1, <1>11 DEF Started, RunsInline
  <2>4. acc'[j] = IF result /\ (op \in Scans => From(j) < To(j)) THEN Seed ELSE Unfolded
    BY <1>1, <1>2, <1>3
  <2>5. From(j)' = From(j) /\ To(j)' = To(j) /\ From(j) \in Int /\ To(j) \in Int
    BY <1>2, <1>3, SamePieces, PiecesInside
  <2>6. FailedKnown(j)'
    BY <1>4, <2>1, <2>3 DEF FailedKnown
  <2>7. Done(j)' = {}
    BY <2>2, <2>5 DEF Done
  <2>8. OutKnown(j)'
    BY <1>10, <2>7 DEF OutKnown
  <2>9. Run(From(j), From(j) - 1) = <<>>
    <3>1. From(j) - 1 \in Int /\ From(j) - 1 < From(j)
      BY <2>5
    <3> QED
      BY <2>5, <3>1, EmptyRun
  <2>10. /\ Reducing => acc'[j] = <<>>
         /\ op \in Scans /\ From(j) < To(j) => acc'[j] = <<>>
    <3>1. op \in Reduces \cup Scans => result
      BY <2>3 DEF Inlines, Reduces, Scans
    <3>2. Reducing => Seed = <<>> /\ op \notin Scans
      BY DEF Reducing, Reduces, Seed, Scans
    <3>3. op \in Scans => Seed = <<>>
      BY DEF Scans, Seed
    <3> QED
      BY <2>4, <3>1, <3>2, <3>3 DEF Reducing
  <2>11. Run(From(j), at[j] - 1)' = <<>>
    BY <2>2, <2>5, <2>9 DEF Run
  <2>12. AccKnown(j)'
    BY <1>4, <1>10, <2>5, <2>10, <2>11 DEF AccKnown
  <2> QED
    BY <2>6, <2>8, <2>12
<1>12. ASSUME lost' = {}, NEW c \in Slots \ {j}
       PROVE  OutKnown(c)' /\ AccKnown(c)' /\ FailedKnown(c)'
  <2>1. at'[c] = at[c] /\ acc'[c] = acc[c] /\ th'[c] = th[c]
    BY <1>1, <1>2, <1>3 DEF Started, ResultInv, ItemInv, RecordInv, RecordsTyped
  <2>2. lost = {}
    BY <1>8, <1>12
  <2> QED
    BY <1>2, <1>10, <2>1, <2>2, OthersStay
<1>13. ASSUME lost' = {}, NEW c \in Slots
       PROVE  OutKnown(c)' /\ AccKnown(c)' /\ FailedKnown(c)'
  <2>1. CASE c = j
    BY <1>11, <1>13, <2>1
  <2>2. CASE c # j
    BY <1>12, <1>13, <2>2
  <2> QED
    BY <2>1, <2>2
<1> QED
  BY <1>2, <1>5, <1>6, <1>9, <1>13 DEF ResultInv, ResultKnown

\* A scan's chunk is begun anew: its items hold the prefixes of the chunk, and its
\* record what the chunks before it came to.
LEMMA SpawnOffsetResult == ResultInv /\ SpawnOffset => ResultInv'
<1> SUFFICES ASSUME ResultInv, SpawnOffset PROVE ResultInv'
  OBVIOUS
<1>1. PICK result \in BOOLEAN : Started(k, result)
  BY DEF SpawnOffset
<1>2. /\ ItemInv' /\ UNCHANGED <<call, out, pc>> /\ pc = "offsets" /\ k \in Nat /\ k < Chunks
      /\ k >= 1 /\ k' = k + 1 /\ acc' = [acc EXCEPT ![k] = sum] /\ sum' = sum \o LastOf(k)
      /\ start < end /\ Chunks \in Int /\ DOMAIN acc = Slots /\ CallKnown /\ CallFits
      /\ op \in Scans /\ op \notin Inlines /\ op \notin Reduces /\ start \in Int /\ ~Reducing
  BY SpawnOffsetItemInv, Handy DEF ResultInv, SpawnOffset, CallerKnown, Offset
<1>3. PICK j \in Slots : j = k
  BY <1>2, Handy
<1>4. /\ op' = op /\ start' = start /\ end' = end /\ (Reducing' <=> Reducing)
      /\ Chunks' = Chunks /\ From(k)' = From(j + 1) /\ To(k)' = To(j + 1)
      /\ \A a, b : Run(a, b)' = Run(a, b)
  BY <1>2, <1>3, PlaceAfter
<1>5. DOMAIN acc' = Slots /\ LoopKnown'
  BY <1>2 DEF LoopKnown
<1>6. lost \subseteq lost'
  BY <1>1 DEF Started
<1>7. Joined(j) /\ ~Second(j) /\ Second(j)'
  BY <1>2, <1>3, <1>4, Behind DEF Second
<1>8. /\ From(j) \in Int /\ To(j) \in Int /\ th[j] # "none"
      /\ lost = {} => at[j] = IF From(j) < To(j) THEN To(j) ELSE From(j)
  <2>1. th[j] # "none"
    BY <1>7 DEF Joined
  <2> QED
    BY <1>2, <1>7, <2>1, StartedIsChunk, JoinedResult DEF ResultInv
<1>9. ASSUME lost = {}, NEW i \in Piece(j) PROVE Get(i) = Run(From(j), i)
  <2>1. From(j) < To(j) /\ i \in Done(j)
    BY <1>8, <1>9 DEF Piece, Done
  <2> QED
    BY <1>2, <1>7, <1>8, <1>9, <2>1 DEF ResultInv, ResultKnown, OutKnown
<1>10. ASSUME lost = {}, From(j) < To(j)
       PROVE  sum = Run(start, From(j) - 1) /\ LastOf(j) = Run(From(j), To(j) - 1)
  <2>1. sum = Run(start, From(j) - 1)
    BY <1>2, <1>3, <1>10 DEF ResultInv, ResultKnown, SumKnown
  <2>2. acc[j] = Run(From(j), To(j) - 1)
    BY <1>2, <1>7, <1>8, <1>10 DEF ResultInv, ResultKnown, AccKnown
  <2>3. Get(To(j) - 1) = Run(From(j), To(j) - 1)
    <3>1. To(j) - 1 \in Piece(j)
      BY <1>8, <1>10 DEF Piece
    <3> QED
      BY <1>9, <1>10, <3>1
  <2> QED
    BY <2>1, <2>2, <2>3 DEF LastOf
<1>11. ASSUME lost' = {} PROVE SumKnown'
  <2>1. ASSUME j + 1 < Chunks, From(j + 1) < To(j + 1)
        PROVE  sum' = Run(start, From(j + 1) - 1)
    <3>1. j \in Nat /\ lost = {}
      BY <1>2, <1>3, <1>6, <1>11
    <3>2. From(j) < To(j) /\ From(j + 1) = To(j)
      BY <1>2, <2>1, <3>1, NextPiece
    <3>3. start <= From(j)
      BY <1>2, <1>3, <3>1, PiecesInside
    <3> DEFINE b == From(j) - 1
               e == To(j) - 1
    <3>4. b \in Int /\ e \in Int /\ start <= b + 1 /\ b <= e /\ b + 1 = From(j)
      BY <1>2, <1>8, <3>2, <3>3
    <3>5. sum = Run(start, b) /\ LastOf(j) = Run(b + 1, e)
      BY <1>10, <3>1, <3>2, <3>4
    <3> HIDE DEF b, e
    <3>6. Run(start, b) \o Run(b + 1, e) = Run(start, e)
      BY <1>2, <3>4, RunsJoin
    <3> QED
      BY <1>2, <1>3, <3>2, <3>5, <3>6 DEF e
  <2>2. pc' = "offsets" /\ k' = j + 1 /\ ~Reducing'
    BY <1>2, <1>3, <1>4
  <2> QED
    BY <1>4, <2>1, <2>2 DEF SumKnown, Run
<1>12. ASSUME lost' = {} PROVE OutKnown(j)' /\ AccKnown(j)' /\ FailedKnown(j)'
  <2>1. result /\ lost = {}
    BY <1>1, <1>2, <1>6, <1>12 DEF Started, RunsInline
  <2>2. th'[j] = "work" /\ at'[j] = From(j) /\ acc'[j] = sum
    BY <1>1, <1>2, <1>3, <2>1 DEF Started, ResultInv, ItemInv, RecordInv, RecordsTyped
  <2>3. From(j)' = From(j) /\ To(j)' = To(j) /\ Piece(j)' = Piece(j)
    BY <1>2, SamePieces DEF Piece
  <2>4. ASSUME NEW i \in Piece(j) PROVE Get(i)' = Run(From(j), i) /\ ~(i < From(j))
    BY <1>2, <1>8, <1>9, <2>1 DEF Get, Piece
  <2>5. OutKnown(j)'
    BY <1>2, <1>4, <1>7, <2>2, <2>3, <2>4 DEF OutKnown, Run, Maps, Scans
  <2>6. AccKnown(j)'
    BY <1>2, <1>4, <1>7, <1>10, <2>1, <2>2, <2>3 DEF AccKnown, Run
  <2>7. FailedKnown(j)'
    BY <2>2 DEF FailedKnown
  <2> QED
    BY <2>5, <2>6, <2>7
<1>13. ASSUME lost' = {}, NEW c \in Slots \ {j}
       PROVE  OutKnown(c)' /\ AccKnown(c)' /\ FailedKnown(c)'
  <2>1. at'[c] = at[c] /\ acc'[c] = acc[c] /\ th'[c] = th[c]
    BY <1>1, <1>2, <1>3 DEF Started, ResultInv, ItemInv, RecordInv, RecordsTyped
  <2>2. lost = {}
    BY <1>6, <1>13
  <2>3. Second(c)' <=> Second(c)
    <3>1. c \in Nat
      BY Handy
    <3> QED
      BY <1>2, <1>3, <1>4, <1>13, <3>1 DEF Second
  <2> QED
    BY <1>2, <2>1, <2>2, <2>3, OthersStay
<1>14. ASSUME lost' = {}, NEW c \in Slots
       PROVE  OutKnown(c)' /\ AccKnown(c)' /\ FailedKnown(c)'
  <2>1. CASE c = j
    BY <1>12, <1>14, <2>1
  <2>2. CASE c # j
    BY <1>13, <1>14, <2>2
  <2> QED
    BY <2>1, <2>2
<1> QED
  BY <1>2, <1>5, <1>11, <1>14 DEF ResultInv, ResultKnown

-----------------------------------------------------------------------------
(***************************************************************************)
(* Steps that do an item.                                                  *)
(***************************************************************************)
\* Of the other chunks nothing changes: their items are others.
LEMMA TreatsOwn ==
  ASSUME ResultInv, NEW c \in Slots, th[c] # "none", at[c] < To(c), op # "filter",
         Treat(c, at[c]), NEW d \in Slots \ {c}, th[d] # "none"
  PROVE  acc'[d] = acc[d] /\ \A i \in Piece(d) : Get(i)' = Get(i)
<1>1. at[c] \in Piece(c)
  BY StartedIsChunk DEF ResultInv, ItemInv, ItemKnown, Piece
<1>2. /\ c \in Nat /\ d \in Nat /\ c < Chunks /\ d < Chunks /\ start < end
      /\ CallKnown /\ CallFits
  BY StartedIsChunk, Handy DEF ResultInv
<1>3. Piece(c) \cap Piece(d) = {}
  <2>1. CASE c < d
    BY <1>2, <2>1, PiecesApart
  <2>2. CASE d < c
    BY <1>2, <2>2, PiecesApart
  <2> QED
    BY <1>2, <2>1, <2>2
<1>4. at[c] \notin Piece(d)
  BY <1>1, <1>3
<1>5. UNCHANGED out \/ \E v : Put(at[c], v)
  BY DEF Treat, Fold, Scan, data
<1>6. \A i \in Piece(d) : Get(i)' = Get(i)
  <2>1. CASE UNCHANGED out
    BY <2>1 DEF Get
  <2>2. ASSUME NEW v, Put(at[c], v) PROVE \A i \in Piece(d) : Get(i)' = Get(i)
    <3>1. \A i \in Piece(d) : i # at[c]
      BY <1>4
    <3> QED
      BY <2>2, <3>1, PutThenGet
  <2> QED
    BY <1>5, <2>1, <2>2
<1>7. UNCHANGED acc \/ acc' = [acc EXCEPT ![c] = Append(@, at[c])]
  BY DEF Treat, Fold, Scan, data
<1>8. acc'[d] = acc[d]
  BY <1>7 DEF ResultInv
<1> QED
  BY <1>6, <1>8

LEMMA TreatsItem ==
  ASSUME ResultInv, lost = {}, NEW c \in Slots, th[c] # "none", at[c] < To(c),
         op # "filter", Treat(c, at[c]), UNCHANGED <<call, pc, k, th>>,
         op \in Scans => (Second(c) <=> pc \notin {"spawn", "join"})
  PROVE  OutKnown(c)' /\ AccKnown(c)'
<1>1. /\ c \in Nat /\ c < Chunks /\ start < end /\ From(c) \in Int /\ To(c) \in Int
      /\ at[c] \in Int /\ From(c) <= at[c] /\ start <= From(c) /\ start \in Int
  BY StartedIsChunk, PiecesInside, Handy DEF ResultInv, ItemInv, ItemKnown
<1>2. PICK i \in Int : i = at[c]
  BY <1>1
<1>3. at'[c] = i + 1
  BY <1>2 DEF Treat, ResultInv, ItemInv
<1>4. /\ op' = op /\ start' = start /\ From(c)' = From(c) /\ To(c)' = To(c)
      /\ Piece(c)' = Piece(c) /\ (Reducing' <=> Reducing) /\ th'[c] # "none"
      /\ (Second(c)' <=> Second(c)) /\ \A a, b : Run(a, b)' = Run(a, b)
  <2>1. From(c)' = From(c) /\ To(c)' = To(c)
    BY SamePieces
  <2> QED
    BY <2>1, PlaceAfter DEF Second, Piece
<1>5. i \in Int /\ i \in Piece(c) /\ i < To(c) /\ From(c) <= i /\ start <= i
  BY <1>1, <1>2 DEF Piece
<1>6. Done(c) = From(c) .. i - 1
  BY <1>2 DEF Done
<1>7. Done(c)' = From(c) .. i
  BY <1>1, <1>3, <1>4, <1>5 DEF Done
<1>8. OutKnown(c) /\ AccKnown(c) /\ DOMAIN acc = Slots
  BY DEF ResultInv, ResultKnown
<1>9. From(c) .. i = (From(c) .. i - 1) \cup {i} /\ i \notin From(c) .. i - 1
  BY <1>1, <1>5
<1>10. CASE op \in {"for_range", "for_each"}
  BY <1>4, <1>10 DEF OutKnown, AccKnown, Maps, Scans, Reduces, Reducing
<1>11. CASE op \in Maps
  <2>1. Put(i, <<i>>)
    BY <1>2, <1>11 DEF Treat, Maps, Scans
  <2>2. Get(i)' = <<i>> /\ \A a : a # i => Get(a)' = Get(a)
    BY <2>1, PutThenGet
  <2>3. \A a \in Done(c) : Get(a) = <<a>>
    BY <1>8, <1>11 DEF OutKnown
  <2>4. \A a \in Done(c)' : Get(a)' = <<a>>
    BY <1>6, <1>7, <1>9, <2>2, <2>3
  <2> QED
    BY <1>4, <1>11, <2>4 DEF OutKnown, AccKnown, Maps, Scans, Reduces, Reducing
<1>12. CASE op \in Reduces
  <2>1. acc' = [acc EXCEPT ![c] = Append(@, i)]
    BY <1>2, <1>12 DEF Treat, Reduces, Scans, Fold
  <2>2. acc'[c] = Append(acc[c], i)
    BY <1>8, <2>1
  <2>3. Reducing => acc[c] = Run(From(c), i - 1)
    BY <1>8, <1>2 DEF AccKnown
  <2>4. Append(Run(From(c), i - 1), i) = Run(From(c), i)
    BY <1>1, <1>5, RunGrows
  <2>5. i + 1 - 1 = i
    BY <1>5
  <2>6. Run(From(c), at[c] - 1)' = Run(From(c), i)
    BY <1>3, <1>4, <2>5 DEF Run
  <2>7. op \notin Scans /\ op \notin Maps
    BY <1>12 DEF Reduces, Scans, Maps
  <2> QED
    BY <1>4, <2>2, <2>3, <2>4, <2>6, <2>7 DEF OutKnown, AccKnown
<1>13. CASE op \in Scans /\ ~Second(c)
  <2>1. Scan(c, i)
    BY <1>2, <1>13 DEF Treat, Scans
  <2>2. acc' = [acc EXCEPT ![c] = Append(@, i)] /\ Put(i, Append(acc[c], i))
    BY <1>13, <2>1 DEF Scan, Fold
  <2>3. acc[c] = Run(From(c), i - 1)
    BY <1>1, <1>5, <1>8, <1>2, <1>13 DEF AccKnown
  <2>4. Append(Run(From(c), i - 1), i) = Run(From(c), i)
    BY <1>1, <1>5, RunGrows
  <2>5. acc'[c] = Run(From(c), i)
    BY <1>8, <2>2, <2>3, <2>4
  <2>6. Get(i)' = Run(From(c), i) /\ \A a : a # i => Get(a)' = Get(a)
    BY <2>2, <2>3, <2>4, PutThenGet
  <2>7. \A a \in Done(c) : Get(a) = Run(From(c), a)
    BY <1>8, <1>13 DEF OutKnown
  <2>8. \A a \in Done(c)' : Get(a)' = Run(From(c), a)
    BY <1>6, <1>7, <1>9, <2>6, <2>7
  <2>9. i + 1 - 1 = i
    BY <1>5
  <2>10. Run(From(c), at[c] - 1)' = Run(From(c), i)
    BY <1>3, <1>4, <2>9 DEF Run
  <2>11. op \notin Reduces /\ op \notin Maps
    BY <1>13 DEF Reduces, Scans, Maps
  <2>12. ~Reducing
    BY <2>11 DEF Reducing
  <2>13. OutKnown(c)'
    BY <1>4, <1>13, <2>8, <2>11 DEF OutKnown, Run
  <2>14. AccKnown(c)'
    BY <1>4, <1>13, <2>5, <2>10, <2>12 DEF AccKnown
  <2> QED
    BY <2>13, <2>14
<1>14. CASE op \in Scans /\ Second(c)
  <2>1. Scan(c, i)
    BY <1>2, <1>14 DEF Treat, Scans
  <2>2. UNCHANGED acc /\ Put(i, acc[c] \o Get(i))
    BY <1>14, <2>1 DEF Scan
  <2>3. acc[c] = Run(start, From(c) - 1)
    BY <1>1, <1>5, <1>8, <1>14 DEF AccKnown
  <2>4. Get(i) = Run(From(c), i)
    BY <1>5, <1>8, <1>2, <1>14 DEF OutKnown
  <2>5. Run(start, From(c) - 1) \o Run(From(c), i) = Run(start, i)
    <3> DEFINE b == From(c) - 1
    <3>1. b \in Int /\ start <= b + 1 /\ b <= i /\ b + 1 = From(c)
      BY <1>1, <1>5
    <3> HIDE DEF b
    <3>2. Run(start, b) \o Run(b + 1, i) = Run(start, i)
      BY <1>1, <1>5, <3>1, RunsJoin
    <3> QED
      BY <3>1, <3>2 DEF b
  <2>6. Get(i)' = Run(start, i) /\ \A a : a # i => Get(a)' = Get(a)
    BY <2>2, <2>3, <2>4, <2>5, PutThenGet
  <2>7. ASSUME NEW a \in Piece(c)
        PROVE  Get(a)' = IF a < i + 1 THEN Run(start, a) ELSE Run(From(c), a)
    <3>1. a \in Int
      BY <1>1 DEF Piece
    <3>2. CASE a = i
      BY <1>5, <2>6, <3>2
    <3>3. CASE a # i
      <4>1. Get(a)' = IF a < i THEN Run(start, a) ELSE Run(From(c), a)
        BY <1>8, <1>2, <1>14, <2>6, <3>3 DEF OutKnown
      <4>2. a < i <=> a < i + 1
        BY <1>5, <3>1, <3>3
      <4> QED
        BY <4>1, <4>2
    <3> QED
      BY <3>2, <3>3
  <2>8. op \notin Reduces /\ op \notin Maps
    BY <1>14 DEF Reduces, Scans, Maps
  <2>9. ~Reducing
    BY <2>8 DEF Reducing
  <2>10. OutKnown(c)'
    BY <1>3, <1>4, <1>14, <2>7, <2>8 DEF OutKnown, Run
  <2>11. AccKnown(c)'
    BY <1>4, <1>14, <2>2, <2>3, <2>9 DEF AccKnown, Run
  <2> QED
    BY <2>10, <2>11
<1>15. op \in {"for_range", "for_each"} \cup Maps \cup Reduces \cup Scans
  BY Handy DEF CallKnown, RangeOps, SliceOps, Maps, Reduces, Scans
<1> QED
  BY <1>10, <1>11, <1>12, <1>13, <1>14, <1>15

\* What the caller has merged is not touched.
LEMMA SumStays ==
  ASSUME ResultInv, UNCHANGED <<call, pc, k, sum>>
  PROVE  LoopKnown' /\ (lost = {} => SumKnown')
<1>1. PICK j : j = k
  OBVIOUS
<1>2. /\ From(k)' = From(j) /\ To(k)' = To(j) /\ Base(k)' = Base(j)
      /\ Chunks' = Chunks /\ Before' = Before /\ (Reducing' <=> Reducing)
      /\ op' = op /\ start' = start /\ end' = end /\ To(0)' = To(0)
  BY <1>1, PlaceAfter
<1>3. LoopKnown'
  BY <1>2 DEF ResultInv, LoopKnown
<1>4. ASSUME lost = {} PROVE SumKnown'
  <2>1. SumKnown
    BY <1>4 DEF ResultInv, ResultKnown
  <2> QED
    BY <1>1, <1>2, <2>1 DEF SumKnown, Run
<1> QED
  BY <1>3, <1>4

LEMMA TreatResult ==
  ASSUME ResultInv, ItemInv', NEW c \in Slots, th[c] # "none", at[c] < To(c),
         Treat(c, at[c]), UNCHANGED <<call, pc, k, th, lost>>,
         op \in Scans => (Second(c) <=> pc \notin {"spawn", "join"})
  PROVE  ResultInv'
<1>1. UNCHANGED sum /\ at' = [at EXCEPT ![c] = at[c] + 1]
  BY DEF Treat, Pack, Fold, Scan, Put, data
<1>2. LoopKnown' /\ (lost = {} => SumKnown')
  BY <1>1, SumStays
<1>3. DOMAIN acc' = Slots
  BY DEF Treat, Fold, Scan, data, ResultInv
<1>4. op' = op /\ (Reducing' <=> Reducing)
  BY PlaceAfter
<1>5. ASSUME lost = {}, NEW d \in Slots
      PROVE  OutKnown(d)' /\ AccKnown(d)' /\ FailedKnown(d)'
  <2>1. OutKnown(d) /\ AccKnown(d) /\ FailedKnown(d)
    BY <1>5 DEF ResultInv, ResultKnown
  <2>2. FailedKnown(d)'
    BY <1>4, <2>1 DEF FailedKnown
  <2>3. CASE op = "filter"
    <3>1. op \notin Maps /\ op \notin Scans /\ ~Reducing
      BY <2>3 DEF Maps, Scans, Reducing, Reduces
    <3> QED
      BY <1>4, <2>2, <3>1 DEF OutKnown, AccKnown
  <2>4. CASE op # "filter" /\ d = c
    BY <1>5, <2>2, <2>4, TreatsItem
  <2>5. CASE op # "filter" /\ d # c /\ th[d] # "none"
    <3>1. acc'[d] = acc[d] /\ \A i \in Piece(d) : Get(i)' = Get(i)
      BY <2>5, TreatsOwn
    <3>2. at'[d] = at[d]
      BY <1>1, <2>5 DEF ResultInv, ItemInv
    <3>3. Second(d)' <=> Second(d)
      BY <1>4 DEF Second
    <3> QED
      BY <2>1, <3>1, <3>2, <3>3, ResultStays DEF ResultInv
  <2>6. CASE th[d] = "none"
    BY <2>2, <2>6 DEF OutKnown, AccKnown
  <2> QED
    BY <2>3, <2>4, <2>5, <2>6
<1> QED
  BY <1>2, <1>3, <1>5 DEF ResultInv, ResultKnown

\* A chunk that is worked on is in its first pass until the caller has joined it.
LEMMA WhichPass ==
  ASSUME ResultInv, NEW c \in Slots, th[c] = "work", op \in Scans
  PROVE  Second(c) <=> pc \notin {"spawn", "join"}
<1>1. c \in Nat /\ c < Chunks /\ k \in Nat /\ Chunks \in Int /\ ChunkKnown(c) /\ CallerKnown
  BY StartedIsChunk, AtHand DEF ResultInv, ItemInv
<1>2. pc \notin {"call", "inline", "compact", "returned"}
  BY <1>1 DEF ChunkKnown, CallerKnown, Fresh, Given, Inlines, Scans
<1>3. pc \in {"offsets", "rejoin"} => 1 <= c
  BY <1>1 DEF ChunkKnown, Once
<1>4. pc = "offsets" => c < k
  BY <1>1 DEF ChunkKnown, Once
<1> QED
  BY <1>1, <1>2, <1>3, <1>4 DEF Second, CallerKnown

LEMMA InlineResult == ResultInv /\ Inline => ResultInv'
<1> SUFFICES ASSUME ResultInv, Inline PROVE ResultInv'
  OBVIOUS
<1>1. /\ ItemInv' /\ k \in Slots /\ th[k] # "none" /\ op \notin Scans /\ ~Reducing
      /\ op \in Inlines /\ k < Chunks /\ Chunks \in Int /\ k \in Nat
  <2>1. k < Chunks /\ op \in Inlines
    BY Handy DEF Inline
  <2>2. op \notin Scans /\ ~Reducing
    BY <2>1, Handy
  <2>3. th[k] # "none"
    BY DEF Inline, ResultInv, ItemInv, InlineKnown
  <2> QED
    BY <2>1, <2>2, <2>3, InlineItemInv, Handy DEF ResultInv
<1>2. CASE at[k] < To(k)
  <2>1. PICK c \in Slots : c = k
    BY <1>1
  <2>2. at[c] < To(c) /\ Treat(c, at[c]) /\ th[c] # "none"
    BY <1>1, <1>2, <2>1 DEF Inline
  <2>3. UNCHANGED <<call, pc, k, th, lost>>
    BY <1>2 DEF Inline
  <2> QED
    BY <1>1, <2>2, <2>3, TreatResult
<1>3. CASE ~(at[k] < To(k))
  <2>1. UNCHANGED <<call, th, at, acc, out, lost>> /\ pc' = "spawn" /\ k' = k + 1
    BY <1>3 DEF Inline, data
  <2>2. op' = op /\ (Reducing' <=> Reducing) /\ Chunks' = Chunks
    BY <2>1, PlaceAfter
  <2>3. LoopKnown' /\ SumKnown'
    BY <1>1, <2>1, <2>2 DEF LoopKnown, SumKnown, Scans
  <2>4. \A c \in Slots : ~Second(c) /\ ~Second(c)'
    BY <1>1, <2>2 DEF Second
  <2> QED
    BY <1>1, <2>1, <2>3, <2>4, CallerOnlyResult
<1> QED
  BY <1>2, <1>3

LEMMA ThreadResult ==
  ASSUME ResultInv, NEW c \in Slots, Work(c) \/ SetDone(c) \/ End(c)
  PROVE  ResultInv'
<1>1. ItemInv'
  BY ThreadItemInv DEF ResultInv
<1>2. CASE Work(c)
  BY <1>1, <1>2, WhichPass, TreatResult DEF Work
<1>3. CASE SetDone(c) \/ End(c)
  <2>1. /\ UNCHANGED <<call, pc, k, at, data, lost>>
        /\ th[c] # "none" /\ \E s \in {"done", "gone"} : th' = [th EXCEPT ![c] = s]
    BY <1>3 DEF SetDone, End
  <2>2. LoopKnown' /\ (lost = {} => SumKnown')
    BY <2>1, SumStays DEF data
  <2>3. DOMAIN acc' = Slots /\ UNCHANGED <<acc, out>>
    BY <2>1 DEF data, ResultInv
  <2>4. ASSUME lost = {}, NEW d \in Slots
        PROVE  OutKnown(d)' /\ AccKnown(d)' /\ FailedKnown(d)'
    <3>1. th'[d] = th[d] \/ (th[d] # "none" /\ th'[d] \in {"done", "gone"})
      BY <2>1 DEF ResultInv, ItemInv, RecordInv, RecordsTyped
    <3>2. OutKnown(d) /\ AccKnown(d) /\ FailedKnown(d)
      BY <2>4 DEF ResultInv, ResultKnown
    <3>3. \A i \in Piece(d) : Get(i)' = Get(i)
      BY <2>3 DEF Get
    <3>4. Second(d)' <=> Second(d)
      BY <2>1 DEF Second, call
    <3> QED
      BY <2>1, <2>3, <3>1, <3>2, <3>3, <3>4, ResultStays DEF ResultInv
  <2> QED
    BY <1>1, <2>1, <2>2, <2>3, <2>4 DEF ResultInv, ResultKnown
<1> QED
  BY <1>2, <1>3

LEMMA NextResultInv == ResultInv /\ [Next]_vars => ResultInv'
<1> SUFFICES ASSUME ResultInv, [Next]_vars PROVE ResultInv'
  OBVIOUS
<1>1. CASE Begin \/ SpawnsEnd \/ Join \/ JoinsEnd
  BY <1>1, BeginResult, SpawnsEndResult, JoinResult, JoinsEndResult
<1>2. CASE Compact \/ OffsetsEnd \/ Rejoin \/ Return
  BY <1>2, PassingResult
<1>3. CASE Spawn \/ Inline \/ SpawnOffset
  BY <1>3, SpawnResult, InlineResult, SpawnOffsetResult
<1>4. CASE \E c \in Slots : Work(c) \/ SetDone(c) \/ End(c)
  BY <1>4, ThreadResult
<1>5. CASE Terminated \/ UNCHANGED vars
  <2>1. UNCHANGED <<call, pc, k, th, at, acc, out, sum, lost>>
    BY <1>5 DEF Terminated, vars, data
  <2>2. ItemInv'
    BY <1>5, NextItemInv DEF ResultInv, Terminated
  <2>3. LoopKnown' /\ (lost = {} => SumKnown')
    BY <2>1, SumStays
  <2>4. \A c \in Slots : Second(c)' <=> Second(c)
    BY <2>1 DEF Second, call
  <2> QED
    BY <2>1, <2>2, <2>3, <2>4, CallerOnlyResult
<1> QED
  BY <1>1, <1>2, <1>3, <1>4, <1>5 DEF Next

-----------------------------------------------------------------------------
\* What the helper returns when it has lost nothing.
LEMMA ItemsReturned ==
  ASSUME ResultInv, Finished, NEW i \in start .. end - 1
  PROVE  /\ op \in Maps => Get(i) = <<i>>
         /\ op \in Scans => Get(i) = Run(start, i)
<1>1. ItemInv /\ CallKnown /\ CallFits /\ start \in Int /\ end \in Int
  BY Handy DEF ResultInv
<1>2. start < end
  BY <1>1
<1>3. PICK c \in DoneBy(i) : TRUE
  BY <1>1, AllDone
<1>4. c \in Slots /\ i \in Done(c) /\ th[c] # "none" /\ pc = "returned"
  BY <1>3 DEF DoneBy, Done, Finished
<1>5. c \in Nat /\ i \in Piece(c) /\ OutKnown(c) /\ i < at[c]
  <2>1. at[c] \in Int /\ From(c) \in Int
    BY <1>1, <1>4, StartedIsChunk DEF ItemInv
  <2>2. i < at[c]
    BY <1>4, <2>1 DEF Done
  <2> QED
    BY <1>1, <1>4, <2>2, DoneInPiece, StartedIsChunk DEF ResultInv, ResultKnown, Finished
<1>6. op \in Maps => Get(i) = <<i>>
  BY <1>4, <1>5 DEF OutKnown
<1>7. ASSUME op \in Scans PROVE Get(i) = Run(start, i)
  <2>1. CASE c = 0
    <3>1. ~Second(c) /\ From(c) = start
      BY <1>1, <1>2, <2>1, FirstPiece DEF Second
    <3> QED
      BY <1>4, <1>5, <1>7, <3>1 DEF OutKnown
  <2>2. CASE c # 0
    <3>1. Second(c)
      BY <1>4, <1>5, <1>7, <2>2 DEF Second
    <3> QED
      BY <1>4, <1>5, <1>7, <3>1 DEF OutKnown
  <2> QED
    BY <2>1, <2>2
<1> QED
  BY <1>6, <1>7

LEMMA ResultIsExpected == ResultInv /\ Claimed /\ op # "filter" => SameAsSequential
<1> SUFFICES ASSUME ResultInv, Claimed, op # "filter", Finished PROVE Expected
  BY DEF SameAsSequential
<1>1. CallKnown
  BY Handy
<1>2. /\ Items = Run(start, end - 1)
      /\ \A i \in start .. end - 1 : Upto(i) = Run(start, i)
  BY <1>1, ItemsAreRun
<1>3. CASE op \in Maps
  BY <1>3, ItemsReturned DEF Expected, Maps, Scans
<1>4. CASE op \in Scans
  BY <1>2, <1>4, ItemsReturned DEF Expected, Maps, Scans
<1>5. CASE op \in Reduces
  <2>1. Reducing /\ pc = "returned"
    BY <1>5 DEF Claimed, Reducing, Finished
  <2>2. sum = Before \o Items
    BY <1>2, <2>1 DEF ResultInv, ResultKnown, SumKnown, Finished
  <2>3. CASE op = "reduce_int"
    BY <2>2, <2>3 DEF Expected, Before, Scans
  <2>4. CASE op = "reduce"
    BY <2>1, <2>2, <2>4 DEF Expected, Before, Scans, Reducing
  <2> QED
    BY <1>5, <2>3, <2>4 DEF Reduces
<1>6. CASE op \in {"for_range", "for_each"}
  BY <1>6 DEF Expected, Scans
<1> QED
  BY <1>1, <1>3, <1>4, <1>5, <1>6
     DEF Claimed, CallKnown, RangeOps, SliceOps, Maps, Reduces, Scans

-----------------------------------------------------------------------------
(***************************************************************************)
(* What a filter's chunks have kept, and what the caller has copied of it. *)
(***************************************************************************)
LEMMA InOrderSeq ==
  ASSUME NEW s \in Seq(Int), NEW K
  PROVE  InOrder(s, K) <=> /\ \A i \in K : \E j \in 1 .. Len(s) : s[j] = i
                           /\ \A j \in 1 .. Len(s) : s[j] \in K
                           /\ \A a, b \in 1 .. Len(s) : a < b => s[a] < s[b]
<1>1. DOMAIN s = 1 .. Len(s)
  BY LenProperties
<1>2. ToSet(s) = {s[j] : j \in 1 .. Len(s)}
  BY <1>1 DEF ToSet
<1> QED
  BY <1>1, <1>2 DEF InOrder

LEMMA NothingInOrder == InOrder(<<>>, {}) /\ <<>> \in Seq(Int)
<1>1. <<>> \in Seq(Int) /\ Len(<<>>) = 0
  BY EmptySeq
<1>2. 1 .. 0 = {}
  OBVIOUS
<1> QED
  BY <1>1, <1>2, InOrderSeq

\* What lies behind everything there is may follow it.
LEMMA InOrderJoin ==
  ASSUME NEW s \in Seq(Int), NEW t \in Seq(Int), NEW K, NEW L, NEW M,
         InOrder(s, K), InOrder(t, L), M = K \cup L, \A i \in K : \A j \in L : i < j
  PROVE  s \o t \in Seq(Int) /\ InOrder(s \o t, M)
<1> DEFINE u == s \o t
<1>1. /\ u \in Seq(Int) /\ Len(u) = Len(s) + Len(t)
      /\ \A i \in 1 .. Len(s) + Len(t) : u[i] = IF i <= Len(s) THEN s[i] ELSE t[i - Len(s)]
  BY ConcatProperties
<1>2. Len(s) \in Nat /\ Len(t) \in Nat
  BY LenProperties
<1>3. /\ \A i \in K : \E j \in 1 .. Len(s) : s[j] = i
      /\ \A j \in 1 .. Len(s) : s[j] \in K
      /\ \A a, b \in 1 .. Len(s) : a < b => s[a] < s[b]
  BY InOrderSeq
<1>4. /\ \A i \in L : \E j \in 1 .. Len(t) : t[j] = i
      /\ \A j \in 1 .. Len(t) : t[j] \in L
      /\ \A a, b \in 1 .. Len(t) : a < b => t[a] < t[b]
  BY InOrderSeq
<1> DEFINE m == Len(s)
           n == Len(t)
<1> HIDE DEF u, m, n
<1>5. /\ m \in Nat /\ n \in Nat /\ Len(u) = m + n
      /\ \A i \in 1 .. m + n : u[i] = IF i <= m THEN s[i] ELSE t[i - m]
  BY <1>1, <1>2 DEF m, n
<1>6. /\ \A j \in 1 .. m : s[j] \in K
      /\ \A a, b \in 1 .. m : a < b => s[a] < s[b]
      /\ \A j \in 1 .. n : t[j] \in L
      /\ \A a, b \in 1 .. n : a < b => t[a] < t[b]
  BY <1>3, <1>4 DEF m, n
<1>7. \A i \in 1 .. m + n : i <= m \/ i - m \in 1 .. n
  BY <1>5
<1>8. \A j \in 1 .. m + n : u[j] \in M
  <2> SUFFICES ASSUME NEW j \in 1 .. m + n PROVE u[j] \in M
    OBVIOUS
  <2>1. CASE j <= m
    <3>1. j \in 1 .. m /\ u[j] = s[j]
      BY <1>5, <2>1
    <3> QED
      BY <1>6, <3>1
  <2>2. CASE ~(j <= m)
    <3>1. j - m \in 1 .. n /\ u[j] = t[j - m]
      BY <1>5, <1>7, <2>2
    <3> QED
      BY <1>6, <3>1
  <2> QED
    BY <2>1, <2>2
<1>9. ASSUME NEW a \in 1 .. m + n, NEW b \in 1 .. m + n, a < b PROVE u[a] < u[b]
  <2>1. CASE b <= m
    <3>1. a \in 1 .. m /\ b \in 1 .. m /\ u[a] = s[a] /\ u[b] = s[b]
      BY <1>5, <1>9, <2>1
    <3> QED
      BY <1>6, <1>9, <3>1
  <2>2. CASE a <= m /\ ~(b <= m)
    <3>1. a \in 1 .. m /\ b - m \in 1 .. n /\ u[a] = s[a] /\ u[b] = t[b - m]
      BY <1>5, <1>7, <2>2
    <3>2. s[a] \in K /\ t[b - m] \in L
      BY <1>6, <3>1
    <3> QED
      BY <3>1, <3>2
  <2>3. CASE ~(a <= m)
    <3>1. /\ a - m \in 1 .. n /\ b - m \in 1 .. n /\ a - m < b - m
          /\ u[a] = t[a - m] /\ u[b] = t[b - m]
      BY <1>5, <1>9, <1>7, <2>3
    <3> QED
      BY <1>6, <3>1
  <2> QED
    BY <1>5, <2>1, <2>2, <2>3
<1>10. ASSUME NEW i \in M PROVE \E j \in 1 .. m + n : u[j] = i
  <2>1. CASE i \in K
    <3>1. PICK j \in 1 .. m : s[j] = i
      BY <1>3, <2>1 DEF m
    <3>2. j \in 1 .. m + n /\ u[j] = s[j]
      BY <1>5
    <3> QED
      BY <3>1, <3>2
  <2>2. CASE i \in L
    <3>1. PICK j \in 1 .. n : t[j] = i
      BY <1>4, <2>2 DEF n
    <3>2. j + m \in 1 .. m + n /\ ~(j + m <= m) /\ j + m - m = j
      BY <1>5
    <3>3. u[j + m] = t[j]
      BY <1>5, <3>2
    <3> QED
      BY <3>1, <3>2, <3>3
  <2> QED
    BY <2>1, <2>2
<1>11. u \in Seq(Int) /\ InOrder(u, M)
  BY <1>1, <1>5, <1>8, <1>9, <1>10, InOrderSeq
<1> QED
  BY <1>11 DEF u

LEMMA InOrderOne ==
  ASSUME NEW i \in Int
  PROVE  <<i>> \in Seq(Int) /\ InOrder(<<i>>, {i})
<1>1. <<i>> \in Seq(Int) /\ Len(<<i>>) = 1 /\ <<i>>[1] = i
  OBVIOUS
<1> DEFINE s == <<i>>
<1>2. 1 .. Len(s) = {1} /\ s \in Seq(Int) /\ s[1] = i
  BY <1>1
<1> HIDE DEF s
<1>3. /\ \A x \in {i} : \E j \in 1 .. Len(s) : s[j] = x
      /\ \A j \in 1 .. Len(s) : s[j] \in {i}
      /\ \A a, b \in 1 .. Len(s) : a < b => s[a] < s[b]
  BY <1>2
<1>4. InOrder(s, {i})
  BY <1>2, <1>3, InOrderSeq
<1> QED
  BY <1>1, <1>4 DEF s

LEMMA NoPlaces ==
  ASSUME NEW s \in [1 .. 0 -> Int]
  PROVE  s = <<>>
<1>1. s \in Seq(Int) /\ DOMAIN s = 1 .. 0
  OBVIOUS
<1>2. Len(s) = 0
  BY <1>1, LenProperties
<1> QED
  BY <1>1, <1>2, EmptySeq

\* What a chunk has kept.
KeptOf(c) == kept \cap Done(c)

\* It has them in order in its own part of the buffer, one place for each at most.
PackedKnown(c) ==
  /\ packed[c] \in Nat
  /\ IF th[c] = "none" THEN packed[c] = 0 ELSE packed[c] <= at[c] - From(c)
  /\ Packed(c) \in Seq(Int)
  /\ InOrder(Packed(c), KeptOf(c))

\* What was copied is what lies in the chunks before.
CopiedKnown ==
  /\ sum \in Seq(Int)
  /\ pc \notin {"compact", "returned"} => sum = <<>>
  /\ pc = "compact" => k <= Chunks /\ InOrder(sum, {i \in kept : i < Base(k)})
  /\ pc = "returned" => InOrder(sum, kept)

FilterKnown ==
  /\ DOMAIN packed = Slots
  /\ \A i \in kept : \E c \in Slots : i \in Done(c)
  /\ \A c \in Slots : PackedKnown(c)
  /\ CopiedKnown

FilterInv == ItemInv /\ (op = "filter" => FilterKnown)

LEMMA InitFilterInv == Representable /\ Init => FilterInv
<1> SUFFICES ASSUME Representable, Init PROVE FilterInv
  OBVIOUS
<1>1. ItemInv
  BY InitItemInv
<1>2. CopiedKnown
  BY NothingInOrder DEF Init, CopiedKnown
<1>3. ASSUME NEW c \in Slots PROVE PackedKnown(c)
  <2>1. packed[c] = 0 /\ th[c] = "none" /\ KeptOf(c) = {}
    BY DEF Init, KeptOf
  <2>2. Packed(c) = <<>>
    <3>1. Packed(c) \in [1 .. 0 -> Int]
      BY <2>1 DEF Packed
    <3> QED
      BY <3>1, NoPlaces
  <2> QED
    BY <2>1, <2>2, NothingInOrder DEF PackedKnown
<1> QED
  BY <1>1, <1>2, <1>3 DEF Init, FilterInv, FilterKnown

\* The places a chunk has packed are in its own piece.
LEMMA PackedInside ==
  ASSUME ItemInv, NEW c \in Slots, PackedKnown(c), NEW j \in 1 .. packed[c]
  PROVE  From(c) + j - 1 \in Piece(c)
<1>1. packed[c] \in Nat /\ th[c] # "none" /\ packed[c] <= at[c] - From(c)
  BY DEF PackedKnown
<1>2. From(c) \in Int /\ To(c) \in Int /\ at[c] \in Int /\ (at[c] > From(c) => at[c] <= To(c))
  BY <1>1, StartedIsChunk DEF ItemInv, ItemKnown
<1> QED
  BY <1>1, <1>2 DEF Piece

\* A chunk in whose piece nothing was put stays as it is.
LEMMA PackedStays ==
  ASSUME ItemInv, UNCHANGED call, NEW c \in Slots, PackedKnown(c),
         at'[c] = at[c], packed'[c] = packed[c], th'[c] = "none" <=> th[c] = "none",
         \A i \in Piece(c) : Get(i)' = Get(i), KeptOf(c)' = KeptOf(c)
  PROVE  PackedKnown(c)'
<1>1. PICK f : f = From(c)
  OBVIOUS
<1>2. From(c)' = f
  BY <1>1, SamePieces
<1>3. \A j \in 1 .. packed[c] : f + j - 1 \in Piece(c)
  BY <1>1, PackedInside
<1>4. \A j \in 1 .. packed[c] : Get(f + j - 1)' = Get(f + j - 1)
  BY <1>3
<1>5. Packed(c)' = [j \in 1 .. packed[c] |-> Get(f + j - 1)'[1]]
  BY <1>2 DEF Packed, Get
<1>6. Packed(c) = [j \in 1 .. packed[c] |-> Get(f + j - 1)[1]]
  BY <1>1 DEF Packed
<1>7. Packed(c)' = Packed(c)
  BY <1>4, <1>5, <1>6
<1> QED
  BY <1>1, <1>2, <1>7 DEF PackedKnown, InOrder, ToSet

\* A step that packs nothing and starts nothing.
LEMMA FilterStays ==
  ASSUME FilterInv, ItemInv', UNCHANGED <<call, at, packed, out, kept>>,
         \A c \in Slots : th'[c] = "none" <=> th[c] = "none",
         op = "filter" => CopiedKnown'
  PROVE  FilterInv'
<1> SUFFICES ASSUME op = "filter" PROVE FilterKnown'
  BY DEF FilterInv, call
<1>1. FilterKnown /\ ItemInv
  BY DEF FilterInv
<1>2. \A c \in Slots : Done(c)' = Done(c)
  BY SamePieces DEF Done
<1>3. ASSUME NEW c \in Slots PROVE PackedKnown(c)'
  <2>1. KeptOf(c)' = KeptOf(c)
    BY <1>2 DEF KeptOf
  <2>2. \A i \in Piece(c) : Get(i)' = Get(i)
    BY DEF Get
  <2> QED
    BY <1>1, <2>1, <2>2, PackedStays DEF FilterKnown
<1>4. \A i \in kept' : \E c \in Slots : i \in Done(c)'
  BY <1>1, <1>2 DEF FilterKnown
<1> QED
  BY <1>1, <1>3, <1>4 DEF FilterKnown

LEMMA BeginFilter == FilterInv /\ Begin => FilterInv'
<1> SUFFICES ASSUME FilterInv, Begin PROVE FilterInv'
  OBVIOUS
<1>1. ItemInv' /\ RecordInv
  BY CallerItemInv DEF FilterInv, ItemInv
<1>2. UNCHANGED <<call, at, packed, out, kept, th>>
  BY DEF Begin
<1>3. ASSUME op = "filter" PROVE CopiedKnown'
  <2>1. sum' = <<>> /\ pc' \in {"spawn", "returned"}
    BY <1>3 DEF Begin, Seed, Refused
  <2>2. \A c \in Slots : th[c] = "none"
    BY <1>1, AtHand DEF Begin, ChunkKnown, Fresh
  <2>3. kept = {}
    BY <1>3, <2>2 DEF FilterInv, FilterKnown, Done
  <2> QED
    BY <1>2, <2>1, <2>3, NothingInOrder DEF CopiedKnown, InOrder, ToSet
<1> QED
  BY <1>1, <1>2, <1>3, FilterStays

\* The steps of the caller that move nothing.
LEMMA IdleFilter ==
  ASSUME FilterInv, SpawnsEnd \/ Join \/ OffsetsEnd \/ Rejoin \/ Terminated \/ UNCHANGED vars
  PROVE  FilterInv'
<1>1. ItemInv' /\ RecordInv
  BY CallerItemInv, NextItemInv DEF FilterInv, ItemInv, Terminated
<1>2. UNCHANGED <<call, at, packed, out, kept, th>>
  BY DEF SpawnsEnd, Join, OffsetsEnd, Rejoin, Terminated, vars, data
<1>3. ASSUME op = "filter" PROVE CopiedKnown'
  <2>1. CopiedKnown /\ CallerKnown
    BY <1>1, <1>3 DEF FilterInv, FilterKnown, RecordInv
  <2>2. CASE SpawnsEnd \/ Join
    BY <1>3, <2>1, <2>2 DEF SpawnsEnd, Join, Merged, FirstReplaces, CopiedKnown, data
  <2>3. CASE OffsetsEnd \/ Rejoin
    BY <1>3, <2>1, <2>3 DEF OffsetsEnd, Rejoin, CallerKnown, Scans
  <2>4. CASE Terminated \/ UNCHANGED vars
    <3>1. UNCHANGED <<call, pc, k, kept, sum>>
      BY <2>4 DEF Terminated, vars, data
    <3>2. PICK j : j = k
      OBVIOUS
    <3>3. Base(k)' = Base(j) /\ Chunks' = Chunks
      BY <3>1, <3>2, PlaceAfter
    <3> QED
      BY <2>1, <3>1, <3>2, <3>3 DEF CopiedKnown, InOrder, ToSet
  <2> QED
    BY <2>2, <2>3, <2>4
<1> QED
  BY <1>1, <1>2, <1>3, FilterStays

LEMMA JoinsEndFilter == FilterInv /\ JoinsEnd => FilterInv'
<1> SUFFICES ASSUME FilterInv, JoinsEnd PROVE FilterInv'
  OBVIOUS
<1>1. ItemInv' /\ RecordInv /\ CallFits /\ CallKnown /\ CallerKnown
  BY LastItemInv DEF FilterInv, ItemInv, RecordInv
<1>2. UNCHANGED <<call, at, packed, out, kept, th>>
  BY DEF JoinsEnd
<1>3. ASSUME op = "filter" PROVE CopiedKnown'
  <2>1. CopiedKnown /\ FilterKnown
    BY <1>3 DEF FilterInv, FilterKnown
  <2>2. pc' = "compact" /\ k' = 0 /\ sum' = <<>> /\ start < end
    BY <1>1, <1>3, <2>1 DEF JoinsEnd, CopiedKnown, CallerKnown, Scans
  <2>3. Base(k)' = Base(0) /\ Chunks' = Chunks
    BY <1>2, <2>2, PlaceAfter
  <2>4. Base(0) = start /\ Chunks \in Int /\ 0 < Chunks
    BY <1>1, <2>2, FirstPiece, AtHand DEF Base
  <2>5. {i \in kept' : i < Base(k)'} = {}
    <3> SUFFICES ASSUME NEW i \in kept, i < start PROVE FALSE
      BY <1>2, <2>3, <2>4
    <3>1. PICK c \in Slots : i \in Done(c)
      BY <2>1 DEF FilterKnown
    <3>2. i \in start .. end - 1 /\ start \in Int
      BY <1>1, <3>1, DoneInPiece DEF FilterInv, CallKnown
    <3> QED
      BY <3>2
  <2> QED
    BY <2>2, <2>3, <2>4, <2>5, NothingInOrder DEF CopiedKnown, InOrder, ToSet
<1> QED
  BY <1>1, <1>2, <1>3, FilterStays

LEMMA SpawnFilter == FilterInv /\ Spawn => FilterInv'
<1> SUFFICES ASSUME FilterInv, Spawn, op = "filter" PROVE FilterInv'
  BY SpawnItemInv DEF FilterInv, Spawn, call
<1>1. ItemInv /\ ItemInv' /\ RecordInv /\ CallFits /\ CallKnown /\ CallerKnown /\ FilterKnown
  BY SpawnItemInv DEF FilterInv, ItemInv, RecordInv
<1>2. PICK j \in Slots : j = k
  BY <1>1, AtHand DEF Spawn
<1>3. th[j] = "none" /\ j \in Nat /\ j < Chunks /\ start < end
  BY <1>1, <1>2, AtHand DEF Spawn, ChunkKnown, Fresh, CallerKnown
<1>4. UNCHANGED <<call, packed, out, kept, sum>> /\ pc' # "compact" /\ pc' # "returned"
  BY DEF Spawn
<1>5. PICK result \in BOOLEAN : Started(j, result)
  BY <1>2 DEF Spawn
<1>6. /\ at'[j] = From(j) /\ th'[j] # "none"
      /\ \A d \in Slots \ {j} : at'[d] = at[d] /\ th'[d] = th[d]
  BY <1>1, <1>5 DEF Started, ItemInv, RecordsTyped, RecordInv
<1>7. From(j) \in Int /\ From(j)' = From(j)
  BY <1>1, <1>3, <1>4, PiecesInside, SamePieces
<1>8. \A d \in Slots \ {j} : Done(d)' = Done(d)
  BY <1>4, <1>6, SamePieces DEF Done
<1>9. PackedKnown(j)'
  <2>1. packed[j] = 0
    BY <1>1, <1>3 DEF FilterKnown, PackedKnown
  <2>2. Packed(j)' = <<>>
    <3>1. packed'[j] = 0
      BY <1>4, <2>1
    <3>2. Packed(j)' \in [1 .. 0 -> Int]
      BY <3>1 DEF Packed
    <3> QED
      BY <3>2, NoPlaces
  <2>3. KeptOf(j)' = {}
    BY <1>6, <1>7 DEF KeptOf, Done
  <2>4. packed'[j] \in Nat /\ packed'[j] <= at'[j] - From(j)'
    BY <1>4, <1>6, <1>7, <2>1
  <2> QED
    BY <1>6, <2>2, <2>3, <2>4, NothingInOrder DEF PackedKnown, InOrder, ToSet
<1>10. ASSUME NEW d \in Slots \ {j} PROVE PackedKnown(d)'
  <2>1. KeptOf(d)' = KeptOf(d) /\ \A i \in Piece(d) : Get(i)' = Get(i)
    BY <1>4, <1>8 DEF KeptOf, Get
  <2>2. packed'[d] = packed[d] /\ PackedKnown(d)
    BY <1>1, <1>4 DEF FilterKnown
  <2> QED
    BY <1>1, <1>4, <1>6, <2>1, <2>2, PackedStays
<1>11. \A i \in kept' : \E d \in Slots : i \in Done(d)'
  <2> SUFFICES ASSUME NEW i \in kept PROVE \E d \in Slots : i \in Done(d)'
    BY <1>4
  <2>1. PICK d \in Slots : i \in Done(d)
    BY <1>1 DEF FilterKnown
  <2>2. d # j
    BY <1>3, <2>1 DEF Done
  <2> QED
    BY <1>8, <2>1, <2>2
<1>12. CopiedKnown'
  <2>1. pc \notin {"compact", "returned"}
    BY DEF Spawn
  <2> QED
    BY <1>1, <1>4, <2>1 DEF FilterKnown, CopiedKnown
<1>13. DOMAIN packed' = Slots
  BY <1>1, <1>4 DEF FilterKnown
<1> QED
  BY <1>1, <1>9, <1>10, <1>11, <1>12, <1>13 DEF FilterInv, FilterKnown

\* What a chunk's thread is at is its own, and not kept yet.
LEMMA NotYetKept ==
  ASSUME FilterInv, op = "filter", NEW c \in Slots, th[c] # "none", at[c] < To(c)
  PROVE  /\ at[c] \notin kept /\ at[c] \in Int
         /\ \A i \in Done(c) : i < at[c]
         /\ \A d \in Slots \ {c} : Piece(c) \cap Piece(d) = {} \/ th[d] = "none"
<1>1. ItemInv /\ FilterKnown /\ CallKnown /\ CallFits
  BY DEF FilterInv, ItemInv, RecordInv
<1>2. /\ c \in Nat /\ c < Chunks /\ start < end /\ From(c) \in Int /\ To(c) \in Int
      /\ at[c] \in Int /\ From(c) <= at[c]
  BY <1>1, StartedIsChunk DEF ItemInv, ItemKnown
<1>3. ASSUME NEW d \in Slots \ {c}, th[d] # "none" PROVE Piece(c) \cap Piece(d) = {}
  <2>1. d \in Nat /\ d < Chunks
    BY <1>1, <1>3, StartedIsChunk
  <2>2. CASE c < d
    BY <1>1, <1>2, <2>1, <2>2, PiecesApart
  <2>3. CASE d < c
    BY <1>1, <1>2, <2>1, <2>3, PiecesApart
  <2> QED
    BY <1>2, <2>1, <2>2, <2>3
<1>4. at[c] \in Piece(c)
  BY <1>2 DEF Piece
<1>5. \A i \in Done(c) : i < at[c]
  BY <1>2 DEF Done
<1>6. ASSUME at[c] \in kept PROVE FALSE
  <2>1. PICK d \in Slots : at[c] \in Done(d)
    BY <1>1, <1>6 DEF FilterKnown
  <2>2. at[c] \in Piece(d) /\ th[d] # "none"
    BY <1>1, <2>1, DoneInPiece DEF Done
  <2>3. d = c
    BY <1>3, <1>4, <2>2
  <2> QED
    BY <1>2, <1>5, <2>1, <2>3
<1> QED
  BY <1>2, <1>3, <1>5, <1>6

\* A chunk packs what it keeps behind what it has packed.
LEMMA PackKnown ==
  ASSUME FilterInv, op = "filter", NEW c \in Slots, th[c] # "none", at[c] < To(c),
         Pack(c, at[c]), at' = [at EXCEPT ![c] = at[c] + 1], UNCHANGED <<call, th>>
  PROVE  /\ PackedKnown(c)' /\ DOMAIN packed' = Slots
         /\ kept \subseteq kept' /\ kept' \subseteq kept \cup {at[c]}
<1>1. ItemInv /\ FilterKnown /\ PackedKnown(c) /\ DOMAIN packed = Slots
  BY DEF FilterInv, FilterKnown
<1>2. PICK i \in Int : i = at[c]
  BY NotYetKept
<1>3. PICK f \in Int : f = From(c)
  BY <1>1, StartedIsChunk
<1>4. From(c)' = f /\ at'[c] = i + 1 /\ th'[c] # "none" /\ f <= i
  BY <1>1, <1>2, <1>3, SamePieces DEF ItemInv, ItemKnown
<1>5. Done(c) = f .. i - 1 /\ Done(c)' = f .. i
  BY <1>2, <1>3, <1>4 DEF Done
<1>6. f .. i = (f .. i - 1) \cup {i} /\ i \notin kept /\ \A x \in KeptOf(c) : x < i
  BY <1>2, <1>3, <1>4, <1>5, NotYetKept DEF KeptOf
<1>7. PICK n \in Nat : n = packed[c] /\ n <= i - f
  BY <1>1, <1>2, <1>3 DEF PackedKnown
<1>8. CASE UNCHANGED <<out, packed, kept>>
  <2>1. KeptOf(c)' = KeptOf(c)
    BY <1>5, <1>6, <1>8 DEF KeptOf
  <2>2. Packed(c)' = Packed(c)
    BY <1>3, <1>4, <1>8 DEF Packed, Get
  <2>3. packed'[c] \in Nat /\ packed'[c] <= at'[c] - From(c)'
    BY <1>3, <1>4, <1>7, <1>8
  <2> QED
    BY <1>1, <1>2, <1>4, <1>8, <2>1, <2>2, <2>3 DEF PackedKnown, InOrder, ToSet
<1>9. CASE ~UNCHANGED <<out, packed, kept>>
  <2>1. /\ Put(f + n, <<i>>) /\ packed' = [packed EXCEPT ![c] = n + 1]
        /\ kept' = kept \cup {i}
    BY <1>2, <1>3, <1>7, <1>9 DEF Pack, PackAt
  <2>2. packed'[c] = n + 1 /\ DOMAIN packed' = Slots
    BY <1>1, <2>1
  <2>3. KeptOf(c)' = KeptOf(c) \cup {i}
    BY <1>5, <1>6, <2>1 DEF KeptOf
  <2>4. Get(f + n)' = <<i>> /\ \A j : j # f + n => Get(j)' = Get(j)
    BY <2>1, PutThenGet
  <2> DEFINE s == Packed(c)
             t == [j \in 1 .. n + 1 |-> IF j = n + 1 THEN i ELSE s[j]]
  <2>5. s \in Seq(Int) /\ InOrder(s, KeptOf(c)) /\ DOMAIN s = 1 .. n
    BY <1>1, <1>7 DEF PackedKnown, Packed
  <2>6. \A j \in 1 .. n : s[j] = Get(f + j - 1)[1]
    BY <1>3, <1>7 DEF Packed
  <2>7. Packed(c)' = [j \in 1 .. n + 1 |-> Get(f + j - 1)'[1]]
    BY <1>4, <2>2 DEF Packed, Get
  <2>8. ASSUME NEW j \in 1 .. n + 1
        PROVE  Get(f + j - 1)'[1] = IF j = n + 1 THEN i ELSE s[j]
    <3>1. CASE j = n + 1
      <4>1. f + j - 1 = f + n
        BY <3>1
      <4> QED
        BY <2>4, <3>1, <4>1
    <3>2. CASE j # n + 1
      <4>1. j \in 1 .. n /\ f + j - 1 # f + n
        BY <3>2
      <4> QED
        BY <2>4, <2>6, <3>2, <4>1
    <3> QED
      BY <3>1, <3>2
  <2>9. Packed(c)' = t
    BY <2>7, <2>8
  <2> HIDE DEF s
  <2>10. Len(s) = n
    BY <1>7, <2>5, LenProperties
  <2>11. Append(s, i) = t
    <3>1. /\ Append(s, i) \in Seq(Int) /\ Len(Append(s, i)) = n + 1
          /\ \A j \in 1 .. n : Append(s, i)[j] = s[j]
          /\ Append(s, i)[n + 1] = i
      BY <1>7, <2>5, <2>10, AppendProperties
    <3>2. DOMAIN Append(s, i) = 1 .. n + 1 /\ Append(s, i) = [j \in 1 .. n + 1 |-> Append(s, i)[j]]
      BY <3>1, LenProperties
    <3>3. \A j \in 1 .. n + 1 : j = n + 1 \/ j \in 1 .. n
      OBVIOUS
    <3> QED
      BY <3>1, <3>2, <3>3
  <2>12. Append(s, i) = s \o <<i>>
    BY <2>5, AppendIsConcat
  <2>13. s \o <<i>> \in Seq(Int) /\ InOrder(s \o <<i>>, KeptOf(c) \cup {i})
    <3>1. <<i>> \in Seq(Int) /\ InOrder(<<i>>, {i})
      BY InOrderOne
    <3>2. \A x \in KeptOf(c) : \A y \in {i} : x < y
      BY <1>6
    <3> QED
      BY <2>5, <3>1, <3>2, InOrderJoin
  <2>14. Packed(c)' = s \o <<i>>
    BY <2>9, <2>11, <2>12
  <2>15. packed'[c] \in Nat /\ packed'[c] <= at'[c] - From(c)'
    BY <1>3, <1>4, <1>7, <2>2
  <2>16. PackedKnown(c)'
    BY <1>4, <2>3, <2>13, <2>14, <2>15 DEF PackedKnown, InOrder, ToSet
  <2> QED
    BY <1>2, <2>1, <2>2, <2>16
<1> QED
  BY <1>8, <1>9

\* Threads run only while the caller starts and joins them.
LEMMA NobodyWorks ==
  ASSUME FilterInv, op = "filter", NEW c \in Slots, th[c] \in {"work", "done"}
  PROVE  pc \in {"spawn", "join"}
<1>1. ChunkKnown(c) /\ CallerKnown /\ c < Chunks
  BY AtHand, StartedIsChunk DEF FilterInv, ItemInv
<1>2. op \notin Inlines /\ op \notin Scans
  BY DEF Inlines, Scans
<1> QED
  BY <1>1, <1>2 DEF ChunkKnown, CallerKnown, Fresh, Given, Once

LEMMA WorkFilter ==
  ASSUME FilterInv, NEW c \in Slots, Work(c)
  PROVE  FilterInv'
<1> SUFFICES ASSUME op = "filter" PROVE FilterInv'
  BY ThreadItemInv DEF FilterInv, Work, call
<1>1. ItemInv /\ ItemInv' /\ FilterKnown
  BY ThreadItemInv DEF FilterInv
<1>2. /\ th[c] = "work" /\ at[c] < To(c) /\ Pack(c, at[c]) /\ UNCHANGED <<call, pc, k, th, acc, sum>>
      /\ at' = [at EXCEPT ![c] = at[c] + 1]
  BY DEF Work, Treat, Scans
<1>3. /\ PackedKnown(c)' /\ DOMAIN packed' = Slots
      /\ kept \subseteq kept' /\ kept' \subseteq kept \cup {at[c]}
  BY <1>2, PackKnown
<1>4. PICK i \in Int : i = at[c]
  BY <1>2, NotYetKept
<1>5. PICK f \in Int : f = From(c)
  BY <1>1, <1>2, StartedIsChunk
<1>6. /\ \A d \in Slots \ {c} : at'[d] = at[d]
      /\ at'[c] = i + 1 /\ From(c)' = f /\ f <= i
  BY <1>1, <1>2, <1>4, <1>5, SamePieces DEF ItemInv, ItemKnown
<1>7. /\ \A d \in Slots \ {c} : Done(d)' = Done(d)
      /\ Done(c) = f .. i - 1 /\ Done(c)' = f .. i
  BY <1>2, <1>4, <1>5, <1>6, SamePieces DEF Done
<1>8. i \in f .. i /\ f .. i - 1 \subseteq f .. i
  BY <1>6
<1>9. i \in Piece(c)
  BY <1>1, <1>2, <1>4, <1>5, <1>6, StartedIsChunk DEF Piece
<1>10. \A x \in kept' : \E d \in Slots : x \in Done(d)'
  <2> SUFFICES ASSUME NEW x \in kept' PROVE \E d \in Slots : x \in Done(d)'
    OBVIOUS
  <2>1. CASE x \in kept
    <3>1. PICK d \in Slots : x \in Done(d)
      BY <1>1, <2>1 DEF FilterKnown
    <3>2. x \in Done(d)'
      BY <1>7, <1>8, <3>1
    <3> QED
      BY <3>2
  <2>2. CASE x = i
    BY <1>7, <1>8, <2>2
  <2> QED
    BY <1>3, <1>4, <2>1, <2>2
<1>11. ASSUME NEW d \in Slots \ {c} PROVE PackedKnown(d)'
  <2>1. PackedKnown(d)
    BY <1>1 DEF FilterKnown
  <2>2. packed'[d] = packed[d]
    BY <1>1, <1>2 DEF Pack, FilterKnown
  <2>3. CASE th[d] = "none"
    <3>1. packed[d] = 0 /\ Done(d)' = {}
      BY <1>2, <2>1, <2>3 DEF PackedKnown, Done
    <3>2. Packed(d)' \in [1 .. 0 -> Int]
      BY <2>2, <3>1 DEF Packed
    <3>3. Packed(d)' = <<>> /\ KeptOf(d)' = {}
      BY <3>1, <3>2, NoPlaces DEF KeptOf
    <3> QED
      BY <1>2, <2>2, <2>3, <3>1, <3>3, NothingInOrder DEF PackedKnown, InOrder, ToSet
  <2>4. CASE th[d] # "none"
    <3>1. Piece(c) \cap Piece(d) = {}
      BY <1>2, <2>4, NotYetKept
    <3>2. KeptOf(d)' = KeptOf(d)
      <4>1. i \notin Done(d)
        BY <1>1, <1>9, <3>1, DoneInPiece
      <4> QED
        BY <1>3, <1>4, <1>7, <4>1 DEF KeptOf
    <3>3. ASSUME NEW j \in Piece(d) PROVE Get(j)' = Get(j)
      <4>1. CASE UNCHANGED out
        BY <4>1 DEF Get
      <4>2. CASE Put(PackAt(c), <<i>>)
        <5>1. PackAt(c) \in Piece(c)
          <6>1. packed[c] \in Nat /\ packed[c] <= i - f
            BY <1>1, <1>2, <1>4, <1>5 DEF FilterKnown, PackedKnown
          <6>2. i < To(c) /\ To(c) \in Int
            BY <1>1, <1>2, <1>4, StartedIsChunk
          <6>3. f + packed[c] \in f .. To(c) - 1
            BY <6>1, <6>2
          <6> QED
            BY <1>5, <6>3 DEF PackAt, Piece
        <5>2. j # PackAt(c)
          BY <3>1, <5>1
        <5> QED
          BY <4>2, <5>2, PutThenGet
      <4> QED
        BY <1>2, <1>4, <4>1, <4>2 DEF Pack
    <3> QED
      BY <1>1, <1>2, <1>6, <2>1, <2>2, <3>2, <3>3, PackedStays
  <2> QED
    BY <2>3, <2>4
<1>12. CopiedKnown'
  BY <1>1, <1>2, NobodyWorks DEF FilterKnown, CopiedKnown
<1> QED
  BY <1>1, <1>3, <1>10, <1>11, <1>12 DEF FilterInv, FilterKnown

LEMMA EndFilter ==
  ASSUME FilterInv, NEW c \in Slots, SetDone(c) \/ End(c)
  PROVE  FilterInv'
<1>1. ItemInv' /\ RecordInv
  BY ThreadItemInv DEF FilterInv, ItemInv
<1>2. /\ UNCHANGED <<call, pc, k, at, data>> /\ th[c] \in {"work", "done"}
      /\ \E s \in {"done", "gone"} : th' = [th EXCEPT ![c] = s]
  BY DEF SetDone, End
<1>3. \A d \in Slots : th'[d] = "none" <=> th[d] = "none"
  BY <1>1, <1>2 DEF RecordInv, RecordsTyped
<1>4. op = "filter" => CopiedKnown'
  BY <1>2, NobodyWorks DEF FilterInv, FilterKnown, CopiedKnown, data
<1> QED
  BY <1>1, <1>2, <1>3, <1>4, FilterStays DEF data

\* What a filter's chunks kept is copied piece by piece.
LEMMA CompactFilter == FilterInv /\ Compact => FilterInv'
<1> SUFFICES ASSUME FilterInv, Compact PROVE FilterInv'
  OBVIOUS
<1>1. ItemInv /\ ItemInv' /\ RecordInv /\ CallFits /\ CallKnown /\ CallerKnown
  BY CallerItemInv DEF FilterInv, ItemInv, RecordInv
<1>2. UNCHANGED <<call, at, packed, out, kept, th, pc>>
  BY DEF Compact
<1>3. ASSUME op = "filter" PROVE CopiedKnown'
  <2>1. FilterKnown /\ CopiedKnown /\ pc = "compact" /\ start < end
    BY <1>1, <1>3 DEF FilterInv, FilterKnown, Compact, CallerKnown
  <2>2. PICK j \in Slots : j = k
    BY <1>1, AtHand DEF Compact
  <2>3. j \in Nat /\ j < Chunks /\ Chunks \in Int /\ k' = j + 1 /\ sum' = sum \o Packed(j)
    BY <1>1, <2>2, AtHand DEF Compact
  <2>4. /\ Base(j) \in Int /\ start <= Base(j) /\ Base(j) <= To(j)
        /\ (From(j) < To(j) => Base(j) = From(j)) /\ (~(From(j) < To(j)) => Base(j) = To(j))
    BY <1>1, <2>1, <2>3, PiecesFollow
  <2>5. Base(j + 1) = To(j) /\ From(j) \in Int /\ To(j) \in Int
    BY <1>1, <2>1, <2>3, PiecesInside DEF Base
  <2>6. Base(k)' = To(j) /\ Chunks' = Chunks
    <3>1. Base(k)' = Base(j + 1) /\ Chunks' = Chunks
      BY <1>2, <2>3, PlaceAfter
    <3> QED
      BY <2>5, <3>1
  <2>7. sum \in Seq(Int) /\ InOrder(sum, {i \in kept : i < Base(j)})
    BY <2>1, <2>2 DEF CopiedKnown
  <2>8. Packed(j) \in Seq(Int) /\ InOrder(Packed(j), KeptOf(j))
    BY <2>1 DEF FilterKnown, PackedKnown
  <2>9. \A i \in KeptOf(j) : i \in Int /\ From(j) <= i /\ i < To(j)
    BY <1>1, <2>5, DoneInPiece DEF KeptOf, Piece
  <2>10. ASSUME NEW i \in kept, ~(i < Base(j)), i < To(j) PROVE i \in KeptOf(j)
    <3>1. PICK c \in Slots : i \in Done(c)
      BY <2>1 DEF FilterKnown
    <3>2. i \in Piece(c) /\ i \in Int /\ th[c] # "none"
      BY <1>1, <3>1, DoneInPiece DEF Done, CallKnown
    <3>3. c \in Nat /\ c < Chunks
      BY <1>1, <3>2, StartedIsChunk
    <3>4. i \in Piece(j)
      BY <2>4, <2>5, <2>10, <3>2 DEF Piece
    <3>5. c = j
      <4>1. CASE c < j
        BY <1>1, <2>1, <2>3, <3>2, <3>3, <3>4, <4>1, PiecesApart
      <4>2. CASE j < c
        BY <1>1, <2>1, <2>3, <3>2, <3>3, <3>4, <4>2, PiecesApart
      <4> QED
        BY <2>3, <3>3, <4>1, <4>2
    <3> QED
      BY <3>1, <3>5 DEF KeptOf
  <2>11. \A i \in kept : i \in Int
    BY <1>1, <2>1, DoneInPiece DEF FilterKnown, CallKnown
  <2> DEFINE K == {i \in kept : i < Base(j)}
             L == KeptOf(j)
             M == {i \in kept : i < To(j)}
  <2>12. M = K \cup L
    <3>1. \A i \in K : i < To(j)
      BY <2>4, <2>5, <2>11
    <3>2. \A i \in L : i \in kept
      BY DEF KeptOf
    <3> QED
      BY <2>9, <2>10, <3>1, <3>2
  <2>13. \A x \in K : \A y \in L : x < y
    <3> SUFFICES ASSUME NEW x \in K, NEW y \in L PROVE x < y
      OBVIOUS
    <3>1. x \in Int /\ x < Base(j) /\ y \in Int /\ From(j) <= y /\ y < To(j)
      BY <2>9, <2>11
    <3> QED
      BY <2>4, <2>5, <3>1
  <2> HIDE DEF K, L, M
  <2>14. sum \o Packed(j) \in Seq(Int) /\ InOrder(sum \o Packed(j), M)
    <3>1. InOrder(sum, K) /\ InOrder(Packed(j), L)
      BY <2>7, <2>8 DEF K, L
    <3> QED
      BY <2>7, <2>8, <2>12, <2>13, <3>1, InOrderJoin
  <2>15. InOrder(sum, {i \in kept : i < Base(k)})'
    <3>1. {i \in kept' : i < Base(k)'} = M
      BY <1>2, <2>6 DEF M
    <3> QED
      BY <2>3, <2>14, <3>1 DEF InOrder, ToSet
  <2> QED
    BY <1>2, <2>1, <2>3, <2>6, <2>14, <2>15 DEF CopiedKnown
<1> QED
  BY <1>1, <1>2, <1>3, FilterStays

LEMMA ReturnFilter == FilterInv /\ Return => FilterInv'
<1> SUFFICES ASSUME FilterInv, Return PROVE FilterInv'
  OBVIOUS
<1>1. ItemInv /\ ItemInv' /\ RecordInv /\ CallFits /\ CallKnown /\ CallerKnown
  BY LastItemInv DEF FilterInv, ItemInv, RecordInv
<1>2. UNCHANGED <<call, at, packed, out, kept, th, sum>> /\ pc' = "returned"
  BY DEF Return, data
<1>3. ASSUME op = "filter" PROVE CopiedKnown'
  <2>1. FilterKnown /\ CopiedKnown /\ pc = "compact" /\ start < end
    BY <1>1, <1>3 DEF FilterInv, FilterKnown, Return, CallerKnown, Scans
  <2>2. k = Chunks
    BY <1>1, <2>1, AtHand DEF CopiedKnown, Return
  <2>3. Base(k) = end
    BY <1>1, <2>1, <2>2, LastPiece
  <2>4. \A i \in kept : i < end
    <3> SUFFICES ASSUME NEW i \in kept PROVE i < end
      OBVIOUS
    <3>1. i \in start .. end - 1
      BY <1>1, <2>1, DoneInPiece DEF FilterKnown
    <3> QED
      BY <1>1, <3>1 DEF CallKnown
  <2>5. InOrder(sum, kept)
    <3>1. {i \in kept : i < Base(k)} = kept
      BY <2>3, <2>4
    <3> QED
      BY <2>1, <3>1 DEF CopiedKnown
  <2> QED
    BY <1>2, <2>1, <2>5 DEF CopiedKnown, InOrder, ToSet
<1> QED
  BY <1>1, <1>2, <1>3, FilterStays

LEMMA NextFilterInv == FilterInv /\ [Next]_vars => FilterInv'
<1> SUFFICES ASSUME FilterInv, [Next]_vars PROVE FilterInv'
  OBVIOUS
<1>1. CASE Begin \/ Spawn \/ JoinsEnd \/ Compact \/ Return
  BY <1>1, BeginFilter, SpawnFilter, JoinsEndFilter, CompactFilter, ReturnFilter
<1>2. CASE SpawnsEnd \/ Join \/ OffsetsEnd \/ Rejoin \/ Terminated \/ UNCHANGED vars
  BY <1>2, IdleFilter
<1>3. CASE Inline \/ SpawnOffset
  <2>1. ItemInv' /\ CallerKnown /\ op' = op
    BY <1>3, InlineItemInv, SpawnOffsetItemInv
       DEF FilterInv, ItemInv, RecordInv, Inline, SpawnOffset, call
  <2>2. op # "filter"
    BY <1>3, <2>1 DEF Inline, SpawnOffset, CallerKnown, Inlines, Scans
  <2> QED
    BY <2>1, <2>2 DEF FilterInv
<1>4. CASE \E c \in Slots : Work(c) \/ SetDone(c) \/ End(c)
  BY <1>4, WorkFilter, EndFilter
<1> QED
  BY <1>1, <1>2, <1>3, <1>4 DEF Next

LEMMA FilterIsExpected == FilterInv /\ op = "filter" => SameAsSequential
BY DEF FilterInv, FilterKnown, CopiedKnown, SameAsSequential, Finished, Expected, Scans

-----------------------------------------------------------------------------
\* Provided that no chunk reaches beyond INT64_MAX: for any range, slice, number of
\* processors and limit of chunks, and in whatever order the threads get there, what
\* __maka_par_map, __maka_par_filter, __maka_par_scan and the others leave in the
\* output, and what __maka_par_reduce and its like return when they are seeded with an
\* identity of combine, is what a loop over the items computes, unless a chunk found
\* no thread or map_int refused the call.
THEOREM DataParallelSameAsSequential ==
  ASSUME Representable
  PROVE  Spec => [](Claimed => SameAsSequential)
<1>1. Init => ResultInv /\ FilterInv
  BY InitResultInv, InitFilterInv
<1>2. ResultInv /\ [Next]_vars => ResultInv'
  BY NextResultInv
<1>3. FilterInv /\ [Next]_vars => FilterInv'
  BY NextFilterInv
<1>4. ResultInv /\ FilterInv => (Claimed => SameAsSequential)
  BY ResultIsExpected, FilterIsExpected
<1> QED
  BY <1>1, <1>2, <1>3, <1>4, PTL DEF Spec
=============================================================================
