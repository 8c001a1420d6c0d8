---------------------------- MODULE DataParallel ----------------------------
(***************************************************************************)
(* The data-parallel helpers: a range, or a slice, is cut into at most 16  *)
(* chunks, each chunk is worked on by a thread of its own, and the caller  *)
(* joins the threads in order and merges what they found.                  *)
(*                                                                         *)
(*   for_range, map_int, reduce_int   over the integers start .. end - 1   *)
(*   for_each, map, reduce, filter, scan   over a slice of ints or floats, *)
(*                                    and map and filter over opaque items *)
(*   scan_bytes                       over opaque items                    *)
(*                                                                         *)
(* An item is its index.  What the caller's functions compute is kept as   *)
(* the sequence of the items it was computed from: f(i) is <<i>>, and      *)
(* combine concatenates, so it is associative and nothing else.            *)
(*                                                                         *)
(* Every thread has a record of its chunk and a Thread handle, which the   *)
(* caller and the thread hold a reference to.                              *)
(***************************************************************************)
EXTENDS Integers, Sequences, FiniteSets, SequencesExt

CONSTANTS
  Ops,            \* the helpers that are called
  Starts, Lens,   \* where ranges start, and how long ranges and slices are
  Cores,          \* what sysconf may answer
  Limit,          \* the most chunks: 16
  IntMax,            \* INT64_MAX
  Neutral,        \* TRUE: the value the chunks are seeded with is an identity of combine
  Representable,  \* TRUE: no chunk reaches beyond IntMax
  InitValue, Zero, Garbage   \* init, what calloc leaves, and what nobody has written

RangeOps == {"for_range", "map_int", "reduce_int"}
SliceOps == {"for_each", "map", "reduce", "filter", "scan", "scan_bytes"}

ASSUME OpsAssumption == Ops \subseteq RangeOps \cup SliceOps
ASSUME LimitAssumption == Limit \in Nat \ {0} /\ IntMax \in Nat
ASSUME RangesAssumption == Starts \subseteq -(IntMax + 1) .. IntMax /\ Lens \subseteq Nat /\ Cores \subseteq Int
ASSUME DisciplineAssumption == {Neutral, Representable} \subseteq BOOLEAN

VARIABLES
  op, start, end,   \* the call
  cores,
  pc, k,     \* where the caller is, and the chunk its loop is at
  th,        \* each chunk's thread
  at,        \* the item the chunk's loop is at
  acc,       \* partial, out_acc, and in a scan's second pass the chunk's init
  packed,    \* out_len: how many items a filter's chunk kept
  out,       \* the output buffer, or a filter's temporary one
  kept,      \* the items the filter's predicate holds of
  sum,       \* the caller's accumulator, or the output of a filter
  refs,      \* references to each chunk's Thread handle
  freed,     \* how often each chunk's record was freed
  lost       \* history: chunks that found no thread, and are not done by the caller

call == <<op, start, end, cores>>
data == <<acc, packed, out, kept, sum>>
vars == <<call, pc, k, th, at, data, refs, freed, lost>>

Slots == 0 .. Limit - 1

-----------------------------------------------------------------------------
(***************************************************************************)
(* The arithmetic of the chunks, in a machine's integers.                  *)
(***************************************************************************)
Wrap(x) == ((x + IntMax + 1) % (2 * (IntMax + 1))) - (IntMax + 1)

Procs == IF cores < 1 THEN 1 ELSE IF cores > Limit THEN Limit ELSE cores
Total == Wrap(end - start)
Chunks == IF Procs > Total THEN Total ELSE Procs

Quotient(a, b) == IF a >= 0 THEN a \div b ELSE -((-a) \div b)
RoundedDown == Quotient(Total, Chunks)
Per == Quotient(Wrap(Total + Chunks - 1), Chunks)

From(c) == Wrap(start + Wrap(c * Per))
UpTo(c) == Wrap(From(c) + Per)
To(c) == IF UpTo(c) > end THEN end ELSE UpTo(c)

\* What the arithmetic above takes for granted.
Fits == /\ end - start + Procs - 1 <= IntMax
        /\ end + Procs - 1 <= IntMax

\* The buffer of map_int would be larger than size_t can say.
TooLong == Total < 0 \/ 8 * Total > 2 * IntMax + 1
Refused == op = "map_int" /\ TooLong

-----------------------------------------------------------------------------
Init ==
  /\ op \in Ops
  /\ start \in IF op \in RangeOps THEN Starts ELSE {0}
  /\ end \in {start + n : n \in Lens} \cap (-(IntMax + 1) .. IntMax)
  /\ cores \in Cores
  /\ Representable => Fits
  /\ pc = "call" /\ k = 0
  /\ th = [c \in Slots |-> "none"]
  /\ at = [c \in Slots |-> 0]
  /\ acc = [c \in Slots |-> <<>>]
  /\ packed = [c \in Slots |-> 0]
  /\ out = <<>> /\ kept = {} /\ sum = <<>>
  /\ refs = [c \in Slots |-> 0]
  /\ freed = [c \in Slots |-> 0]
  /\ lost = {}

Get(i) == IF i \in DOMAIN out THEN out[i] ELSE <<Garbage>>
Put(i, v) == out' = [j \in {i} \cup DOMAIN out |-> IF j = i THEN v ELSE out[j]]

\* What a chunk's fold starts from: reduce_int starts from 0, reduce from init.
Seed == CASE op = "reduce_int" -> IF Neutral THEN <<>> ELSE <<Zero>>
          [] op = "reduce"     -> IF Neutral THEN <<>> ELSE <<InitValue>>
          [] OTHER             -> <<>>
\* What the chunk's record holds when no thread folds anything.
Unfolded == IF op = "reduce_int" /\ Neutral THEN <<>> ELSE <<Zero>>

Begin ==
  /\ pc = "call"
  /\ pc' = IF start >= end \/ Refused THEN "returned" ELSE "spawn"
  /\ sum' = IF op = "reduce_int" THEN <<InitValue>> ELSE IF start >= end THEN Seed ELSE <<>>
  /\ UNCHANGED <<call, k, th, at, acc, packed, out, kept, refs, freed, lost>>

-----------------------------------------------------------------------------
(***************************************************************************)
(* The threads of the chunks.                                              *)
(***************************************************************************)
Scans == {"scan", "scan_bytes"}

Fold(c, i) == acc' = [acc EXCEPT ![c] = Append(@, i)]

\* A filter's chunk writes what it keeps from its own start on.
PackAt(c) == From(c) + packed[c]

Pack(c, i) ==
  \/ /\ Put(PackAt(c), <<i>>)
     /\ packed' = [packed EXCEPT ![c] = @ + 1]
     /\ kept' = kept \cup {i}
  \/ UNCHANGED <<out, packed, kept>>

\* A scan's first pass leaves the prefixes of the chunk in out, the second puts
\* in front of each what the chunks before it came to.
Scan(c, i) ==
  IF pc \in {"spawn", "join"}
  THEN Fold(c, i) /\ Put(i, Append(acc[c], i))
  ELSE Put(i, acc[c] \o Get(i)) /\ UNCHANGED acc

Treat(c, i) ==
  /\ \/ op \in {"for_range", "for_each"} /\ UNCHANGED data
     \/ op \in {"map_int", "map"} /\ Put(i, <<i>>) /\ UNCHANGED <<acc, packed, kept, sum>>
     \/ op \in {"reduce_int", "reduce"} /\ Fold(c, i) /\ UNCHANGED <<packed, out, kept, sum>>
     \/ op = "filter" /\ Pack(c, i) /\ UNCHANGED <<acc, sum>>
     \/ op \in Scans /\ Scan(c, i) /\ UNCHANGED <<packed, kept, sum>>
  /\ at' = [at EXCEPT ![c] = i + 1]

Work(c) ==
  /\ th[c] = "work"
  /\ at[c] < To(c)
  /\ Treat(c, at[c])
  /\ UNCHANGED <<call, pc, k, th, refs, freed, lost>>

\* done_flag is set; the handle is still read from the chunk's record afterwards.
SetDone(c) ==
  /\ th[c] = "work"
  /\ at[c] >= To(c)
  /\ th' = [th EXCEPT ![c] = "done"]
  /\ UNCHANGED <<call, pc, k, at, data, refs, freed, lost>>

FreedByThread == {"for_range", "map_int", "for_each", "map"}

FreeRecord(c) == freed' = [freed EXCEPT ![c] = @ + 1]
Unref(c) == refs' = [refs EXCEPT ![c] = @ - 1]

End(c) ==
  /\ th[c] = "done"
  /\ th' = [th EXCEPT ![c] = "gone"]
  /\ Unref(c)
  /\ IF op \in FreedByThread THEN FreeRecord(c) ELSE UNCHANGED freed
  /\ UNCHANGED <<call, pc, k, at, data, lost>>

-----------------------------------------------------------------------------
(***************************************************************************)
(* The caller.                                                             *)
(***************************************************************************)
Inlines == {"for_range", "map_int"}

\* pthread_create may fail; two of the helpers then do the chunk themselves.
RunsInline == op \in Inlines

Started(c, result) ==
  /\ th' = [th EXCEPT ![c] = IF result THEN "work" ELSE "failed"]
  /\ refs' = [refs EXCEPT ![c] = IF result THEN 2 ELSE 1]
  /\ at' = [at EXCEPT ![c] = From(c)]
  /\ lost' = IF result \/ RunsInline THEN lost ELSE lost \cup {c}

Spawn ==
  /\ pc = "spawn" /\ k < Chunks
  /\ \E result \in BOOLEAN :
       /\ Started(k, result)
       /\ acc' = [acc EXCEPT ![k] = IF result /\ (op \in Scans => From(k) < To(k))
                                    THEN Seed ELSE Unfolded]
       /\ IF ~result /\ RunsInline
          THEN pc' = "inline" /\ UNCHANGED k
          ELSE k' = k + 1 /\ UNCHANGED pc
  /\ UNCHANGED <<call, packed, out, kept, sum, freed>>

Inline ==
  /\ pc = "inline"
  /\ IF at[k] < To(k)
     THEN Treat(k, at[k]) /\ UNCHANGED <<pc, k>>
     ELSE pc' = "spawn" /\ k' = k + 1 /\ UNCHANGED <<at, data>>
  /\ UNCHANGED <<call, th, refs, freed, lost>>

SpawnsEnd ==
  /\ pc = "spawn" /\ k >= Chunks
  /\ pc' = "join" /\ k' = 0
  /\ UNCHANGED <<call, th, at, data, refs, freed, lost>>

\* pthread_join, for a thread there is.
JoinedWhenDone(c) == th[c] \in {"done", "gone", "failed"}
Joined(c) == th[c] \in {"gone", "failed"}

\* How the caller goes on with what a joined chunk left.
FirstReplaces == op \in {"reduce", "scan"} /\ k = 0
Merged == IF FirstReplaces THEN acc[k]
          ELSE IF op \in {"reduce_int", "reduce"} THEN sum \o acc[k]
          ELSE sum

Join ==
  /\ pc = "join" /\ k < Chunks
  /\ Joined(k)
  /\ sum' = Merged
  /\ IF op = "filter" THEN UNCHANGED refs ELSE Unref(k)
  /\ IF op \in {"reduce_int", "reduce"} \/ (op \in Inlines /\ th[k] = "failed")
     THEN FreeRecord(k)
     ELSE UNCHANGED freed
  /\ k' = k + 1
  /\ UNCHANGED <<call, pc, th, at, acc, packed, out, kept, lost>>

JoinsEnd ==
  /\ pc = "join" /\ k >= Chunks
  /\ pc' = CASE op = "filter" -> "compact" [] op \in Scans -> "offsets" [] OTHER -> "returned"
  /\ k' = IF op \in Scans THEN 1 ELSE 0
  /\ sum' = IF op = "scan_bytes" THEN Get(To(0) - 1) ELSE sum
  /\ UNCHANGED <<call, th, at, acc, packed, out, kept, refs, freed, lost>>

\* A filter copies what its chunks kept next to each other: a packed value is one item.
Packed(c) == [j \in 1 .. packed[c] |-> Get(From(c) + j - 1)[1]]

Compact ==
  /\ pc = "compact" /\ k < Chunks
  /\ sum' = sum \o Packed(k)
  /\ Unref(k) /\ FreeRecord(k)
  /\ k' = k + 1
  /\ UNCHANGED <<call, pc, th, at, acc, packed, out, kept, lost>>

\* A scan's second pass.  scan_bytes reads a chunk's last value out of the buffer
\* that the threads started before may be at.
LastOf(c) == IF op = "scan" THEN acc[c] ELSE Get(To(c) - 1)
OffsetTooLate == sum \o LastOf(k)
Offset == sum

SpawnOffset ==
  /\ pc = "offsets" /\ k < Chunks
  /\ \E result \in BOOLEAN : Started(k, result)
  /\ acc' = [acc EXCEPT ![k] = Offset]
  /\ sum' = sum \o LastOf(k)
  /\ k' = k + 1
  /\ UNCHANGED <<call, pc, packed, out, kept, freed>>

OffsetsEnd ==
  /\ pc = "offsets" /\ k >= Chunks
  /\ pc' = "rejoin" /\ k' = 1
  /\ UNCHANGED <<call, th, at, data, refs, freed, lost>>

Rejoin ==
  /\ pc = "rejoin" /\ k < Chunks
  /\ Joined(k)
  /\ Unref(k) /\ FreeRecord(k)
  /\ k' = k + 1
  /\ UNCHANGED <<call, pc, th, at, data, lost>>

Return ==
  /\ pc \in {"compact", "rejoin"} /\ k >= Chunks
  /\ pc' = "returned"
  /\ IF pc = "rejoin" THEN FreeRecord(0) ELSE UNCHANGED freed
  /\ UNCHANGED <<call, k, th, at, data, refs, lost>>

Over == pc = "returned" /\ \A c \in Slots : th[c] \in {"none", "gone", "failed"}
Terminated == Over /\ UNCHANGED vars

Next ==
  \/ Begin \/ Spawn \/ Inline \/ SpawnsEnd \/ Join \/ JoinsEnd \/ Compact
  \/ SpawnOffset \/ OffsetsEnd \/ Rejoin \/ Return
  \/ \E c \in Slots : Work(c) \/ SetDone(c) \/ End(c)
  \/ Terminated

Spec == Init /\ [][Next]_vars

-----------------------------------------------------------------------------
(***************************************************************************)
(* Properties.                                                             *)
(***************************************************************************)
\* The items a chunk has done.
Done(c) == IF th[c] = "none" THEN {} ELSE From(c) .. at[c] - 1
DoneBy(i) == {c \in Slots : i \in Done(c)}

\* The helper has done what it was called for, as far as it is in its hand.
Finished == pc = "returned" /\ lost = {} /\ ~Refused

\* However the range is cut, and whichever threads could be had, no item is done
\* by two chunks and nothing outside the range by any; when the helper returns
\* every item was done, unless its chunk was lost or map_int refused the call.
EachItemOnce ==
  /\ \A c \in Slots : Done(c) \subseteq start .. end - 1
  /\ \A i \in start .. end - 1 : Cardinality(DoneBy(i)) <= 1
  /\ Finished => \A i \in start .. end - 1 : DoneBy(i) # {}

\* What a loop over the items would compute.
Items == [j \in 1 .. end - start |-> start + j - 1]
Upto(i) == SubSeq(Items, 1, i - start + 1)
\* The items of K, each once, in the order of the loop.
InOrder(s, K) == ToSet(s) = K /\ \A a, b \in DOMAIN s : a < b => s[a] < s[b]
Expected ==
  CASE op \in {"map_int", "map"} -> \A i \in start .. end - 1 : Get(i) = <<i>>
    [] op \in Scans      -> \A i \in start .. end - 1 : Get(i) = Upto(i)
    [] op = "reduce_int" -> sum = <<InitValue>> \o Items
    [] op = "reduce"     -> sum = (IF Neutral THEN <<>> ELSE <<InitValue>>) \o Items
    [] op = "filter"     -> InOrder(sum, kept)
    [] OTHER             -> TRUE

\* Map, reduce, filter and both scans return what a loop over the items would,
\* for any associative combine, any number of processors and any order in which
\* the threads get there, unless a chunk was lost or map_int refused the call.
SameAsSequential == Finished => Expected

\* A thread that is at work finds its chunk's record and its handle; when the
\* helper has returned no thread still runs the caller's function, and every
\* record and handle was given up exactly once, but for the records of chunks
\* that for_each and map lost.
RecordsKept ==
  /\ \A c \in Slots : th[c] \in {"work", "done"} => freed[c] = 0 /\ refs[c] > 0
  /\ pc = "returned" =>
       \A c \in Slots :
         /\ th[c] \in {"none", "gone", "failed"}
         /\ refs[c] = 0
         /\ freed[c] = IF th[c] = "none" \/ (c \in lost /\ op \in {"for_each", "map"}) THEN 0 ELSE 1
=============================================================================
