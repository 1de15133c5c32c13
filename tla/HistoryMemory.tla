---------------------------- MODULE HistoryMemory ---------------------------
(***************************************************************************)
(* The memory behind Store's history.  store.go keeps the points of a      *)
(* volume in a slice: an array, where the slice starts in it, and how long *)
(* it is.  Put appends in place while the array has room, and trims by     *)
(* moving the start.  Query copies the slices under the lock, not the      *)
(* points, and reads the points after the lock is released, while Put may  *)
(* run: both then look at the same arrays.                                 *)
(*                                                                         *)
(* memory[k] is the sequence of all arrays that were ever made for volume  *)
(* k.  The garbage collector frees only what no slice refers to, so it     *)
(* does not appear here.  A cell that was never written holds 0.           *)
(***************************************************************************)
EXTENDS Store

CONSTANT Rooms      \* cells that append may leave free in an array it makes

ASSUME MemoryAssumption == Rooms \subseteq Nat

VARIABLES
    memory,     \* memory[k][n]: the cells of the n-th array made for k
    slice,      \* slice[k]: history[k] as the code has it
    query       \* the Query that has released the lock and not yet answered

memoryVars == <<memory, slice>>

Slice(array, start, len) == [array |-> array, start |-> start, len |-> len]

NilSlice == Slice(0, 0, 0)

NoQuery == [active |-> FALSE]

MemoryInit ==
    /\ Init
    /\ memory = [k \in Keys |-> <<>>]
    /\ slice = [k \in Keys |-> NilSlice]
    /\ query = NoQuery

\* The points of slice s of volume k.
Points(k, s) == [i \in 1 .. s.len |-> memory[k][s.array][s.start + i]]

HasRoom(k, s) == s.array # 0 /\ s.start + s.len < Len(memory[k][s.array])

-----------------------------------------------------------------------------
(***************************************************************************)
(* What Put does to the arrays and the slice of one volume.                *)
(***************************************************************************)
\* append(s.history[key], ...): in place, or into a new array.
Appended(k, s, now, room) ==
    IF HasRoom(k, s)
    THEN [arrays |-> [memory[k] EXCEPT ![s.array][s.start + s.len + 1] = now],
          slice  |-> Slice(s.array, s.start, s.len + 1)]
    ELSE [arrays |-> Append(memory[k],
                            Points(k, s) \o <<now>> \o [i \in 1 .. room |-> 0]),
          slice  |-> Slice(Len(memory[k]) + 1, 0, s.len + 1)]

\* Mutants of Trimmed: the points move to the front of the array, which keeps
\* the array from growing, and the old end of the slice is kept.
TrimmedByMoving(m) ==
    LET s    == m.slice
        over == s.len - HistoryDepth
    IN  IF over <= 0 THEN m
        ELSE [arrays |-> [m.arrays EXCEPT ![s.array] =
                            [i \in DOMAIN @ |->
                                IF i - s.start \in 1 .. HistoryDepth THEN @[i + over] ELSE @[i]]],
              slice  |-> [s EXCEPT !.len = HistoryDepth]]

TrimmedAtTheEnd(m) ==
    IF m.slice.len > HistoryDepth THEN [m EXCEPT !.slice.len = HistoryDepth] ELSE m

\* pts[len(pts)-historyDepth:].
Trimmed(m) ==
    LET over == m.slice.len - HistoryDepth
    IN  IF m.slice.len <= HistoryDepth THEN m
        ELSE [m EXCEPT !.slice.start = @ + over, !.slice.len = HistoryDepth]

\* The arrays and the slice of a volume that the snapshot lists as s.
Stored(k, s, now, room) ==
    CASE s = "reporting" -> Trimmed(Appended(k, slice[k], now, room))
      [] s = "silent"    -> [arrays |-> memory[k], slice |-> slice[k]]
      [] s = "absent"    -> [arrays |-> memory[k], slice |-> NilSlice]

\* Put, under the lock.
PutInMemory(found, room) ==
    /\ PutLocked(found)
    /\ memory' = [k \in Keys |-> Stored(k, found[k], generatedAt', room).arrays]
    /\ slice' = [k \in Keys |-> Stored(k, found[k], generatedAt', room).slice]
    /\ UNCHANGED query

-----------------------------------------------------------------------------
(***************************************************************************)
(* Query.  Another one may run at the same time; it changes nothing either.*)
(***************************************************************************)
\* Under the read lock: the snapshot, and the slice of every volume.  The
\* points they hold at that moment are kept for the properties.
BeginQuery ==
    /\ ~query.active
    /\ query' = [active |-> TRUE, at |-> generatedAt, volumes |-> volumes,
                 slices |-> slice, points |-> history]
    /\ UNCHANGED <<vars, memoryVars>>

\* All rows are decorated.  Until then any row may be next.
EndQuery ==
    /\ query.active
    /\ query' = NoQuery
    /\ UNCHANGED <<vars, memoryVars>>

MemoryNext ==
    /\ ~crashed
    /\ \/ \E found \in Scrapes, room \in Rooms : PutInMemory(found, room)
       \/ BeginQuery
       \/ EndQuery
       \/ /\ \E c \in Clients : Send(c) \/ HangUp(c) \/ Handler(c)
          /\ UNCHANGED <<memoryVars, query>>

MemorySafeSpec == MemoryInit /\ [][MemoryNext]_<<vars, memoryVars, query>>

-----------------------------------------------------------------------------
(***************************************************************************)
(* The slices are the history: appending in place, growing and trimming    *)
(* come to the same as the sequences of Store, which is also what History  *)
(* copies for the drawer.                                                  *)
(***************************************************************************)
SlicesHoldHistory == \A k \in Keys : Points(k, slice[k]) = history[k]

(***************************************************************************)
(* A query that works without the lock sees the points as they were when   *)
(* it took its slices (store.go:167), however many collections end before  *)
(* it answers: Put writes only beyond the end of every slice that was ever *)
(* handed out, and the points agree with the snapshot of the query, whose  *)
(* reading is the last of them.                                            *)
(***************************************************************************)
QueryReadsItsMoment ==
    query.active =>
        \A k \in Keys :
            LET pts == Points(k, query.slices[k])
            IN  /\ pts = query.points[k]
                /\ query.volumes[k] = "reporting" => pts[Len(pts)] = query.at
                /\ query.volumes[k] = "absent" => pts = <<>>
=============================================================================
