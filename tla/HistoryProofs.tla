---------------------------- MODULE HistoryProofs ---------------------------
(***************************************************************************)
(* Proofs about HistoryMemory: the slices hold the history, and a query    *)
(* that reads its slices without the lock sees no write of a later Put,    *)
(* for any depth and however much room append leaves in an array.  And     *)
(* about HistoryLog: the history is the latest readings.                   *)
(***************************************************************************)
EXTENDS HistoryMemory, HistoryLog, StoreProofs, FiniteSetTheorems

(***************************************************************************)
(* What is proved of Store holds here: only the memory is new.             *)
(***************************************************************************)
LEMMA MemoryStep == MemoryNext => [Next]_vars
<1> SUFFICES ASSUME MemoryNext PROVE [Next]_vars
  OBVIOUS
<1>1. CASE BeginQuery \/ EndQuery
  BY <1>1 DEF BeginQuery, EndQuery
<1>2. ASSUME NEW found \in Scrapes, NEW room \in Rooms, PutInMemory(found, room) PROVE Next
  BY <1>2 DEF MemoryNext, PutInMemory, Next
<1>3. ASSUME NEW c \in Clients, Send(c) \/ HangUp(c) \/ Handler(c) PROVE Next
  BY <1>3 DEF MemoryNext, Next
<1>4. QED
  BY <1>1, <1>2, <1>3 DEF MemoryNext

LEMMA MemoryUsesStore == MemorySafeSpec => SafeSpec
<1>1. [MemoryNext]_<<vars, memoryVars, query>> => [Next]_vars
  BY MemoryStep
<1>2. QED
  BY <1>1, PTL DEF MemorySafeSpec, MemoryInit, SafeSpec

-----------------------------------------------------------------------------
(***************************************************************************)
(* One slice of the arrays of one volume: it lies within its array, and    *)
(* its cells are the points pts.                                           *)
(***************************************************************************)
Slices == [array : Nat, start : Nat, len : Nat]

Fits(arrays, s) ==
    /\ s \in Slices
    /\ s.array = 0 => s.len = 0
    /\ s.array # 0 => /\ s.array \in 1 .. Len(arrays)
                     /\ s.start + s.len <= Len(arrays[s.array])

Holds(arrays, s, pts) ==
    /\ pts \in Seq(Nat)
    /\ Len(pts) = s.len
    /\ \A i \in 1 .. s.len : arrays[s.array][s.start + i] = pts[i]

\* A slice q that was handed out ends no later than the slice s of today.
Behind(q, s) == q.array # 0 /\ q.array = s.array => q.start + q.len <= s.start + s.len

LEMMA HeldPoints ==
    ASSUME NEW k, NEW s \in Slices, NEW pts, Holds(memory[k], s, pts)
    PROVE  Points(k, s) = pts
<1>1. pts = [i \in 1 .. s.len |-> pts[i]]
  BY DEF Holds
<1>2. QED
  BY <1>1 DEF Holds, Points

\* m is a good successor of slice s: it holds the points pts, and every slice q
\* that was handed out before is left as it was and still behind.
GoodNext(arrays, s, pts, m) ==
    /\ m.arrays \in Seq(Seq(Nat))
    /\ Fits(m.arrays, m.slice)
    /\ Holds(m.arrays, m.slice, pts)
    /\ \A q, old :
          Fits(arrays, q) /\ Behind(q, s) /\ Holds(arrays, q, old)
             => Fits(m.arrays, q) /\ Behind(q, m.slice) /\ Holds(m.arrays, q, old)

\* Positions in an array of L cells, behind the first x.
LEMMA Positions ==
    ASSUME NEW x \in Nat, NEW n \in Nat, NEW i \in 1 .. n
    PROVE  /\ x + i \in Nat /\ x + i # 0 /\ x + i <= x + n
           /\ \A L \in Nat : x + n <= L => x + i \in 1 .. L
  OBVIOUS

\* The position behind the last.
LEMMA NextPosition ==
    ASSUME NEW x \in Nat, NEW n \in Nat, NEW L \in Nat, x + n < L
    PROVE  n + 1 \in Nat /\ x + (n + 1) <= L /\ x + n + 1 \in 1 .. L
  OBVIOUS

LEMMA LastOrBefore ==
    ASSUME NEW n \in Nat, NEW i \in 1 .. n + 1
    PROVE  i = n + 1 \/ i \in 1 .. n
  OBVIOUS

\* A write to one cell.
Written(A, a, e, now) == [A EXCEPT ![a][e] = now]

(***************************************************************************)
(* append writes behind the end of the slice, and so behind every slice    *)
(* that was handed out.                                                    *)
(***************************************************************************)
LEMMA AppendInPlace ==
    ASSUME NEW A \in Seq(Seq(Nat)), NEW a \in 1 .. Len(A), NEW x \in Nat, NEW n \in Nat,
           NEW L \in Nat, L = Len(A[a]), x + n < L,
           NEW s, s = [array |-> a, start |-> x, len |-> n],
           NEW pts, Holds(A, s, pts), NEW now \in Nat,
           NEW e \in Nat, e = x + n + 1,
           NEW m, m.arrays = Written(A, a, e, now),
           m.slice = [array |-> a, start |-> x, len |-> n + 1]
    PROVE  GoodNext(A, s, Append(pts, now), m)
<1>1. e = x + n + 1
  OBVIOUS
<1>2. PICK B : B = m.arrays
  OBVIOUS
<1>3. e \in 1 .. L /\ n + 1 \in Nat /\ x + (n + 1) <= L
  BY <1>1, NextPosition
<1>4. B = [A EXCEPT ![a][e] = now]
  BY <1>2 DEF Written
<1>5. /\ B \in Seq(Seq(Nat)) /\ Len(B) = Len(A)
      /\ \A b \in 1 .. Len(A) : Len(B[b]) = Len(A[b])
      /\ \A b \in 1 .. Len(A) : \A i \in 1 .. Len(A[b]) :
            B[b][i] = IF b = a /\ i = e THEN now ELSE A[b][i]
  <2> DEFINE cells == [A[a] EXCEPT ![e] = now]
  <2>1. A[a] \in Seq(Nat) /\ DOMAIN A = 1 .. Len(A)
    OBVIOUS
  <2>2. DOMAIN A[a] = 1 .. Len(A[a])
    BY <2>1
  <2>3. cells \in Seq(Nat) /\ Len(cells) = Len(A[a])
    BY <1>3, <2>1
  <2>4. \A i \in 1 .. Len(A[a]) : cells[i] = IF i = e THEN now ELSE A[a][i]
    BY <2>2
  <2>5. B = [A EXCEPT ![a] = cells]
    BY <1>4
  <2> HIDE DEF cells
  <2>6. B \in Seq(Seq(Nat)) /\ Len(B) = Len(A)
    BY <2>3, <2>5
  <2>7. \A b \in 1 .. Len(A) : B[b] = IF b = a THEN cells ELSE A[b]
    BY <2>1, <2>5
  <2>8. \A b \in 1 .. Len(A) : Len(B[b]) = Len(A[b])
    BY <2>3, <2>7
  <2>9. ASSUME NEW b \in 1 .. Len(A)
        PROVE  \A i \in 1 .. Len(A[b]) :
                 B[b][i] = IF b = a /\ i = e THEN now ELSE A[b][i]
    <3>1. CASE b = a
      BY <2>4, <2>7, <3>1
    <3>2. CASE b # a
      BY <2>7, <3>2
    <3>3. QED
      BY <3>1, <3>2
  <2>10. QED
    BY <2>6, <2>8, <2>9
<1>6. /\ pts \in Seq(Nat) /\ Len(pts) = n
      /\ \A i \in 1 .. n : A[a][x + i] = pts[i]
  BY DEF Holds
<1>7. Fits(B, m.slice)
  <2>1. a \in Nat /\ a # 0
    OBVIOUS
  <2>2. Len(B[a]) = L
    BY <1>5
  <2>3. a \in 1 .. Len(B)
    BY <1>5
  <2>4. m.slice \in Slices
    BY <1>3, <2>1 DEF Slices
  <2>5. /\ m.slice.array = a /\ m.slice.start = x /\ m.slice.len = n + 1
    OBVIOUS
  <2>6. QED
    BY <1>3, <2>1, <2>2, <2>3, <2>4, <2>5 DEF Fits
<1>8. Holds(B, m.slice, Append(pts, now))
  <2>1. /\ Append(pts, now) \in Seq(Nat) /\ Len(Append(pts, now)) = n + 1
        /\ Append(pts, now)[n + 1] = now
        /\ \A i \in 1 .. n : Append(pts, now)[i] = pts[i]
    BY <1>6, AppendProperties
  <2>2. ASSUME NEW i \in 1 .. n + 1 PROVE B[a][x + i] = Append(pts, now)[i]
    <3>1. PICK j \in Nat : j = x + i /\ j \in 1 .. L
      BY <1>3, Positions
    <3>2. B[a][j] = IF j = e THEN now ELSE A[a][j]
      BY <1>5, <3>1
    <3>3. CASE i = n + 1
      <4>1. j = e
        BY <1>1, <3>1, <3>3
      <4>2. QED
        BY <2>1, <3>1, <3>2, <3>3, <4>1
    <3>4. CASE i # n + 1
      <4>1. i \in 1 .. n
        BY <3>4, LastOrBefore
      <4>4. j # e
        BY <1>1, <3>1, <4>1
      <4>2. A[a][x + i] = pts[i]
        BY <1>6, <4>1
      <4>3. QED
        BY <2>1, <3>1, <3>2, <4>1, <4>2, <4>4
    <3>5. QED
      BY <3>3, <3>4
  <2>3. /\ m.slice.array = a /\ m.slice.start = x /\ m.slice.len = n + 1
    OBVIOUS
  <2>4. QED
    BY <2>1, <2>2, <2>3 DEF Holds
<1>9. ASSUME NEW q, Fits(A, q), Behind(q, s), NEW old, Holds(A, q, old)
      PROVE  Fits(B, q) /\ Behind(q, m.slice) /\ Holds(B, q, old)
  <2>1. PICK b \in Nat, y \in Nat, l \in Nat : q = [array |-> b, start |-> y, len |-> l]
    BY <1>9 DEF Fits, Slices
  <2>2. /\ b = 0 => l = 0
        /\ b # 0 => b \in 1 .. Len(A) /\ y + l <= Len(A[b])
    BY <1>9, <2>1 DEF Fits
  <2>3. b = a => y + l <= x + n
    BY <1>9, <2>1, <2>2 DEF Behind
  <2>4. Fits(B, q)
    BY <1>5, <2>1, <2>2 DEF Fits, Slices
  <2>5. Behind(q, m.slice)
    BY <2>1, <2>3 DEF Behind
  <2>6. ASSUME NEW i \in 1 .. l PROVE B[b][y + i] = A[b][y + i]
    <3>1. b \in 1 .. Len(A) /\ y + l <= Len(A[b])
      BY <2>2
    <3>2. PICK j \in Nat : j = y + i /\ j <= y + l /\ j # 0
      BY Positions
    <3>3. j \in 1 .. Len(A[b])
      <4>1. Len(A[b]) \in Nat
        BY <3>1
      <4>2. PICK L2 \in Nat : L2 = Len(A[b])
        BY <4>1
      <4>5. y + l <= L2
        BY <3>1, <4>2
      <4>3. j \in 1 .. L2
        BY <3>2, <4>5, Positions
      <4>4. QED
        BY <4>2, <4>3
    <3>4. ~(b = a /\ j = e)
      BY <1>1, <2>3, <3>2
    <3>5. B[b][j] = A[b][j]
      BY <1>5, <3>1, <3>3, <3>4
    <3>6. QED
      BY <3>2, <3>5
  <2>7. Holds(B, q, old)
    BY <1>9, <2>1, <2>6 DEF Holds
  <2>8. QED
    BY <2>4, <2>5, <2>7
<1>10. QED
  BY <1>2, <1>5, <1>7, <1>8, <1>9 DEF GoodNext

\* append with no room copies the points into a new array, which no slice that
\* was handed out refers to.
LEMMA AppendInNewArray ==
    ASSUME NEW A \in Seq(Seq(Nat)), NEW s \in Slices,
           NEW pts, Holds(A, s, pts), NEW now \in Nat, NEW room \in Nat,
           NEW m, m.arrays = Append(A, pts \o <<now>> \o [i \in 1 .. room |-> 0]),
           m.slice = [array |-> Len(A) + 1, start |-> 0, len |-> s.len + 1]
    PROVE  GoodNext(A, s, Append(pts, now), m)
<1> DEFINE free  == [i \in 1 .. room |-> 0]
           front == pts \o <<now>>
           cells == front \o free
<1>1. PICK n \in Nat : n = s.len
  BY DEF Slices
<1>2. PICK a \in Nat : a = Len(A) + 1 /\ a # 0
  OBVIOUS
<1>3. pts \in Seq(Nat) /\ Len(pts) = n
  BY <1>1 DEF Holds
<1>4. free \in Seq(Nat) /\ Len(free) = room
  OBVIOUS
<1>5. front \in Seq(Nat) /\ Len(front) = n + 1 /\ front = Append(pts, now)
  BY <1>3
<1> HIDE DEF free, front
<1>6. cells \in Seq(Nat) /\ Len(cells) = n + 1 + room
  <2>1. cells \in Seq(Nat) /\ Len(cells) = Len(front) + Len(free)
    BY <1>4, <1>5, ConcatProperties
  <2>2. QED
    BY <1>4, <1>5, <2>1
<1>7. \A i \in 1 .. n + 1 : cells[i] = front[i]
  <2>1. \A i \in 1 .. Len(front) : (front \o free)[i] = front[i]
    BY <1>4, <1>5, ConcatProperties
  <2>2. QED
    BY <1>5, <2>1
<1>8. m.arrays = Append(A, cells)
  BY DEF front, free
<1> HIDE DEF cells
<1>9. PICK B : B = m.arrays
  OBVIOUS
<1>10. /\ B \in Seq(Seq(Nat)) /\ Len(B) = a
       /\ \A b \in 1 .. Len(A) : B[b] = A[b]
       /\ B[a] = cells
  BY <1>2, <1>6, <1>8, <1>9
<1>11. m.slice.array = a /\ m.slice.start = 0 /\ m.slice.len = n + 1
  BY <1>1, <1>2
<1>12. Fits(B, m.slice)
  <2>1. m.slice \in Slices
    BY <1>1, <1>2 DEF Slices
  <2>2. 0 + (n + 1) <= Len(B[a]) /\ a \in 1 .. Len(B)
    BY <1>2, <1>6, <1>10
  <2>3. QED
    BY <1>2, <1>11, <2>1, <2>2 DEF Fits
<1>13. Holds(B, m.slice, front)
  <2>1. \A i \in 1 .. n + 1 : B[a][0 + i] = front[i]
    BY <1>7, <1>10
  <2>2. QED
    BY <1>5, <1>11, <2>1 DEF Holds
<1>14. ASSUME NEW q, Fits(A, q), NEW old, Holds(A, q, old)
       PROVE  Fits(B, q) /\ Behind(q, m.slice) /\ Holds(B, q, old)
  <2>1. q \in Slices /\ q.array \in Nat /\ q.len \in Nat
    BY <1>14 DEF Fits, Slices
  <2>2. q.array # 0 => /\ q.array \in 1 .. Len(A) /\ B[q.array] = A[q.array]
                       /\ q.array \in 1 .. Len(B) /\ q.array # a
    BY <1>2, <1>10, <1>14 DEF Fits
  <2>3. Fits(B, q)
    BY <1>14, <2>1, <2>2 DEF Fits
  <2>4. Behind(q, m.slice)
    BY <1>11, <2>2 DEF Behind
  <2>5. q.array = 0 => q.len = 0
    BY <1>14 DEF Fits
  <2>6. \A i \in 1 .. q.len : B[q.array] = A[q.array]
    BY <2>1, <2>2, <2>5
  <2>7. Holds(B, q, old)
    BY <1>14, <2>6 DEF Holds
  <2>8. QED
    BY <2>3, <2>4, <2>7
<1>15. QED
  BY <1>5, <1>9, <1>10, <1>12, <1>13, <1>14 DEF GoodNext

(***************************************************************************)
(* A trim moves the start of the slice and keeps its end.                  *)
(***************************************************************************)
LEMMA TrimMovesTheStart ==
    ASSUME NEW A, NEW s, NEW pts \in Seq(Nat), Len(pts) <= HistoryDepth + 1,
           NEW m \in [arrays : Seq(Seq(Nat)), slice : Slices], GoodNext(A, s, pts, m)
    PROVE  GoodNext(A, s, Trim(pts), Trimmed(m))
<1>1. PICK a \in Nat, x \in Nat, n \in Nat : m.slice = [array |-> a, start |-> x, len |-> n]
  BY DEF Slices
<1>2. n = Len(pts) /\ \A i \in 1 .. n : m.arrays[a][x + i] = pts[i]
  BY <1>1 DEF GoodNext, Holds
<1>3. CASE n <= HistoryDepth
  <2>1. Trim(pts) = pts /\ Trimmed(m) = m
    BY <1>1, <1>2, <1>3, StoreAssumption DEF Trim, Trimmed
  <2>2. QED
    BY <2>1
<1>4. CASE ~(n <= HistoryDepth)
  <2>1. PICK r : r = Trimmed(m)
    OBVIOUS
  <2>2. n = HistoryDepth + 1 /\ HistoryDepth \in Nat
    BY <1>2, <1>4, StoreAssumption
  <2>3. /\ r.arrays = m.arrays
        /\ r.slice = [array |-> a, start |-> x + 1, len |-> HistoryDepth]
    <3>1. m.slice.len = n /\ n - HistoryDepth = 1
      BY <1>1, <2>2
    <3>2. r = [m EXCEPT !.slice.start = @ + 1, !.slice.len = HistoryDepth]
      BY <1>4, <2>1, <3>1 DEF Trimmed
    <3>3. PICK B : m = [arrays |-> B, slice |-> [array |-> a, start |-> x, len |-> n]]
      BY <1>1
    <3>4. QED
      BY <3>2, <3>3
  <2>4. /\ Trim(pts) \in Seq(Nat) /\ Len(Trim(pts)) = HistoryDepth
        /\ \A i \in 1 .. HistoryDepth : Trim(pts)[i] = pts[i + 1]
    <3>1. PICK d \in 0 .. 1 :
            /\ Trim(pts) \in Seq(Nat) /\ Len(Trim(pts)) <= HistoryDepth
            /\ Len(Trim(pts)) + d = Len(pts)
            /\ \A i \in 1 .. Len(Trim(pts)) : Trim(pts)[i] = pts[i + d]
      BY TrimKeepsTheEnd
    <3>2. Len(Trim(pts)) \in Nat
      BY <3>1
    <3>3. d = 1 /\ Len(Trim(pts)) = HistoryDepth
      BY <1>2, <2>2, <3>1, <3>2
    <3>4. QED
      BY <3>1, <3>3
  <2>5. Fits(r.arrays, r.slice)
    BY <1>1, <2>2, <2>3 DEF GoodNext, Fits, Slices
  <2>6. Holds(r.arrays, r.slice, Trim(pts))
    <3>1. ASSUME NEW i \in 1 .. HistoryDepth
          PROVE  m.arrays[a][(x + 1) + i] = Trim(pts)[i]
      <4>1. i + 1 \in 1 .. n /\ (x + 1) + i = x + (i + 1)
        BY <2>2
      <4>2. QED
        BY <1>2, <2>4, <4>1
    <3>2. r.slice.array = a /\ r.slice.start = x + 1 /\ r.slice.len = HistoryDepth
      BY <2>3
    <3>3. QED
      BY <2>3, <2>4, <3>1, <3>2 DEF Holds
  <2>7. ASSUME NEW q, Behind(q, m.slice) PROVE Behind(q, r.slice)
    BY <1>1, <2>2, <2>3, <2>7 DEF Behind
  <2>8. QED
    BY <2>1, <2>3, <2>5, <2>6, <2>7 DEF GoodNext
<1>5. QED
  BY <1>3, <1>4

(***************************************************************************)
(* One volume in one Put.                                                  *)
(***************************************************************************)
LEMMA PutOneVolume ==
    ASSUME NEW k, memory[k] \in Seq(Seq(Nat)), Fits(memory[k], slice[k]),
           Holds(memory[k], slice[k], history[k]), Len(history[k]) <= HistoryDepth,
           NEW f \in VolumeStates, NEW now \in Nat, NEW room \in Nat
    PROVE  GoodNext(memory[k], slice[k], Retain(history[k], f, now),
                    Stored(k, f, now, room))
<1>1. history[k] \in Seq(Nat) /\ Len(history[k]) = slice[k].len
  BY DEF Holds
<1>2. PICK A \in Seq(Seq(Nat)) : A = memory[k]
  OBVIOUS
<1>3. PICK a \in Nat, x \in Nat, n \in Nat : slice[k] = [array |-> a, start |-> x, len |-> n]
  BY DEF Fits, Slices
<1>4. slice[k].array = a /\ slice[k].start = x /\ slice[k].len = n
  BY <1>3
<1>5. CASE f = "reporting"
  <2> DEFINE app  == Appended(k, slice[k], now, room)
             more == Append(history[k], now)
  <2>1. GoodNext(memory[k], slice[k], more, app)
    <3>1. CASE HasRoom(k, slice[k])
      <4>1. a # 0 /\ x + n < Len(A[a])
        BY <1>2, <1>4, <3>1 DEF HasRoom
      <4>2. a \in 1 .. Len(A)
        BY <1>2, <1>4, <4>1 DEF Fits
      <4>3. PICK L \in Nat : L = Len(A[a])
        BY <4>2
      <4>8. PICK e \in Nat : e = x + n + 1
        OBVIOUS
      <4>4. /\ app.arrays = Written(A, a, e, now)
            /\ app.slice = [array |-> a, start |-> x, len |-> n + 1]
        BY <1>2, <1>4, <3>1, <4>8 DEF Appended, Slice, Written
      <4>5. Holds(A, slice[k], history[k]) /\ x + n < L
        BY <1>2, <4>1, <4>3
      <4> HIDE DEF app, more
      <4>6. GoodNext(A, slice[k], Append(history[k], now), app)
        BY <1>3, <4>2, <4>3, <4>4, <4>5, <4>8, AppendInPlace
      <4>7. QED
        BY <1>2, <4>6 DEF more
    <3>2. CASE ~HasRoom(k, slice[k])
      <4>1. Points(k, slice[k]) = history[k]
        BY HeldPoints DEF Fits
      <4>2. /\ app.arrays = Append(A, history[k] \o <<now>> \o [i \in 1 .. room |-> 0])
            /\ app.slice = [array |-> Len(A) + 1, start |-> 0, len |-> slice[k].len + 1]
        BY <1>2, <3>2, <4>1 DEF Appended, Slice
      <4>3. Holds(A, slice[k], history[k]) /\ slice[k] \in Slices
        BY <1>2 DEF Fits
      <4> HIDE DEF app, more
      <4>4. GoodNext(A, slice[k], Append(history[k], now), app)
        BY <4>2, <4>3, AppendInNewArray
      <4>5. QED
        BY <1>2, <4>4 DEF more
    <3>3. QED
      BY <3>1, <3>2
  <2>2. more \in Seq(Nat) /\ Len(more) <= HistoryDepth + 1
    BY <1>1, StoreAssumption
  <2>3. app \in [arrays : Seq(Seq(Nat)), slice : Slices]
    <3>1. app.arrays \in Seq(Seq(Nat)) /\ app.slice \in Slices
      BY <2>1 DEF GoodNext, Fits
    <3>2. app = [arrays |-> app.arrays, slice |-> app.slice]
      BY DEF Appended
    <3> HIDE DEF app
    <3>3. QED
      BY <3>1, <3>2
  <2> HIDE DEF app, more
  <2>4. GoodNext(memory[k], slice[k], Trim(more), Trimmed(app))
    BY <2>1, <2>2, <2>3, TrimMovesTheStart
  <2>5. QED
    BY <1>5, <2>4 DEF Stored, Retain, app, more
<1>6. CASE f = "silent"
  <2>1. Stored(k, f, now, room) = [arrays |-> memory[k], slice |-> slice[k]]
    BY <1>6 DEF Stored
  <2>2. Retain(history[k], f, now) = history[k]
    BY <1>6 DEF Retain
  <2>3. QED
    BY <2>1, <2>2 DEF GoodNext
<1>7. CASE f = "absent"
  <2>1. Stored(k, f, now, room) = [arrays |-> memory[k], slice |-> NilSlice]
    BY <1>7 DEF Stored
  <2>2. Retain(history[k], f, now) = <<>>
    BY <1>7 DEF Retain
  <2>3. /\ NilSlice \in Slices
        /\ NilSlice.array = 0 /\ NilSlice.start = 0 /\ NilSlice.len = 0
    BY DEF NilSlice, Slice, Slices
  <2>4. Fits(memory[k], NilSlice)
    BY <2>3 DEF Fits
  <2>5. Holds(memory[k], NilSlice, <<>>)
    BY <2>3, EmptySeq DEF Holds
  <2>6. \A q : Behind(q, NilSlice)
    BY <2>3 DEF Behind
  <2>7. QED
    BY <2>1, <2>2, <2>4, <2>5, <2>6 DEF GoodNext
<1>8. QED
  BY <1>5, <1>6, <1>7 DEF VolumeStates

-----------------------------------------------------------------------------
(***************************************************************************)
(* The inductive invariant: every slice lies in an array of its volume and *)
(* holds the history; the slices of a running query still hold what they   *)
(* held when it took them, and end no later than those of today, so that   *)
(* the next append writes behind them.                                     *)
(***************************************************************************)
SlicesOK ==
    \A k \in Keys : /\ memory[k] \in Seq(Seq(Nat))
                    /\ Fits(memory[k], slice[k])
                    /\ Holds(memory[k], slice[k], history[k])

Taken(k) == /\ Fits(memory[k], query.slices[k])
            /\ Behind(query.slices[k], slice[k])
            /\ Holds(memory[k], query.slices[k], query.points[k])
            /\ query.volumes[k] = "absent" => query.points[k] = <<>>
            /\ query.volumes[k] = "reporting" =>
                 query.points[k][Len(query.points[k])] = query.at

QueryOK == query.active => \A k \in Keys : Taken(k)

MemoryInv == SlicesOK /\ QueryOK

LEMMA MemoryInvInit == MemoryInit => MemoryInv
<1> SUFFICES ASSUME MemoryInit PROVE MemoryInv
  OBVIOUS
<1>1. ASSUME NEW k \in Keys
      PROVE  /\ memory[k] \in Seq(Seq(Nat))
             /\ Fits(memory[k], slice[k])
             /\ Holds(memory[k], slice[k], history[k])
  <2>1. memory[k] = <<>> /\ history[k] = <<>>
    BY DEF MemoryInit, Init
  <2>2. slice[k] = [array |-> 0, start |-> 0, len |-> 0]
    BY DEF MemoryInit, NilSlice, Slice
  <2>3. Fits(memory[k], slice[k])
    BY <2>2 DEF Fits, Slices
  <2>4. Holds(memory[k], slice[k], history[k])
    BY <2>1, <2>2, EmptySeq DEF Holds
  <2>5. QED
    BY <2>1, <2>3, <2>4
<1>2. QueryOK
  BY DEF MemoryInit, NoQuery, QueryOK
<1>3. QED
  BY <1>1, <1>2 DEF MemoryInv, SlicesOK

LEMMA MemoryInvStep ==
    TypeOK /\ HistoryOrdered /\ MemoryInv /\ [MemoryNext]_<<vars, memoryVars, query>>
        => MemoryInv'
<1> SUFFICES ASSUME TypeOK, HistoryOrdered, MemoryInv,
                    [MemoryNext]_<<vars, memoryVars, query>>
             PROVE  MemoryInv'
  OBVIOUS
<1>1. ASSUME NEW found \in Scrapes, NEW room \in Rooms, PutInMemory(found, room)
      PROVE  MemoryInv'
  <2>1. room \in Nat /\ generatedAt' \in Nat /\ generatedAt' = generatedAt + 1
    BY <1>1, MemoryAssumption DEF PutInMemory, PutLocked, TypeOK
  <2>2. query' = query
    BY <1>1 DEF PutInMemory
  <2>3. ASSUME NEW k \in Keys
        PROVE  /\ GoodNext(memory[k], slice[k], history'[k],
                           [arrays |-> memory'[k], slice |-> slice'[k]])
    <3>1. memory[k] \in Seq(Seq(Nat)) /\ Fits(memory[k], slice[k])
          /\ Holds(memory[k], slice[k], history[k])
      BY DEF MemoryInv, SlicesOK
    <3>2. Len(history[k]) <= HistoryDepth
      BY DEF HistoryOrdered
    <3>3. found[k] \in VolumeStates
      BY StoreAssumption
    <3>4. GoodNext(memory[k], slice[k], Retain(history[k], found[k], generatedAt'),
                   Stored(k, found[k], generatedAt', room))
      BY <2>1, <3>1, <3>2, <3>3, PutOneVolume
    <3>5. history'[k] = Retain(history[k], found[k], generatedAt')
      BY <1>1, <2>1 DEF PutInMemory, PutLocked
    <3>6. /\ memory'[k] = Stored(k, found[k], generatedAt', room).arrays
          /\ slice'[k] = Stored(k, found[k], generatedAt', room).slice
      BY <1>1 DEF PutInMemory
    <3>7. QED
      BY <3>4, <3>5, <3>6 DEF GoodNext
  <2>4. ASSUME NEW k \in Keys
        PROVE  /\ memory'[k] \in Seq(Seq(Nat))
               /\ Fits(memory'[k], slice'[k])
               /\ Holds(memory'[k], slice'[k], history'[k])
    BY <2>3 DEF GoodNext
  <2>5. ASSUME query.active, NEW k \in Keys PROVE Taken(k)'
    <3>1. Taken(k)
      BY <2>5 DEF MemoryInv, QueryOK
    <3>2. \A q, old : Fits(memory[k], q) /\ Behind(q, slice[k]) /\ Holds(memory[k], q, old)
            => Fits(memory'[k], q) /\ Behind(q, slice'[k]) /\ Holds(memory'[k], q, old)
      BY <2>3 DEF GoodNext
    <3>3. QED
      BY <2>2, <3>1, <3>2 DEF Taken
  <2>6. QED
    BY <2>2, <2>4, <2>5 DEF MemoryInv, SlicesOK, QueryOK
<1>2. CASE BeginQuery
  <2>1. /\ query' = [active |-> TRUE, at |-> generatedAt, volumes |-> volumes,
                     slices |-> slice, points |-> history]
        /\ UNCHANGED <<memory, slice, history>>
    BY <1>2 DEF BeginQuery, memoryVars, vars, store
  <2>2. ASSUME NEW k \in Keys PROVE Taken(k)'
    <3>1. /\ Fits(memory[k], slice[k]) /\ Holds(memory[k], slice[k], history[k])
      BY DEF MemoryInv, SlicesOK
    <3>2. slice[k].start + slice[k].len <= slice[k].start + slice[k].len
      BY <3>1 DEF Fits, Slices
    <3>3. Behind(slice[k], slice[k])
      BY <3>2 DEF Behind
    <3>4. /\ volumes[k] = "absent" => history[k] = <<>>
          /\ volumes[k] = "reporting" => history[k][Len(history[k])] = generatedAt
      BY DEF HistoryOrdered
    <3>5. QED
      BY <2>1, <3>1, <3>3, <3>4 DEF Taken
  <2>3. QED
    BY <2>1, <2>2 DEF MemoryInv, SlicesOK, QueryOK
<1>3. CASE EndQuery
  BY <1>3 DEF EndQuery, NoQuery, memoryVars, vars, store, MemoryInv, SlicesOK, QueryOK
<1>4. ASSUME UNCHANGED <<memory, slice, history, query>> PROVE MemoryInv'
  BY <1>4 DEF MemoryInv, SlicesOK, QueryOK, Taken
<1>5. ASSUME NEW c \in Clients, Send(c) \/ HangUp(c) \/ Handler(c)
      PROVE  UNCHANGED history
  BY <1>5 DEF Send, HangUp, Handler, Subscribe, Wake, ReadSnapshot, Flush,
              Unregister, Close, store
<1>6. CASE UNCHANGED <<vars, memoryVars, query>>
  BY <1>4, <1>6 DEF vars, memoryVars, store
<1>7. QED
  BY <1>1, <1>2, <1>3, <1>4, <1>5, <1>6 DEF MemoryNext, memoryVars

LEMMA MemoryInvAlways == MemorySafeSpec => []MemoryInv
  BY MemoryInvInit, MemoryInvStep, MemoryUsesStore, StoreTypeOK, StoreHistoryOrdered,
     PTL DEF MemorySafeSpec

(***************************************************************************)
(* The slices hold the history that Store keeps as sequences, for any room *)
(* append leaves (store.go:109).                                           *)
(***************************************************************************)
THEOREM MemorySlicesHoldHistory == MemorySafeSpec => []SlicesHoldHistory
<1>1. MemoryInv => SlicesHoldHistory
  BY HeldPoints DEF MemoryInv, SlicesOK, SlicesHoldHistory, Fits
<1>2. QED
  BY <1>1, MemoryInvAlways, PTL

(***************************************************************************)
(* A query reads the points as they were when it took its slices, however  *)
(* many collections end before it answers (store.go:167).                  *)
(***************************************************************************)
THEOREM MemoryQueryReadsItsMoment == MemorySafeSpec => []QueryReadsItsMoment
<1>1. MemoryInv => QueryReadsItsMoment
  <2> SUFFICES ASSUME MemoryInv, query.active, NEW k \in Keys
               PROVE  /\ Points(k, query.slices[k]) = query.points[k]
                      /\ query.volumes[k] = "reporting" =>
                           query.points[k][Len(query.points[k])] = query.at
                      /\ query.volumes[k] = "absent" => query.points[k] = <<>>
    BY DEF QueryReadsItsMoment
  <2>1. Taken(k)
    BY DEF MemoryInv, QueryOK
  <2>2. QED
    BY <2>1, HeldPoints DEF Taken, Fits
<1>2. QED
  BY <1>1, MemoryInvAlways, PTL

-----------------------------------------------------------------------------
(***************************************************************************)
(* HistoryLog.  The x-th point from the end has x readings after it, and   *)
(* every reading with room behind it is among the points.                  *)
(***************************************************************************)
LaterIn(taken, i) == {j \in taken : j > i}

Ranked(points, taken) ==
    /\ points \in Seq(Nat)
    /\ Len(points) <= HistoryDepth
    /\ \A x \in 1 .. Len(points) :
         /\ points[x] \in taken
         /\ Cardinality(LaterIn(taken, points[x])) = Len(points) - x
    /\ \A i \in taken :
         Cardinality(LaterIn(taken, i)) < HistoryDepth => \E x \in 1 .. Len(points) : points[x] = i

(***************************************************************************)
(* A reading that is later than all others is one more after each of them, *)
(* and has none after itself.                                              *)
(***************************************************************************)
LEMMA OneMoreIsLater ==
  ASSUME NEW t \in Nat, NEW taken \in SUBSET (1 .. t)
  PROVE  /\ \A i \in taken : /\ Cardinality(LaterIn(taken, i)) \in Nat
                             /\ Cardinality(LaterIn(taken \cup {t + 1}, i))
                                  = Cardinality(LaterIn(taken, i)) + 1
         /\ Cardinality(LaterIn(taken \cup {t + 1}, t + 1)) = 0
<1>1. ASSUME NEW i \in taken
      PROVE  /\ Cardinality(LaterIn(taken, i)) \in Nat
             /\ Cardinality(LaterIn(taken \cup {t + 1}, i)) = Cardinality(LaterIn(taken, i)) + 1
  <2>1. IsFiniteSet(LaterIn(taken, i))
    <3>1. LaterIn(taken, i) \in SUBSET (1 .. t)
      BY DEF LaterIn
    <3>2. IsFiniteSet(1 .. t)
      BY FS_Interval
    <3>3. QED
      BY <3>1, <3>2, FS_Subset
  <2>2. LaterIn(taken \cup {t + 1}, i) = LaterIn(taken, i) \cup {t + 1}
    BY DEF LaterIn
  <2>3. t + 1 \notin LaterIn(taken, i)
    BY DEF LaterIn
  <2>4. QED
    BY <2>1, <2>2, <2>3, FS_CardinalityType, FS_AddElement
<1>2. LaterIn(taken \cup {t + 1}, t + 1) = {}
  <2>1. \A j \in taken \cup {t + 1} : ~(j > t + 1)
    OBVIOUS
  <2>2. QED
    BY <2>1 DEF LaterIn
<1>3. QED
  BY <1>1, <1>2, FS_EmptySet

LEMMA RankedStays ==
  ASSUME NEW t \in Nat, NEW taken \in SUBSET (1 .. t), NEW points, Ranked(points, taken)
  PROVE  Ranked(Trim(Append(points, t + 1)), taken \cup {t + 1})
<1> DEFINE more == Append(points, t + 1)
<1> DEFINE kept == Trim(more)
<1> DEFINE all == taken \cup {t + 1}
<1>1. /\ more \in Seq(Nat)
      /\ Len(more) = Len(points) + 1
      /\ \A x \in 1 .. Len(points) : more[x] = points[x]
      /\ more[Len(more)] = t + 1
      /\ more # <<>>
  <2>1. t + 1 \in Nat /\ points \in Seq(Nat)
    BY DEF Ranked
  <2>2. QED
    BY <2>1, AppendProperties, EmptySeq
<1>2. \A x \in 1 .. Len(more) :
        /\ more[x] \in all
        /\ Cardinality(LaterIn(all, more[x])) = Len(more) - x
  <2> SUFFICES ASSUME NEW x \in 1 .. Len(more)
               PROVE  /\ more[x] \in all
                      /\ Cardinality(LaterIn(all, more[x])) = Len(more) - x
    OBVIOUS
  <2>1. CASE x = Len(more)
    BY <1>1, <2>1, OneMoreIsLater
  <2>2. CASE x # Len(more)
    <3>1. x \in 1 .. Len(points) /\ more[x] = points[x]
      BY <1>1, <2>2 DEF Ranked
    <3>2. points[x] \in taken /\ Cardinality(LaterIn(taken, points[x])) = Len(points) - x
      BY <3>1 DEF Ranked
    <3>3. Cardinality(LaterIn(all, points[x])) = Cardinality(LaterIn(taken, points[x])) + 1
      BY <3>2, OneMoreIsLater
    <3>4. QED
      BY <1>1, <3>1, <3>2, <3>3 DEF Ranked
  <2>3. QED
    BY <2>1, <2>2
<1>3. Len(more) <= HistoryDepth + 1
  BY <1>1, StoreAssumption DEF Ranked
<1> HIDE DEF more
<1>4. PICK d \in 0 .. 1 :
        /\ kept \in Seq(Nat)
        /\ Len(kept) <= HistoryDepth
        /\ kept # <<>>
        /\ Len(kept) + d = Len(more)
        /\ d = 1 => Len(kept) = HistoryDepth
        /\ \A x \in 1 .. Len(kept) : kept[x] = more[x + d]
  BY <1>1, <1>3, TrimKeepsTheEnd
<1> HIDE DEF kept
<1>5. \A x \in 1 .. Len(kept) : x + d \in 1 .. Len(more)
  BY <1>1, <1>4
<1> HIDE DEF all
<1>6. \A x \in 1 .. Len(kept) :
        /\ kept[x] \in all
        /\ Cardinality(LaterIn(all, kept[x])) = Len(kept) - x
  <2> SUFFICES ASSUME NEW x \in 1 .. Len(kept)
               PROVE  /\ kept[x] \in all
                      /\ Cardinality(LaterIn(all, kept[x])) = Len(kept) - x
    OBVIOUS
  <2>1. kept[x] = more[x + d] /\ x + d \in 1 .. Len(more)
    BY <1>4, <1>5
  <2>2. /\ more[x + d] \in all
        /\ Cardinality(LaterIn(all, more[x + d])) = Len(more) - (x + d)
    BY <1>2, <2>1
  <2>3. Len(kept) \in Nat /\ Len(kept) + d = Len(more)
    BY <1>4
  <2>4. Len(more) - (x + d) = Len(kept) - x
    BY <2>3
  <2>5. QED
    BY <2>1, <2>2, <2>4
<1>7. ASSUME NEW i \in all, Cardinality(LaterIn(all, i)) < HistoryDepth
      PROVE  \E x \in 1 .. Len(kept) : kept[x] = i
  <2>1. \E y \in 1 .. Len(more) : more[y] = i
    <3>1. CASE i = t + 1
      BY <1>1, <3>1
    <3>2. CASE i # t + 1
      <4>1. i \in taken
        BY <3>2 DEF all
      <4>2. Cardinality(LaterIn(taken, i)) < HistoryDepth
        BY <1>7, <4>1, OneMoreIsLater, StoreAssumption DEF all
      <4>3. PICK y \in 1 .. Len(points) : points[y] = i
        BY <4>1, <4>2 DEF Ranked
      <4>4. QED
        BY <1>1, <4>3 DEF Ranked
    <3>3. QED
      BY <3>1, <3>2
  <2>2. PICK y \in 1 .. Len(more) : more[y] = i
    BY <2>1
  <2>3. Cardinality(LaterIn(all, i)) = Len(more) - y
    BY <1>2, <2>2
  <2>4. y - d \in 1 .. Len(kept)
    BY <1>1, <1>4, <1>7, <2>3, StoreAssumption
  <2>5. kept[y - d] = i
    BY <1>4, <2>2, <2>4
  <2>6. QED
    BY <2>4, <2>5
<1>8. Ranked(kept, all)
  BY <1>4, <1>6, <1>7 DEF Ranked
<1>9. QED
  BY <1>8 DEF kept, more, all

-----------------------------------------------------------------------------
(***************************************************************************)
(* The invariant: the log has one entry per Put, the last of which is the  *)
(* stored snapshot, and every history is ranked in its readings.           *)
(***************************************************************************)
LogInv ==
    /\ log \in Seq([Keys -> VolumeStates])
    /\ Len(log) = generatedAt
    /\ \A k \in Keys : Ranked(history[k], Readings(k))

LEMMA ReadingsFollowPut ==
  ASSUME NEW k \in Keys, log \in Seq([Keys -> VolumeStates]),
         NEW found \in [Keys -> VolumeStates], log' = Append(log, found)
  PROVE  Readings(k)' = CASE found[k] = "reporting" -> Readings(k) \cup {Len(log) + 1}
                          [] found[k] = "silent"    -> Readings(k)
                          [] found[k] = "absent"    -> {}
<1>1. /\ Len(log') = Len(log) + 1
      /\ \A i \in 1 .. Len(log) : log'[i] = log[i]
      /\ log'[Len(log) + 1] = found
  BY AppendProperties
<1>2. Len(log) \in Nat
  OBVIOUS
<1>3. CASE found[k] = "absent"
  <2>1. \A i \in 1 .. Len(log') : Len(log') \in i .. Len(log')
    BY <1>1, <1>2
  <2>2. Readings(k)' = {}
    BY <1>1, <1>3, <2>1 DEF Readings
  <2>3. QED
    BY <1>3, <2>2
<1>4. CASE found[k] # "absent"
  <2>1. ASSUME NEW i \in 1 .. Len(log)
        PROVE  i \in Readings(k)' <=> i \in Readings(k)
    <3>1. i .. Len(log') = (i .. Len(log)) \cup {Len(log) + 1}
      <4>1. \A n \in Nat : i <= n => i .. n + 1 = (i .. n) \cup {n + 1}
        OBVIOUS
      <4>2. QED
        BY <1>1, <1>2, <4>1
    <3>2. \A j \in i .. Len(log) : log'[j] = log[j]
      BY <1>1, <1>2
    <3>3. i \in 1 .. Len(log')
      BY <1>1, <1>2
    <3>4. QED
      BY <1>1, <1>4, <3>1, <3>2, <3>3 DEF Readings
  <2>2. Len(log) + 1 \in Readings(k)' <=> found[k] = "reporting"
    <3>1. (Len(log) + 1) .. Len(log') = {Len(log) + 1} /\ Len(log) + 1 \in 1 .. Len(log')
      BY <1>1, <1>2
    <3>2. QED
      BY <1>1, <1>4, <3>1 DEF Readings
  <2>3. Readings(k) \subseteq 1 .. Len(log) /\ Readings(k)' \subseteq (1 .. Len(log)) \cup {Len(log) + 1}
    BY <1>1, <1>2 DEF Readings
  <2>4. CASE found[k] = "reporting"
    BY <2>1, <2>2, <2>3, <2>4
  <2>5. CASE found[k] = "silent"
    <3>1. \A i : i \in Readings(k)' <=> i \in Readings(k)
      BY <2>1, <2>2, <2>3, <2>5
    <3>2. Readings(k)' = Readings(k)
      BY <3>1, Zenon
    <3>3. QED
      BY <2>5, <3>2
  <2>6. QED
    BY <1>4, <2>4, <2>5 DEF VolumeStates
<1>5. QED
  BY <1>3, <1>4

LEMMA LogInvStep == TypeOK /\ LogInv /\ [Next /\ Logged]_<<vars, log>> => LogInv'
<1> SUFFICES ASSUME TypeOK, LogInv, [Next /\ Logged]_<<vars, log>> PROVE LogInv'
  OBVIOUS
<1>1. ASSUME NEW found \in Scrapes, PutLocked(found), Logged PROVE LogInv'
  <2>1. generatedAt \in Nat /\ generatedAt' = generatedAt + 1 /\ volumes' = found
    BY <1>1, StoreAssumption DEF TypeOK, PutLocked
  <2>2. found \in [Keys -> VolumeStates]
    BY StoreAssumption
  <2>3. log' = Append(log, found)
    BY <1>1, <2>1 DEF Logged
  <2>4. log' \in Seq([Keys -> VolumeStates]) /\ Len(log') = generatedAt'
    BY <2>1, <2>2, <2>3, AppendProperties DEF LogInv
  <2>5. ASSUME NEW k \in Keys PROVE Ranked(history'[k], Readings(k)')
    <3>1. history'[k] = Retain(history[k], found[k], generatedAt + 1)
      BY <1>1 DEF PutLocked
    <3>2. Readings(k) \in SUBSET (1 .. generatedAt)
      BY DEF LogInv, Readings
    <3>3. found[k] \in VolumeStates
      BY <2>2
    <3>4. Readings(k)' = CASE found[k] = "reporting" -> Readings(k) \cup {generatedAt + 1}
                           [] found[k] = "silent"    -> Readings(k)
                           [] found[k] = "absent"    -> {}
      BY <2>2, <2>3, ReadingsFollowPut DEF LogInv
    <3>5. Ranked(history[k], Readings(k))
      BY DEF LogInv
    <3>6. CASE found[k] = "reporting"
      BY <2>1, <3>1, <3>2, <3>4, <3>5, <3>6, RankedStays DEF Retain
    <3>7. CASE found[k] = "silent"
      BY <3>1, <3>4, <3>5, <3>7 DEF Retain
    <3>8. CASE found[k] = "absent"
      <4>1. history'[k] = <<>> /\ Readings(k)' = {}
        BY <3>1, <3>4, <3>8 DEF Retain
      <4>2. QED
        BY <4>1, EmptySeq, StoreAssumption DEF Ranked
    <3>9. QED
      BY <3>3, <3>6, <3>7, <3>8 DEF VolumeStates
  <2>6. QED
    BY <2>4, <2>5 DEF LogInv
<1>2. CASE UNCHANGED store /\ UNCHANGED log
  BY <1>2 DEF LogInv, store, Readings
<1>3. ASSUME NEW c \in Clients, Send(c) \/ HangUp(c) \/ Handler(c), Logged
      PROVE  UNCHANGED store /\ UNCHANGED log
  BY <1>3 DEF Send, HangUp, Handler, Subscribe, Wake, ReadSnapshot, Flush,
              Unregister, Close, store, Logged
<1>4. QED
  BY <1>1, <1>2, <1>3 DEF Next, vars

(***************************************************************************)
(* The history of every volume is the last HistoryDepth readings since it  *)
(* last was missing from a snapshot (store.go:47-66), however long the     *)
(* process runs and whatever the collections find.                         *)
(***************************************************************************)
THEOREM HistoryIsTheLatestReadings == LogSpec => []HistoryIsRecent
<1>1. LogInit => LogInv
  <2> SUFFICES ASSUME LogInit PROVE LogInv
    OBVIOUS
  <2>1. log = <<>> /\ generatedAt = 0 /\ \A k \in Keys : history[k] = <<>>
    BY DEF LogInit, Init
  <2>2. \A k \in Keys : Readings(k) = {}
    BY <2>1 DEF Readings
  <2>3. log \in Seq([Keys -> VolumeStates]) /\ Len(log) = generatedAt
    BY <2>1, EmptySeq
  <2>4. Ranked(<<>>, {})
    BY EmptySeq, StoreAssumption DEF Ranked
  <2>5. QED
    BY <2>1, <2>2, <2>3, <2>4 DEF LogInv
<1>2. LogInv /\ HistoryOrdered => HistoryIsRecent
  <2> SUFFICES ASSUME LogInv, HistoryOrdered, NEW k \in Keys
               PROVE  /\ {history[k][x] : x \in 1 .. Len(history[k])} = Latest(Readings(k))
                      /\ \A x, y \in 1 .. Len(history[k]) :
                            x < y => history[k][x] < history[k][y]
    BY DEF HistoryIsRecent
  <2>1. Ranked(history[k], Readings(k))
    BY DEF LogInv
  <2>2. \A x \in 1 .. Len(history[k]) : history[k][x] \in Latest(Readings(k))
    <3> TAKE x \in 1 .. Len(history[k])
    <3>1. history[k][x] \in Readings(k)
          /\ Cardinality(LaterIn(Readings(k), history[k][x])) < HistoryDepth
      BY <2>1, StoreAssumption DEF Ranked
    <3>2. QED
      BY <3>1 DEF Latest, LaterIn
  <2>3. \A i \in Latest(Readings(k)) : \E x \in 1 .. Len(history[k]) : history[k][x] = i
    BY <2>1 DEF Ranked, Latest, LaterIn
  <2>4. \A x, y \in 1 .. Len(history[k]) : x < y => history[k][x] < history[k][y]
    BY DEF HistoryOrdered
  <2>5. QED
    BY <2>2, <2>3, <2>4
<1>3. LogSpec => SafeSpec
  <2>1. [Next /\ Logged]_<<vars, log>> => [Next]_vars
    OBVIOUS
  <2>2. QED
    BY <2>1, PTL DEF LogSpec, LogInit, SafeSpec
<1>4. QED
  BY <1>1, <1>2, <1>3, LogInvStep, StoreTypeOK, StoreHistoryOrdered, PTL DEF LogSpec
=============================================================================
