-------------------------- MODULE RemoteWriteProofs -------------------------
(***************************************************************************)
(* Proofs about RemoteWrite: what the status says of the series of all     *)
(* pushes, whatever the endpoint does and however the shards are taken.    *)
(***************************************************************************)
EXTENDS RemoteWrite, FiniteSetTheorems, TLAPS

-----------------------------------------------------------------------------
(***************************************************************************)
(* The batches of n series are disjoint and leave no series out, because a *)
(* batch begins at every multiple of the batch size and ends before the    *)
(* next one.                                                               *)
(***************************************************************************)
Span(b) == b.first .. b.last

Start(i) == i \in Nat \ {0} /\ (i - 1) % BatchSize = 0

LEMMA BatchSizeType == BatchSize \in Nat \ {0}
BY RemoteWriteAssumption DEF BatchSize

LEMMA MinOfTwo ==
    ASSUME NEW i \in Int, NEW j \in Int
    PROVE  Min({i, j}) = IF i <= j THEN i ELSE j
<1>1. \A x \in {i, j} : (\A y \in {i, j} : x <= y) <=> x = IF i <= j THEN i ELSE j
  OBVIOUS
<1>2. QED
  BY <1>1 DEF Min

\* Division with a rest, as batches need it.
LEMMA Quotient ==
    ASSUME NEW x \in Nat, NEW d \in Nat \ {0}
    PROVE  /\ x = d * (x \div d) + (x % d)
           /\ x % d \in 0 .. d - 1
           /\ x \div d \in Nat
OBVIOUS

LEMMA Divides ==
    ASSUME NEW x \in Nat, NEW d \in Nat \ {0}, x % d = 0
    PROVE  \E q \in Nat : x = d * q
<1>1. x = d * (x \div d) + 0 /\ x \div d \in Nat
  BY Quotient
<1>2. d * (x \div d) \in Nat
  BY <1>1
<1>3. QED
  BY <1>1, <1>2

LEMMA Multiple == ASSUME NEW q \in Nat, NEW d \in Nat \ {0} PROVE (d * q) % d = 0
OBVIOUS

LEMMA NextMultiple ==
    ASSUME NEW q \in Nat, NEW r \in Nat, NEW d \in Nat \ {0}, d * q < d * r
    PROVE  d * q + d <= d * r
<1>1. q < r
  OBVIOUS
<1>2. QED
  BY <1>1

LEMMA StartsAreApart ==
    ASSUME NEW i, NEW j, Start(i), Start(j), i < j
    PROVE  i + BatchSize <= j
<1>1. i - 1 \in Nat /\ j - 1 \in Nat /\ BatchSize \in Nat \ {0}
  BY BatchSizeType DEF Start
<1>2. PICK q \in Nat : i - 1 = BatchSize * q
  BY <1>1, Divides DEF Start
<1>3. PICK r \in Nat : j - 1 = BatchSize * r
  BY <1>1, Divides DEF Start
<1>4. i - 1 < j - 1
  BY DEF Start
<1>5. BatchSize * q + BatchSize <= BatchSize * r
  BY <1>1, <1>2, <1>3, <1>4, NextMultiple
<1>6. (i - 1) + BatchSize <= j - 1
  BY <1>2, <1>3, <1>5
<1>7. i \in Int /\ j \in Int
  BY DEF Start
<1>8. QED
  BY <1>1, <1>6, <1>7

LEMMA StartBefore ==
    ASSUME NEW m \in Nat \ {0}
    PROVE  \E i \in 1 .. m : Start(i) /\ m <= i + BatchSize - 1
<1> DEFINE q == (m - 1) \div BatchSize
           i == BatchSize * q + 1
<1>1. m - 1 \in Nat /\ BatchSize \in Nat \ {0}
  BY BatchSizeType
<1>2. m - 1 = BatchSize * q + ((m - 1) % BatchSize) /\ (m - 1) % BatchSize \in 0 .. BatchSize - 1
      /\ q \in Nat
  BY <1>1, Quotient
<1>3. BatchSize * q \in Nat /\ (BatchSize * q) % BatchSize = 0
  BY <1>1, <1>2, Multiple
<1>4. i - 1 = BatchSize * q
  BY <1>3
<1>5. i \in 1 .. m /\ m <= i + BatchSize - 1
  BY <1>1, <1>2, <1>3
<1>6. Start(i)
  BY <1>3, <1>4 DEF Start
<1>7. QED
  BY <1>5, <1>6

LEMMA BatchType ==
    ASSUME NEW n \in Nat, NEW b \in Batches(n)
    PROVE  /\ Start(b.first)
           /\ b.first \in 1 .. n /\ b.last \in 1 .. n /\ b.first <= b.last
           /\ b.last = IF b.first + BatchSize - 1 <= n THEN b.first + BatchSize - 1 ELSE n
           /\ b = [first |-> b.first, last |-> b.last]
<1>1. PICK i \in 1 .. n : /\ (i - 1) % BatchSize = 0
                          /\ b = [first |-> i, last |-> Min({i + BatchSize - 1, n})]
  BY DEF Batches
<1>2. Min({i + BatchSize - 1, n}) = IF i + BatchSize - 1 <= n THEN i + BatchSize - 1 ELSE n
  BY BatchSizeType, MinOfTwo
<1>3. QED
  BY <1>1, <1>2, BatchSizeType DEF Start

LEMMA BatchesPartition ==
    ASSUME NEW n \in Nat
    PROVE  /\ \A b, c \in Batches(n) : b # c => Span(b) \cap Span(c) = {}
           /\ UNION {Span(b) : b \in Batches(n)} = 1 .. n
<1>1. ASSUME NEW b \in Batches(n), NEW c \in Batches(n), b.first < c.first
      PROVE  Span(b) \cap Span(c) = {}
  <2>1. b.first + BatchSize <= c.first
    BY <1>1, BatchType, StartsAreApart
  <2>2. b.last <= b.first + BatchSize - 1
    BY BatchType, BatchSizeType
  <2>3. QED
    BY <2>1, <2>2, BatchType, BatchSizeType DEF Span
<1>2. ASSUME NEW b \in Batches(n), NEW c \in Batches(n), b # c
      PROVE  Span(b) \cap Span(c) = {}
  <2>1. b.first # c.first
    BY <1>2, BatchType
  <2>2. b.first < c.first \/ c.first < b.first
    BY <2>1, BatchType
  <2>3. QED
    BY <1>1, <2>2
<1>3. ASSUME NEW b \in Batches(n) PROVE Span(b) \subseteq 1 .. n
  BY BatchType DEF Span
<1>4. ASSUME NEW m \in 1 .. n PROVE \E b \in Batches(n) : m \in Span(b)
  <2>1. PICK i \in 1 .. m : Start(i) /\ m <= i + BatchSize - 1
    BY StartBefore
  <2>2. [first |-> i, last |-> Min({i + BatchSize - 1, n})] \in Batches(n)
    <3>1. i \in 1 .. n /\ (i - 1) % BatchSize = 0
      BY <2>1 DEF Start
    <3>2. QED
      BY <3>1 DEF Batches
  <2>3. Min({i + BatchSize - 1, n}) >= m
    BY <2>1, MinOfTwo, BatchSizeType
  <2>4. Min({i + BatchSize - 1, n}) \in Int
    BY MinOfTwo, BatchSizeType
  <2>5. m \in Span([first |-> i, last |-> Min({i + BatchSize - 1, n})])
    BY <2>3, <2>4 DEF Span
  <2>6. QED
    BY <2>2, <2>5
<1>5. QED
  BY <1>2, <1>3, <1>4

LEMMA SizeIsCardinality ==
    ASSUME NEW n \in Nat, NEW b \in Batches(n)
    PROVE  /\ IsFiniteSet(Span(b))
           /\ Cardinality(Span(b)) = Size(b)
           /\ Size(b) \in Nat \ {0}
<1>1. b.first \in Int /\ b.last \in Int /\ b.first <= b.last
  BY BatchType
<1>2. /\ IsFiniteSet(b.first .. b.last)
      /\ Cardinality(b.first .. b.last) = b.last - b.first + 1
  <2>1. /\ IsFiniteSet(b.first .. b.last)
        /\ Cardinality(b.first .. b.last)
             = IF b.first > b.last THEN 0 ELSE b.last - b.first + 1
    BY <1>1, FS_Interval
  <2>2. QED
    BY <1>1, <2>1
<1>3. QED
  BY <1>1, <1>2 DEF Span, Size

-----------------------------------------------------------------------------
(***************************************************************************)
(* The two counters of a push.  A sum over batches is the number of series *)
(* that the batches cover.                                                 *)
(***************************************************************************)
Covered(progress, s) == UNION {Span(b) : b \in {c \in DOMAIN progress : progress[c] = s}}

Returned == {"sent", "failed"}

LEMMA CoveredIsFinite ==
    ASSUME NEW n \in Nat, NEW progress, DOMAIN progress = Batches(n), NEW s
    PROVE  /\ Covered(progress, s) \subseteq 1 .. n
           /\ IsFiniteSet(Covered(progress, s))
           /\ Cardinality(Covered(progress, s)) \in Nat
<1>1. Covered(progress, s) \subseteq 1 .. n
  BY BatchesPartition DEF Covered
<1>2. IsFiniteSet(1 .. n)
  BY FS_Interval
<1>3. IsFiniteSet(Covered(progress, s))
  BY <1>1, <1>2, FS_Subset
<1>4. QED
  BY <1>1, <1>3, FS_CardinalityType

\* Two outcomes cover different series.
LEMMA CoveredIsDisjoint ==
    ASSUME NEW n \in Nat, NEW progress, DOMAIN progress = Batches(n), NEW s, NEW t, s # t
    PROVE  Covered(progress, s) \cap Covered(progress, t) = {}
BY BatchesPartition DEF Covered

LEMMA CardinalityOfDisjoint ==
    ASSUME NEW S, NEW T, IsFiniteSet(S), IsFiniteSet(T), S \cap T = {}
    PROVE  Cardinality(S \cup T) = Cardinality(S) + Cardinality(T)
<1>1. Cardinality(S \cup T) = Cardinality(S) + Cardinality(T) - Cardinality(S \cap T)
  BY FS_Union
<1>2. Cardinality(S \cap T) = 0
  BY FS_EmptySet
<1>3. Cardinality(S) \in Nat /\ Cardinality(T) \in Nat
  BY FS_CardinalityType
<1>4. QED
  BY <1>1, <1>2, <1>3

\* A batch that returns adds its size to one of the counters.
LEMMA BatchReturns ==
    ASSUME series \in Nat, DOMAIN state = Batches(series),
           NEW b \in DOMAIN state, state[b] \notin Returned,
           NEW s \in Returned, state' = [state EXCEPT ![b] = s]
    PROVE  /\ Cardinality(Covered(state', s)) = Cardinality(Covered(state, s)) + Size(b)
           /\ \A t \in Returned \ {s} : Covered(state', t) = Covered(state, t)
<1>1. DOMAIN state' = DOMAIN state
      /\ \A c \in DOMAIN state : state'[c] = IF c = b THEN s ELSE state[c]
  OBVIOUS
<1>2. IsFiniteSet(Covered(state, s))
  BY CoveredIsFinite
<1>3. Covered(state', s) = Covered(state, s) \cup Span(b)
  BY <1>1 DEF Covered
<1>4. Covered(state, s) \cap Span(b) = {}
  <2>1. \A c \in DOMAIN state : state[c] = s => Span(c) \cap Span(b) = {}
    BY BatchesPartition
  <2>2. QED
    BY <2>1 DEF Covered
<1>5. IsFiniteSet(Span(b)) /\ Cardinality(Span(b)) = Size(b)
  BY SizeIsCardinality
<1>6. Cardinality(Covered(state', s)) = Cardinality(Covered(state, s)) + Size(b)
  BY <1>2, <1>3, <1>4, <1>5, CardinalityOfDisjoint
<1>7. \A t \in Returned \ {s} : Covered(state', t) = Covered(state, t)
  BY <1>1 DEF Covered
<1>8. QED
  BY <1>6, <1>7

\* Steps between two states that have not returned count nothing.
LEMMA BatchMoves ==
    ASSUME NEW progress, NEW b \in DOMAIN progress, progress[b] \notin Returned,
           NEW s, s \notin Returned, NEW t \in Returned
    PROVE  Covered([progress EXCEPT ![b] = s], t) = Covered(progress, t)
<1> DEFINE next == [progress EXCEPT ![b] = s]
<1>1. {c \in DOMAIN next : next[c] = t} = {c \in DOMAIN progress : progress[c] = t}
  OBVIOUS
<1>2. QED
  BY <1>1 DEF Covered

-----------------------------------------------------------------------------
(***************************************************************************)
(* The invariant: where each batch is, what it has cost, and what the      *)
(* counters say of those that have returned.                               *)
(***************************************************************************)
BatchOK(b) ==
    /\ attempts[b] \in Nat /\ ingested[b] \in Nat
    /\ \/ state[b] = "queued"  /\ attempts[b] = 0 /\ ingested[b] = 0
       \/ state[b] = "sending" /\ attempts[b] \in 1 .. Retries + 1 /\ ingested[b] < attempts[b]
       \/ state[b] = "backoff" /\ attempts[b] \in 1 .. Retries /\ ingested[b] <= attempts[b]
       \/ /\ state[b] \in Returned
          /\ attempts[b] \in 1 .. Retries + 1
          /\ ingested[b] <= attempts[b]
          /\ state[b] = "sent" => ingested[b] > 0

ShapeOK ==
    /\ series \in Counts \cup {0}
    /\ DOMAIN state = DOMAIN attempts /\ DOMAIN state = DOMAIN ingested
    /\ series > 0 => DOMAIN state = Batches(series)
    /\ series = 0 => AllReturned
    /\ firstErr \in BOOLEAN /\ expired \in BOOLEAN
    /\ sent \in Nat /\ failed \in Nat /\ offered \in Nat
    /\ status \in [sent : Nat, failed : Nat, noError : BOOLEAN]

CountsOK ==
    /\ offered = status.sent + status.failed + series
    /\ series > 0 => /\ sent = Cardinality(Covered(state, "sent"))
                     /\ failed = Cardinality(Covered(state, "failed"))
    /\ failed = 0 => firstErr = FALSE
    /\ failed > 0 => firstErr = TRUE
    /\ series = 0 => /\ failed = 0 => status.noError = TRUE
                     /\ failed > 0 => status.noError = FALSE

PushInv == ShapeOK /\ CountsOK /\ \A b \in DOMAIN state : BatchOK(b)

LEMMA SeriesIsNat == ShapeOK => series \in Nat
BY RemoteWriteAssumption DEF ShapeOK

LEMMA PushInvInit == Init => PushInv
<1> SUFFICES ASSUME Init PROVE PushInv
  OBVIOUS
<1>1. DOMAIN state = {} /\ DOMAIN attempts = {} /\ DOMAIN ingested = {}
  BY DEF Init
<1>2. firstErr \in BOOLEAN /\ expired \in BOOLEAN
  BY DEF Init
<1>3. ShapeOK
  BY <1>1, <1>2 DEF Init, ShapeOK, AllReturned
<1>4. CountsOK
  BY DEF Init, CountsOK
<1>5. QED
  BY <1>1, <1>3, <1>4 DEF PushInv

LEMMA BeginInv == ASSUME PushInv, NEW n \in Counts, Begin(n) PROVE PushInv'
<1>1. n \in Nat /\ n > 0 /\ series = 0 /\ series' = n
  BY RemoteWriteAssumption DEF Begin
<1>2. /\ DOMAIN state' = Batches(n) /\ DOMAIN attempts' = Batches(n)
      /\ DOMAIN ingested' = Batches(n)
      /\ \A b \in Batches(n) : state'[b] = "queued" /\ attempts'[b] = 0 /\ ingested'[b] = 0
  BY DEF Begin
<1>3. firstErr' \in BOOLEAN /\ expired' \in BOOLEAN
  BY DEF Begin
<1>4. ShapeOK'
  BY <1>1, <1>2, <1>3 DEF Begin, PushInv, ShapeOK
<1>5. Covered(state', "sent") = {} /\ Covered(state', "failed") = {}
  BY <1>2 DEF Covered
<1>6. Cardinality({}) = 0
  BY FS_EmptySet
<1>7. CountsOK'
  <2>1. /\ sent' = 0 /\ failed' = 0 /\ firstErr' = FALSE /\ UNCHANGED status
        /\ offered' = offered + n
    BY DEF Begin
  <2>2. offered' = status'.sent + status'.failed + series'
    BY <1>1, <2>1 DEF PushInv, ShapeOK, CountsOK
  <2>3. QED
    BY <1>1, <1>5, <1>6, <2>1, <2>2 DEF CountsOK
<1>8. \A b \in DOMAIN state' : BatchOK(b)'
  BY <1>2 DEF BatchOK
<1>9. QED
  BY <1>4, <1>7, <1>8 DEF PushInv

\* A step of b that does not return leaves the counters alone.
LEMMA StayInv ==
    ASSUME PushInv, NEW b \in DOMAIN state, state[b] \notin Returned,
           NEW s, s \notin Returned, state' = [state EXCEPT ![b] = s],
           UNCHANGED <<series, outcome, expired, pushes, offered, status>>,
           DOMAIN attempts' = DOMAIN attempts, DOMAIN ingested' = DOMAIN ingested,
           \A c \in DOMAIN state : c # b => UNCHANGED <<attempts[c], ingested[c]>>,
           BatchOK(b)'
    PROVE  PushInv'
<1>1. series # 0
  BY DEF PushInv, ShapeOK, AllReturned, Returned
<1>2. ShapeOK'
  BY <1>1 DEF PushInv, ShapeOK, outcome
<1>3. ASSUME NEW t \in Returned PROVE Covered(state', t) = Covered(state, t)
  <2>1. Covered([state EXCEPT ![b] = s], t) = Covered(state, t)
    BY BatchMoves
  <2>2. QED
    BY <2>1
<1>4. CountsOK'
  BY <1>1, <1>3 DEF PushInv, CountsOK, outcome, Returned
<1>5. \A c \in DOMAIN state' : BatchOK(c)'
  BY DEF PushInv, BatchOK
<1>6. QED
  BY <1>2, <1>4, <1>5 DEF PushInv

LEMMA ReturnInv ==
    ASSUME PushInv, NEW b \in DOMAIN state, state[b] \notin Returned,
           Succeed(b) \/ Fail(b),
           UNCHANGED <<series, expired, pushes, offered, status>>,
           DOMAIN attempts' = DOMAIN attempts, DOMAIN ingested' = DOMAIN ingested,
           \A c \in DOMAIN state : c # b => UNCHANGED <<attempts[c], ingested[c]>>,
           BatchOK(b)'
    PROVE  PushInv'
<1>1. series > 0 /\ series \in Nat /\ DOMAIN state = Batches(series)
  <2>1. series # 0
    BY DEF PushInv, ShapeOK, AllReturned, Returned
  <2>2. QED
    BY <2>1, SeriesIsNat DEF PushInv, ShapeOK
<1>2. Size(b) \in Nat \ {0}
  BY <1>1, SizeIsCardinality
<1>3. CASE Succeed(b)
  <2>1. /\ state' = [state EXCEPT ![b] = "sent"]
        /\ sent' = sent + Size(b) /\ failed' = failed /\ firstErr' = firstErr
    BY <1>3 DEF Succeed
  <2>2. Cardinality(Covered(state', "sent")) = Cardinality(Covered(state, "sent")) + Size(b)
    <3>1. "sent" \in Returned
      BY DEF Returned
    <3>2. QED
      BY <1>1, <2>1, <3>1, BatchReturns
  <2>3. Cardinality(Covered(state', "failed")) = Cardinality(Covered(state, "failed"))
    <3>1. "sent" \in Returned /\ "failed" \in Returned /\ "sent" # "failed"
      BY DEF Returned
    <3>2. QED
      BY <1>1, <2>1, <3>1, BatchReturns
  <2>4. ShapeOK'
    <3>1. DOMAIN state' = DOMAIN state /\ series' = series /\ series # 0
      BY <1>1, <2>1
    <3>2. sent' \in Nat /\ failed' \in Nat /\ firstErr' \in BOOLEAN
      BY <1>2, <2>1 DEF PushInv, ShapeOK
    <3>3. QED
      BY <3>1, <3>2 DEF PushInv, ShapeOK
  <2>5. CountsOK'
    BY <1>1, <1>2, <2>1, <2>2, <2>3 DEF PushInv, ShapeOK, CountsOK
  <2>6. \A c \in DOMAIN state' : BatchOK(c)'
    BY <2>1 DEF PushInv, BatchOK
  <2>7. QED
    BY <2>4, <2>5, <2>6 DEF PushInv
<1>4. CASE Fail(b)
  <2>1. /\ state' = [state EXCEPT ![b] = "failed"]
        /\ failed' = failed + Size(b) /\ sent' = sent /\ firstErr' = TRUE
    BY <1>4 DEF Fail
  <2>2. Cardinality(Covered(state', "failed")) = Cardinality(Covered(state, "failed")) + Size(b)
    <3>1. "failed" \in Returned
      BY DEF Returned
    <3>2. QED
      BY <1>1, <2>1, <3>1, BatchReturns
  <2>3. Cardinality(Covered(state', "sent")) = Cardinality(Covered(state, "sent"))
    <3>1. "failed" \in Returned /\ "sent" \in Returned /\ "failed" # "sent"
      BY DEF Returned
    <3>2. QED
      BY <1>1, <2>1, <3>1, BatchReturns
  <2>4. ShapeOK'
    <3>1. DOMAIN state' = DOMAIN state /\ series' = series /\ series # 0
      BY <1>1, <2>1
    <3>2. sent' \in Nat /\ failed' \in Nat /\ firstErr' \in BOOLEAN
      BY <1>2, <2>1 DEF PushInv, ShapeOK
    <3>3. QED
      BY <3>1, <3>2 DEF PushInv, ShapeOK
  <2>5. CountsOK'
    BY <1>1, <1>2, <2>1, <2>2, <2>3 DEF PushInv, ShapeOK, CountsOK
  <2>6. \A c \in DOMAIN state' : BatchOK(c)'
    BY <2>1 DEF PushInv, BatchOK
  <2>7. QED
    BY <2>4, <2>5, <2>6 DEF PushInv
<1>5. QED
  BY <1>3, <1>4

LEMMA GoroutineInv ==
    ASSUME PushInv, NEW b \in DOMAIN state, Goroutine(b)
    PROVE  PushInv'
<1>1. BatchOK(b) /\ Retries \in Nat
  BY RemoteWriteAssumption DEF PushInv, Retries
<1>2. b \in DOMAIN attempts /\ b \in DOMAIN ingested
  BY DEF PushInv, ShapeOK
<1>3. CASE Acquire(b)
  <2>1. BatchOK(b)'
    BY <1>1, <1>2, <1>3 DEF Acquire, BatchOK, Returned
  <2>2. /\ state[b] \notin Returned /\ state' = [state EXCEPT ![b] = "sending"]
        /\ UNCHANGED <<series, outcome, expired, pushes, offered, status>>
        /\ DOMAIN attempts' = DOMAIN attempts /\ DOMAIN ingested' = DOMAIN ingested
        /\ \A c \in DOMAIN state : c # b => UNCHANGED <<attempts[c], ingested[c]>>
    BY <1>3 DEF Acquire, Returned, PushInv, ShapeOK
  <2>3. "sending" \notin Returned
    BY DEF Returned
  <2>4. QED
    BY <2>1, <2>2, <2>3, StayInv
<1>4. CASE Retry(b)
  <2>1. BatchOK(b)'
    BY <1>1, <1>2, <1>4 DEF Retry, BatchOK, Returned
  <2>2. /\ state[b] \notin Returned /\ state' = [state EXCEPT ![b] = "sending"]
        /\ UNCHANGED <<series, outcome, expired, pushes, offered, status>>
        /\ DOMAIN attempts' = DOMAIN attempts /\ DOMAIN ingested' = DOMAIN ingested
        /\ \A c \in DOMAIN state : c # b => UNCHANGED <<attempts[c], ingested[c]>>
    BY <1>4 DEF Retry, Returned, PushInv, ShapeOK
  <2>3. "sending" \notin Returned
    BY DEF Returned
  <2>4. QED
    BY <2>1, <2>2, <2>3, StayInv
<1>5. CASE Accepted(b)
  <2>1. BatchOK(b)'
    BY <1>1, <1>2, <1>5 DEF Accepted, Succeed, BatchOK, Returned
  <2>2. QED
    BY <1>5, <2>1, ReturnInv DEF Accepted, Returned
<1>6. CASE Refused(b)
  <2>1. BatchOK(b)'
    BY <1>1, <1>2, <1>6 DEF Refused, Fail, BatchOK, Returned
  <2>2. QED
    BY <1>6, <2>1, ReturnInv DEF Refused, Returned
<1>7. CASE Cancel(b)
  <2>1. BatchOK(b)'
    BY <1>1, <1>2, <1>7 DEF Cancel, Fail, BatchOK, Returned
  <2>2. QED
    BY <1>7, <2>1, ReturnInv DEF Cancel, Returned
<1>8. CASE Unanswered(b)
  <2>1. /\ state[b] = "sending" /\ UNCHANGED <<series, attempts, expired, pushes, offered, status>>
        /\ ingested' = [ingested EXCEPT ![b] = @ + 1] \/ UNCHANGED ingested
    BY <1>8 DEF Unanswered
  <2>2. CASE attempts[b] <= Retries /\ state' = [state EXCEPT ![b] = "backoff"] /\ UNCHANGED outcome
    <3>1. BatchOK(b)'
      BY <1>1, <1>2, <2>1, <2>2 DEF BatchOK, Returned
    <3>2. /\ state[b] \notin Returned /\ "backoff" \notin Returned
          /\ DOMAIN attempts' = DOMAIN attempts /\ DOMAIN ingested' = DOMAIN ingested
          /\ \A c \in DOMAIN state : c # b => UNCHANGED <<attempts[c], ingested[c]>>
      BY <2>1 DEF Returned, PushInv, ShapeOK
    <3>3. QED
      BY <2>1, <2>2, <3>1, <3>2, StayInv
  <2>3. CASE Fail(b)
    <3>1. BatchOK(b)'
      BY <1>1, <1>2, <2>1, <2>3 DEF Fail, BatchOK, Returned
    <3>2. /\ state[b] \notin Returned
          /\ DOMAIN attempts' = DOMAIN attempts /\ DOMAIN ingested' = DOMAIN ingested
          /\ \A c \in DOMAIN state : c # b => UNCHANGED <<attempts[c], ingested[c]>>
      BY <2>1 DEF Returned, PushInv, ShapeOK
    <3>3. QED
      BY <2>1, <2>3, <3>1, <3>2, ReturnInv
  <2>4. QED
    BY <1>8, <2>2, <2>3 DEF Unanswered, GiveUpOrWait
<1>9. QED
  BY <1>3, <1>4, <1>5, <1>6, <1>7, <1>8 DEF Goroutine

\* When all batches have returned, the two counters add up to the push.
LEMMA ReturnedAddUp ==
    ASSUME PushInv, series > 0, AllReturned
    PROVE  sent + failed = series
<1>1. series \in Nat /\ DOMAIN state = Batches(series)
  BY SeriesIsNat DEF PushInv, ShapeOK
<1>2. Covered(state, "sent") \cup Covered(state, "failed") = 1 .. series
  <2>1. UNION {Span(b) : b \in DOMAIN state} = 1 .. series
    BY <1>1, BatchesPartition
  <2>2. QED
    BY <2>1 DEF Covered, AllReturned
<1>3. Cardinality(Covered(state, "sent") \cup Covered(state, "failed"))
        = Cardinality(Covered(state, "sent")) + Cardinality(Covered(state, "failed"))
  BY <1>1, CoveredIsFinite, CoveredIsDisjoint, CardinalityOfDisjoint
<1>4. Cardinality(1 .. series) = series
  <2>1. Cardinality(1 .. series) = IF 1 > series THEN 0 ELSE series - 1 + 1
    BY <1>1, FS_Interval
  <2>2. QED
    BY <1>1, <2>1
<1>5. QED
  BY <1>2, <1>3, <1>4 DEF PushInv, CountsOK

LEMMA FinishInv == PushInv /\ Finish => PushInv'
<1> SUFFICES ASSUME PushInv, Finish PROVE PushInv'
  OBVIOUS
<1>1. sent + failed = series /\ series \in Nat
  BY ReturnedAddUp, SeriesIsNat DEF Finish, PushInv
<1>2. /\ series' = 0 /\ AllReturned /\ series > 0
      /\ UNCHANGED <<state, attempts, ingested, firstErr, sent, failed, expired, pushes, offered>>
  BY DEF Finish, batchVars, outcome
<1>3. status.sent + sent \in Nat /\ status.failed + failed \in Nat
  BY DEF PushInv, ShapeOK
<1>4. ASSUME status' \in [sent : Nat, failed : Nat, noError : BOOLEAN],
             status'.sent = status.sent + sent, status'.failed = status.failed + failed,
             failed = 0 => status'.noError = TRUE, failed > 0 => status'.noError = FALSE
      PROVE  PushInv'
  <2>1. ShapeOK'
    <3>1. AllReturned'
      BY <1>2 DEF AllReturned
    <3>2. firstErr' \in BOOLEAN /\ expired' \in BOOLEAN
      BY <1>2 DEF PushInv, ShapeOK
    <3>3. /\ DOMAIN state' = DOMAIN attempts' /\ DOMAIN state' = DOMAIN ingested'
          /\ sent' \in Nat /\ failed' \in Nat /\ offered' \in Nat
      BY <1>2 DEF PushInv, ShapeOK
    <3>4. QED
      BY <1>2, <1>4, <3>1, <3>2, <3>3 DEF ShapeOK
  <2>2. CountsOK'
    BY <1>1, <1>2, <1>4 DEF PushInv, ShapeOK, CountsOK
  <2>3. \A b \in DOMAIN state' : BatchOK(b)'
    BY <1>2 DEF PushInv, BatchOK
  <2>4. QED
    BY <2>1, <2>2, <2>3 DEF PushInv
<1>5. CASE failed = 0
  <2>1. firstErr = FALSE
    BY <1>5 DEF PushInv, CountsOK
  <2>2. status' = [sent |-> status.sent + sent, failed |-> status.failed + failed,
                   noError |-> TRUE]
    BY <2>1 DEF Finish
  <2>3. QED
    BY <1>3, <1>4, <1>5, <2>2
<1>6. CASE failed > 0
  <2>1. firstErr = TRUE
    BY <1>6 DEF PushInv, CountsOK
  <2>2. status' = [sent |-> status.sent + sent, failed |-> status.failed + failed,
                   noError |-> FALSE]
    BY <2>1 DEF Finish
  <2>3. QED
    BY <1>3, <1>4, <1>6, <2>2
<1>7. failed \in Nat
  BY DEF PushInv, ShapeOK
<1>8. QED
  BY <1>5, <1>6, <1>7

LEMMA PushInvStep == PushInv /\ [Next]_vars => PushInv'
<1> SUFFICES ASSUME PushInv, [Next]_vars PROVE PushInv'
  OBVIOUS
<1>1. CASE Expire
  BY <1>1 DEF Expire, PushInv, ShapeOK, CountsOK, BatchOK, AllReturned, batchVars, outcome
<1>2. CASE UNCHANGED vars
  BY <1>2 DEF vars, PushInv, ShapeOK, CountsOK, BatchOK, AllReturned, batchVars, outcome
<1>3. QED
  BY <1>1, <1>2, BeginInv, GoroutineInv, FinishInv DEF Next

LEMMA PushSafe == SafeSpec => []PushInv
BY PushInvInit, PushInvStep, PTL DEF SafeSpec

(***************************************************************************)
(* Type correctness: no batch is sent more often than its retries allow,   *)
(* or taken more often than it was sent.                                   *)
(***************************************************************************)
THEOREM RemoteWriteTypeOK == SafeSpec => []TypeOK
<1>1. PushInv => TypeOK
  <2> SUFFICES ASSUME PushInv PROVE TypeOK
    OBVIOUS
  <2>1. Retries \in Nat
    BY RemoteWriteAssumption DEF Retries
  <2>2. \A b \in DOMAIN state :
          /\ state[b] \in {"queued", "sending", "backoff", "sent", "failed"}
          /\ attempts[b] \in 0 .. Retries + 1
          /\ ingested[b] \in 0 .. attempts[b]
    BY <2>1 DEF PushInv, BatchOK, Returned
  <2>3. {firstErr, expired, status.noError} \subseteq BOOLEAN
    BY DEF PushInv, ShapeOK
  <2>4. {sent, failed, offered, status.sent, status.failed} \subseteq Nat
    BY DEF PushInv, ShapeOK
  <2>5. QED
    BY <2>2, <2>3, <2>4 DEF TypeOK, PushInv, ShapeOK
<1>2. QED
  BY <1>1, PushSafe, PTL

(***************************************************************************)
(* Between pushes every series ever offered is counted exactly once, for   *)
(* every batch size, number of shards and number of retries.               *)
(***************************************************************************)
THEOREM RemoteWriteEverySeriesCounted == SafeSpec => []EverySeriesCounted
<1>1. PushInv => EverySeriesCounted
  BY DEF PushInv, ShapeOK, CountsOK, EverySeriesCounted
<1>2. QED
  BY <1>1, PushSafe, PTL

(***************************************************************************)
(* What is counted as sent has reached the endpoint, although answers may  *)
(* be lost and time may run out in the middle of an attempt.               *)
(***************************************************************************)
THEOREM RemoteWriteSentIsIngested == SafeSpec => []SentIsIngested
<1>1. PushInv => SentIsIngested
  BY DEF PushInv, BatchOK, SentIsIngested
<1>2. QED
  BY <1>1, PushSafe, PTL
=============================================================================
