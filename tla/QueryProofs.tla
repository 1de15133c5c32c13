----------------------------- MODULE QueryProofs ----------------------------
(***************************************************************************)
(* Lemmas about the operators of Query: an arrangement is in order, a      *)
(* query keeps the rows that match, a page is a piece of a list, sums over *)
(* a sequence and the slope made of them, the totals as sums over a choice *)
(* of the rows, and that every comparison of rows orders them totally.     *)
(***************************************************************************)
EXTENDS Query, FiniteSetTheorems, SequenceTheorems, TLAPS

-----------------------------------------------------------------------------
\* Arranging a finite set

StrictTotal(S, order) ==
    /\ \A x \in S : <<x, x>> \notin order
    /\ \A x, y, z \in S : <<x, y>> \in order /\ <<y, z>> \in order => <<x, z>> \in order
    /\ \A x, y \in S : x # y => <<x, y>> \in order \/ <<y, x>> \in order

\* The members of S that go before x.
Before(S, order, x) == {y \in S : <<y, x>> \in order}

(***************************************************************************)
(* Of two members the earlier one has fewer before it.                     *)
(***************************************************************************)
LEMMA EarlierHasFewerBefore ==
  ASSUME NEW S, IsFiniteSet(S), NEW order, StrictTotal(S, order),
         NEW x \in S, NEW y \in S, <<x, y>> \in order
  PROVE  Cardinality(Before(S, order, x)) + 1 <= Cardinality(Before(S, order, y))
<1> DEFINE X == Before(S, order, x)
           Y == Before(S, order, y)
<1>1. X \in SUBSET S /\ Y \in SUBSET S /\ x \notin X
  BY DEF Before, StrictTotal
<1>2. IsFiniteSet(X) /\ IsFiniteSet(Y)
  BY <1>1, FS_Subset
<1>3. IsFiniteSet(X \cup {x}) /\ Cardinality(X \cup {x}) = Cardinality(X) + 1
  BY <1>1, <1>2, FS_AddElement
<1>4. X \cup {x} \in SUBSET Y
  BY DEF Before, StrictTotal
<1>5. QED
  BY <1>2, <1>3, <1>4, FS_Subset

(***************************************************************************)
(* The arrangement of a finite set is in order.                            *)
(***************************************************************************)
LEMMA ArrangementIsInOrder ==
  ASSUME NEW S, IsFiniteSet(S), NEW order, StrictTotal(S, order)
  PROVE  /\ Arranged(S, order) \in [1 .. Cardinality(S) -> S]
         /\ \A m, n \in 1 .. Cardinality(S) :
               m < n => <<Arranged(S, order)[m], Arranged(S, order)[n]>> \in order
<1> DEFINE N == Cardinality(S)
           rank == [x \in S |-> Cardinality(Before(S, order, x)) + 1]
<1>1. N \in Nat
  BY FS_CardinalityType
<1>2. \A x \in S : rank[x] \in 1 .. N
  <2> TAKE x \in S
  <2>1. Before(S, order, x) \in SUBSET S /\ x \notin Before(S, order, x)
    BY DEF Before, StrictTotal
  <2>2. /\ IsFiniteSet(Before(S, order, x))
        /\ Cardinality(Before(S, order, x)) <= N
        /\ Cardinality(S) = Cardinality(Before(S, order, x)) => S = Before(S, order, x)
    BY <2>1, FS_Subset
  <2>3. Cardinality(Before(S, order, x)) \in Nat
    BY <2>2, FS_CardinalityType
  <2>4. QED
    BY <1>1, <2>1, <2>2, <2>3
<1>3. \A x, y \in S : <<x, y>> \in order => rank[x] < rank[y]
  <2> TAKE x, y \in S
  <2> HAVE <<x, y>> \in order
  <2>1. Cardinality(Before(S, order, x)) + 1 <= Cardinality(Before(S, order, y))
    BY EarlierHasFewerBefore
  <2>2. rank[x] \in Int /\ rank[y] \in Int
    BY <1>1, <1>2
  <2>3. rank[x] = Cardinality(Before(S, order, x)) + 1 /\ rank[y] = Cardinality(Before(S, order, y)) + 1
    OBVIOUS
  <2>4. Before(S, order, x) \in SUBSET S /\ Before(S, order, y) \in SUBSET S
    BY DEF Before
  <2>5. Cardinality(Before(S, order, x)) \in Nat /\ Cardinality(Before(S, order, y)) \in Nat
    BY <2>4, FS_Subset, FS_CardinalityType
  <2> HIDE DEF rank
  <2>6. QED
    BY <2>1, <2>3, <2>5
<1>4. rank \in [S -> 1 .. N]
  BY <1>2
<1> HIDE DEF rank
<1>5. \A x, y \in S : rank[x] = rank[y] => x = y
  <2> TAKE x, y \in S
  <2>1. rank[x] \in Int /\ rank[y] \in Int
    BY <1>1, <1>2
  <2>2. (<<x, y>> \notin order /\ <<y, x>> \notin order) \/ rank[x] # rank[y]
    BY <1>3, <2>1
  <2>3. QED
    BY <2>2 DEF StrictTotal
<1>6. rank \in Injection(S, 1 .. N)
  BY <1>4, <1>5 DEF Injection, IsInjective
<1>7. IsFiniteSet(1 .. N) /\ Cardinality(1 .. N) = N
  BY <1>1, FS_Interval
<1>8. rank \in Surjection(S, 1 .. N)
  BY <1>6, <1>7, FS_Injection
<1>9. \A n \in 1 .. N : \E x \in S : rank[x] = n
  BY <1>8 DEF Surjection
<1> DEFINE seq == [n \in 1 .. N |-> CHOOSE x \in S : rank[x] = n]
<1>10. \A n \in 1 .. N : seq[n] \in S /\ rank[seq[n]] = n
  BY <1>9
<1>11. \A m, n \in 1 .. N : m < n => <<seq[m], seq[n]>> \in order
  <2> TAKE m, n \in 1 .. N
  <2> HAVE m < n
  <2>1. /\ seq[m] \in S /\ rank[seq[m]] = m
        /\ seq[n] \in S /\ rank[seq[n]] = n
    BY <1>10
  <2> HIDE DEF seq
  <2>2. CASE <<seq[n], seq[m]>> \in order
    BY <1>1, <1>3, <2>1, <2>2
  <2>3. CASE seq[n] = seq[m]
    BY <1>1, <2>1, <2>3
  <2>4. QED
    BY <2>1, <2>2, <2>3 DEF StrictTotal
<1>12. seq \in [1 .. N -> S]
  BY <1>10
<1>13. \A x \in S, n \in 1 .. N :
          rank[x] = n <=> Cardinality({y \in S : <<y, x>> \in order}) = n - 1
  <2> TAKE x \in S, n \in 1 .. N
  <2>1. rank[x] = Cardinality({y \in S : <<y, x>> \in order}) + 1
    BY DEF rank, Before
  <2>2. {y \in S : <<y, x>> \in order} \in SUBSET S
    OBVIOUS
  <2>3. Cardinality({y \in S : <<y, x>> \in order}) \in Nat
    BY <2>2, FS_Subset, FS_CardinalityType
  <2>4. QED
    BY <1>1, <2>1, <2>3
<1>14. Arranged(S, order) = seq
  BY <1>13 DEF Arranged
<1> HIDE DEF seq
<1>15. QED
  BY <1>11, <1>12, <1>14

(***************************************************************************)
(* The arrangement has every member of the set once, in the given order.   *)
(***************************************************************************)
LEMMA ArrangedInOrder ==
  ASSUME NEW S, IsFiniteSet(S), NEW order, StrictTotal(S, order)
  PROVE  /\ Arranged(S, order) \in Bijection(1 .. Cardinality(S), S)
         /\ \A m, n \in 1 .. Cardinality(S) :
               m < n => <<Arranged(S, order)[m], Arranged(S, order)[n]>> \in order
<1> DEFINE N == Cardinality(S)
           seq == Arranged(S, order)
<1>1. N \in Nat
  BY FS_CardinalityType
<1>2. seq \in [1 .. N -> S] /\ \A m, n \in 1 .. N : m < n => <<seq[m], seq[n]>> \in order
  BY ArrangementIsInOrder
<1> HIDE DEF seq
<1>3. \A m, n \in 1 .. N : seq[m] = seq[n] => m = n
  <2> TAKE m, n \in 1 .. N
  <2> HAVE seq[m] = seq[n]
  <2>1. seq[m] \in S /\ <<seq[m], seq[n]>> \notin order /\ <<seq[n], seq[m]>> \notin order
    BY <1>2 DEF StrictTotal
  <2>2. QED
    BY <1>1, <1>2, <2>1
<1>4. seq \in Injection(1 .. N, S)
  BY <1>2, <1>3 DEF Injection, IsInjective
<1>5. Cardinality(1 .. N) = N
  BY <1>1, FS_Interval
<1>6. seq \in Surjection(1 .. N, S)
  BY <1>4, <1>5, FS_Injection
<1>7. QED
  BY <1>2, <1>4, <1>6 DEF seq, Bijection

-----------------------------------------------------------------------------
\* The rows that match

(***************************************************************************)
(* A query keeps each volume that matches once, in the order of the        *)
(* snapshot, and nothing else.                                             *)
(***************************************************************************)
LEMMA RowsAreSelected ==
  ASSUME NEW V, NEW volumes \in Seq(V), NEW q
  PROVE  /\ Rows(volumes, q) \in Seq(V)
         /\ Len(Rows(volumes, q)) = Cardinality(Selected(volumes, q))
         /\ Len(Rows(volumes, q)) <= Len(volumes)
         /\ \E at \in Bijection(1 .. Len(Rows(volumes, q)), Selected(volumes, q)) :
               /\ \A m, n \in 1 .. Len(Rows(volumes, q)) : m < n => at[m] < at[n]
               /\ \A n \in 1 .. Len(Rows(volumes, q)) : Rows(volumes, q)[n] = volumes[at[n]]
<1> DEFINE chosen == Selected(volumes, q)
           order  == {p \in chosen \X chosen : p[1] < p[2]}
           placed == Arranged(chosen, order)
           N      == Cardinality(chosen)
<1>1. DOMAIN volumes = 1 .. Len(volumes) /\ Len(volumes) \in Nat
  OBVIOUS
<1>2. IsFiniteSet(DOMAIN volumes) /\ Cardinality(DOMAIN volumes) = Len(volumes)
  BY <1>1, FS_Interval
<1>3. chosen \in SUBSET DOMAIN volumes
  BY DEF Selected
<1>4. IsFiniteSet(chosen) /\ N <= Len(volumes)
  BY <1>2, <1>3, FS_Subset
<1>5. N \in Nat
  BY <1>4, FS_CardinalityType
<1>6. chosen \subseteq Int
  BY <1>1, <1>3
<1> HIDE DEF chosen
<1>7. StrictTotal(chosen, order)
  BY <1>6 DEF StrictTotal
<1>8. /\ placed \in Bijection(1 .. N, chosen)
      /\ \A m, n \in 1 .. N : m < n => <<placed[m], placed[n]>> \in order
  BY <1>4, <1>7, ArrangedInOrder
<1> HIDE DEF placed
<1>9. placed \in [1 .. N -> chosen]
  BY <1>8 DEF Bijection, Injection
<1>10. Rows(volumes, q) = [n \in 1 .. N |-> volumes[placed[n]]]
  BY DEF Rows, chosen, placed
<1> HIDE DEF N
<1>11. \A n \in 1 .. N : volumes[placed[n]] \in V
  BY <1>1, <1>3, <1>9
<1>12. Rows(volumes, q) \in Seq(V) /\ Len(Rows(volumes, q)) = N
  BY <1>5, <1>10, <1>11
<1>13. \A m, n \in 1 .. N : m < n => placed[m] < placed[n]
  BY <1>8
<1>14. \A n \in 1 .. N : Rows(volumes, q)[n] = volumes[placed[n]]
  BY <1>10
<1>15. QED
  BY <1>4, <1>8, <1>12, <1>13, <1>14 DEF N, chosen

(***************************************************************************)
(* The set of the rows is the set of the volumes that match.               *)
(***************************************************************************)
LEMMA RowsMatch ==
  ASSUME NEW V, NEW volumes \in Seq(V), NEW q
  PROVE  /\ \A n \in DOMAIN Rows(volumes, q) :
               \E i \in Selected(volumes, q) : Rows(volumes, q)[n] = volumes[i]
         /\ \A i \in Selected(volumes, q) :
               \E n \in DOMAIN Rows(volumes, q) : Rows(volumes, q)[n] = volumes[i]
<1>1. DOMAIN Rows(volumes, q) = 1 .. Len(Rows(volumes, q))
  BY RowsAreSelected
<1>2. PICK at \in Bijection(1 .. Len(Rows(volumes, q)), Selected(volumes, q)) :
        \A n \in 1 .. Len(Rows(volumes, q)) : Rows(volumes, q)[n] = volumes[at[n]]
  BY RowsAreSelected
<1>3. /\ \A n \in 1 .. Len(Rows(volumes, q)) : at[n] \in Selected(volumes, q)
      /\ \A i \in Selected(volumes, q) : \E n \in 1 .. Len(Rows(volumes, q)) : at[n] = i
  BY <1>2 DEF Bijection, Injection, Surjection
<1>4. QED
  BY <1>1, <1>2, <1>3

-----------------------------------------------------------------------------
\* Pages

LEMMA PageEndBound ==
  ASSUME NEW n \in Nat, NEW offset \in Nat, NEW limit \in Nat
  PROVE  /\ PageEnd(n, offset, limit) \in 0 .. n
         /\ limit > 0 => PageEnd(n, offset, limit) <= offset + limit
         /\ limit > 0 /\ PageEnd(n, offset, limit) < n => PageEnd(n, offset, limit) = offset + limit
         /\ limit = 0 => PageEnd(n, offset, limit) = n
BY DEF PageEnd

(***************************************************************************)
(* A page has the rows from its offset on, as many as its limit allows.    *)
(***************************************************************************)
LEMMA PageIsAPiece ==
  ASSUME NEW V, NEW rows \in Seq(V), NEW offset \in Nat, NEW limit \in Nat
  PROVE  LET page == Page(rows, offset, limit)
         IN  /\ page \in Seq(V)
             /\ limit > 0 => Len(page) <= limit
             /\ \A k \in Nat \ {0} : (limit = 0 \/ k <= limit) =>
                   (k <= Len(page) <=> offset + k <= Len(rows))
             /\ \A k \in 1 .. Len(page) : page[k] = rows[offset + k]
<1> DEFINE end  == PageEnd(Len(rows), offset, limit)
           page == Page(rows, offset, limit)
<1>1. Len(rows) \in Nat
  OBVIOUS
<1>2. /\ end \in 0 .. Len(rows)
      /\ limit > 0 => end <= offset + limit
      /\ limit > 0 /\ end < Len(rows) => end = offset + limit
      /\ limit = 0 => end = Len(rows)
  BY <1>1, PageEndBound
<1>3. page = SubSeq(rows, offset + 1, end)
  BY DEF Page
<1> HIDE DEF end, page
<1>4. CASE offset < end
  <2>1. /\ page \in Seq(V)
        /\ Len(page) = end - offset
        /\ \A k \in 1 .. end - offset : page[k] = rows[offset + k]
    BY <1>1, <1>2, <1>3, <1>4, SubSeqProperties
  <2>2. QED
    BY <1>1, <1>2, <1>4, <2>1 DEF page
<1>5. CASE end <= offset
  <2>1. page = << >>
    BY <1>1, <1>2, <1>3, <1>5
  <2>2. QED
    BY <1>1, <1>2, <1>5, <2>1 DEF page
<1>6. QED
  BY <1>2, <1>4, <1>5

-----------------------------------------------------------------------------
\* The comparisons

LEMMA StrOrders ==
  /\ \A x, y \in Int : Str(x, y) \in {-1, 0, 1} /\ Str(y, x) = -Str(x, y)
  /\ \A x, y \in Int : Str(x, y) <= 0 <=> x <= y
  /\ \A x, y \in Int : Str(x, y) = 0 <=> x = y
BY DEF Str

LEMMA StatusHasRank ==
  ASSUME NEW status \in ToSet(Statuses)
  PROVE  StatusRank(status) \in Int
<1>1. DOMAIN Statuses = 1 .. 7
  BY DEF Statuses
<1>2. \E i \in 1 .. 7 : Statuses[i] = status
  BY <1>1 DEF ToSet
<1>3. QED
  BY <1>1, <1>2 DEF StatusRank

(***************************************************************************)
(* The first difference of four.                                           *)
(***************************************************************************)
LEMMA FirstOfFour ==
  ASSUME NEW a \in Int, NEW b \in Int, NEW c \in Int, NEW d \in Int
  PROVE  FirstOf(<<a, b, c, d>>) =
            IF a # 0 THEN a ELSE IF b # 0 THEN b ELSE IF c # 0 THEN c ELSE d
<1> DEFINE s == <<a, b, c, d>>
           First(i) == s[i] # 0 /\ \A j \in 1 .. i - 1 : s[j] = 0
<1>1. DOMAIN s = 1 .. 4 /\ s[1] = a /\ s[2] = b /\ s[3] = c /\ s[4] = d
  OBVIOUS
<1> HIDE DEF s
<1>2. CASE \A i \in DOMAIN s : s[i] = 0
  <2>1. a = 0 /\ b = 0 /\ c = 0 /\ d = 0
    BY <1>1, <1>2
  <2>2. FirstOf(s) = 0
    BY <1>2 DEF FirstOf
  <2>3. QED
    BY <2>1, <2>2 DEF s
<1>3. CASE ~\A i \in DOMAIN s : s[i] = 0
  <2> DEFINE i == CHOOSE i \in DOMAIN s : First(i)
  <2>1. \E k \in DOMAIN s : First(k)
    <3>1. CASE a # 0
      BY <1>1, <3>1
    <3>2. CASE a = 0 /\ b # 0
      BY <1>1, <3>2
    <3>3. CASE a = 0 /\ b = 0 /\ c # 0
      BY <1>1, <3>3
    <3>4. CASE a = 0 /\ b = 0 /\ c = 0 /\ d # 0
      BY <1>1, <3>4
    <3>5. QED
      BY <1>1, <1>3, <3>1, <3>2, <3>3, <3>4
  <2>2. i \in 1 .. 4 /\ s[i] # 0 /\ \A j \in 1 .. i - 1 : s[j] = 0
    BY <1>1, <2>1
  <2>3. FirstOf(s) = s[i]
    BY <1>3 DEF FirstOf
  <2> HIDE DEF i
  <2>4. s[i] = IF a # 0 THEN a ELSE IF b # 0 THEN b ELSE IF c # 0 THEN c ELSE d
    BY <1>1, <2>2
  <2>5. QED
    BY <2>3, <2>4 DEF s
<1>4. QED
  BY <1>2, <1>3

LEMMA UnknownOrders ==
  ASSUME NEW u \in Volume, NEW v \in Volume, NEW w \in Volume
  PROVE  /\ CompareUnknown(v, w) \in Int
         /\ CompareUnknown(w, v) = -CompareUnknown(v, w)
         /\ CompareUnknown(u, v) <= 0 /\ CompareUnknown(v, w) <= 0 => CompareUnknown(u, w) <= 0
<1> DEFINE R(x) == StatusRank(x.status)
<1>1. \A x \in Volume : R(x) \in Int /\ x.name \in Int /\ x.namespace \in Int /\ x.cluster \in Int
  BY StatusHasRank DEF Volume
<1>2. \A x, y \in Volume :
         CompareUnknown(x, y) = IF R(x) < R(y) THEN -1 ELSE IF R(x) > R(y) THEN 1
                           ELSE IF x.name < y.name THEN -1 ELSE IF x.name > y.name THEN 1
                           ELSE IF x.namespace < y.namespace THEN -1
                           ELSE IF x.namespace > y.namespace THEN 1
                           ELSE IF x.cluster < y.cluster THEN -1
                           ELSE IF x.cluster > y.cluster THEN 1 ELSE 0
  BY <1>1, FirstOfFour DEF CompareUnknown, Str
<1> HIDE DEF R
<1>3. QED
  BY <1>1, <1>2

-----------------------------------------------------------------------------
\* Sums

(***************************************************************************)
(* Induction, for a set of naturals instead of a predicate.                *)
(***************************************************************************)
LEMMA InductionSet ==
  ASSUME NEW K \in SUBSET Nat, 0 \in K, \A k \in K : k + 1 \in K
  PROVE  \A n \in Nat : n \in K
<1> SUFFICES ASSUME Nat \ K # {} PROVE FALSE
  OBVIOUS
<1> DEFINE R == {ss \in Nat \X Nat : ss[1] < ss[2]}
           T == Nat \ K
<1>1. IsWellFoundedOn(R, Nat)
  BY NatLessThanWellFounded DEF OpToRel
<1> HIDE DEF R
<1>2. T \subseteq Nat /\ T # {}
  OBVIOUS
<1> HIDE DEF T
<1>3. PICK x \in T : \A y \in T : <<y, x>> \notin R
  BY <1>1, <1>2, WFMin, Zenon
<1>4. x \in Nat \ {0}
  BY <1>3 DEF T
<1>5. x - 1 \in T
  <2>1. x - 1 \in Nat /\ x \notin K
    BY <1>3, <1>4 DEF T
  <2>2. x - 1 \in K => (x - 1) + 1 \in K
    OBVIOUS
  <2>3. (x - 1) + 1 = x
    BY <1>4
  <2>4. QED
    BY <2>1, <2>2, <2>3 DEF T
<1>6. <<x - 1, x>> \in R
  <2>1. <<x - 1, x>> \in Nat \X Nat /\ <<x - 1, x>>[1] = x - 1 /\ <<x - 1, x>>[2] = x
    BY <1>4
  <2>2. x - 1 < x
    BY <1>4
  <2>3. QED
    BY <2>1, <2>2 DEF R
<1>7. QED
  BY <1>3, <1>5, <1>6

\* The sums of the first members of f.
PartialSums(s, f, n) == s = [i \in 0 .. n |-> IF i = 0 THEN 0 ELSE s[i - 1] + f[i]]

LEMMA PartialSumsExist ==
  ASSUME NEW f
  PROVE  \A n \in Nat : \E s : PartialSums(s, f, n)
<1> DEFINE K == {n \in Nat : \E s : PartialSums(s, f, n)}
<1>1. 0 \in K
  <2> DEFINE s == [i \in 0 .. 0 |-> 0]
  <2>1. PartialSums(s, f, 0)
    BY DEF PartialSums
  <2>2. QED
    BY <2>1
<1>2. ASSUME NEW k \in K PROVE k + 1 \in K
  <2>1. k \in Nat
    OBVIOUS
  <2>2. PICK s : PartialSums(s, f, k)
    OBVIOUS
  <2> DEFINE t == [i \in 0 .. k + 1 |-> IF i = k + 1 THEN s[k] + f[k + 1] ELSE s[i]]
  <2>3. \A i \in 0 .. k : t[i] = s[i]
    BY <2>1
  <2>4. t[k + 1] = s[k] + f[k + 1]
    BY <2>1
  <2>5. \A i \in 0 .. k : s[i] = IF i = 0 THEN 0 ELSE s[i - 1] + f[i]
    BY <2>2 DEF PartialSums
  <2>6. t = [i \in 0 .. k + 1 |-> t[i]]
    OBVIOUS
  <2> HIDE DEF t
  <2>7. \A i \in 0 .. k + 1 : t[i] = IF i = 0 THEN 0 ELSE t[i - 1] + f[i]
    <3> TAKE i \in 0 .. k + 1
    <3>1. CASE i = k + 1
      <4>1. i # 0 /\ i - 1 = k /\ k \in 0 .. k
        BY <2>1, <3>1
      <4>2. QED
        BY <2>3, <2>4, <3>1, <4>1
    <3>2. CASE i \in 1 .. k
      <4>1. i # 0 /\ i - 1 \in 0 .. k /\ i \in 0 .. k
        BY <2>1, <3>2
      <4>2. QED
        BY <2>3, <2>5, <4>1
    <3>3. CASE i = 0
      BY <2>1, <2>3, <2>5, <3>3
    <3>4. QED
      BY <2>1, <3>1, <3>2, <3>3
  <2>8. PartialSums(t, f, k + 1)
    BY <2>6, <2>7 DEF PartialSums
  <2>9. QED
    BY <2>1, <2>8
<1> HIDE DEF K
<1>3. \A n \in Nat : n \in K
  <2>1. K \in SUBSET Nat
    BY DEF K
  <2>2. QED
    BY <1>1, <1>2, <2>1, InductionSet
<1>4. QED
  BY <1>3 DEF K

(***************************************************************************)
(* The partial sums are unique.                                            *)
(***************************************************************************)
LEMMA PartialSumsAgree ==
  ASSUME NEW f, NEW g, NEW m \in Nat, NEW n \in Nat, m <= n,
         \A i \in 1 .. m : f[i] = g[i],
         NEW s, PartialSums(s, f, m), NEW t, PartialSums(t, g, n)
  PROVE  \A i \in 0 .. m : s[i] = t[i]
<1> DEFINE K == {k \in Nat : k <= m => s[k] = t[k]}
<1>1. /\ \A i \in 0 .. m : s[i] = IF i = 0 THEN 0 ELSE s[i - 1] + f[i]
      /\ \A i \in 0 .. n : t[i] = IF i = 0 THEN 0 ELSE t[i - 1] + g[i]
  BY DEF PartialSums
<1>2. 0 \in K
  <2>1. 0 \in 0 .. m /\ 0 \in 0 .. n
    OBVIOUS
  <2>2. s[0] = 0 /\ t[0] = 0
    BY <1>1, <2>1
  <2>3. QED
    BY <2>2
<1>3. ASSUME NEW k \in K PROVE k + 1 \in K
  <2>1. k \in Nat /\ (k <= m => s[k] = t[k])
    OBVIOUS
  <2>2. CASE k + 1 <= m
    <3>1. /\ k + 1 \in 0 .. m /\ k + 1 \in 0 .. n /\ k + 1 # 0 /\ (k + 1) - 1 = k
          /\ k + 1 \in 1 .. m /\ k <= m
      BY <2>1, <2>2
    <3>2. s[k + 1] = s[k] + f[k + 1] /\ t[k + 1] = t[k] + g[k + 1]
      BY <1>1, <3>1
    <3>3. QED
      BY <2>1, <3>1, <3>2
  <2>3. CASE ~(k + 1 <= m)
    BY <2>1, <2>3
  <2>4. QED
    BY <2>2, <2>3
<1> HIDE DEF K
<1>4. \A k \in Nat : k \in K
  <2>1. K \in SUBSET Nat
    BY DEF K
  <2>2. QED
    BY <1>2, <1>3, <2>1, InductionSet
<1>5. QED
  BY <1>4 DEF K

LEMMA SumOfPartial ==
  ASSUME NEW f, NEW n \in Nat
  PROVE  \E s : PartialSums(s, f, n) /\ SumOf(f, n) = s[n]
<1> DEFINE s == CHOOSE s : PartialSums(s, f, n)
<1>1. PartialSums(s, f, n)
  BY PartialSumsExist
<1>2. SumOf(f, n) = s[n]
  BY DEF SumOf, PartialSums
<1>3. QED
  BY <1>1, <1>2

(***************************************************************************)
(* A sum depends on its members alone.                                     *)
(***************************************************************************)
LEMMA SumOfAgrees ==
  ASSUME NEW f, NEW g, NEW n \in Nat, \A i \in 1 .. n : f[i] = g[i]
  PROVE  SumOf(f, n) = SumOf(g, n)
<1>1. PICK s : PartialSums(s, f, n) /\ SumOf(f, n) = s[n]
  BY SumOfPartial
<1>2. PICK t : PartialSums(t, g, n) /\ SumOf(g, n) = t[n]
  BY SumOfPartial
<1>3. \A i \in 0 .. n : s[i] = t[i]
  BY <1>1, <1>2, PartialSumsAgree
<1>4. QED
  BY <1>1, <1>2, <1>3

(***************************************************************************)
(* The recursion by which a sum is defined.                                *)
(***************************************************************************)
LEMMA SumOfNext ==
  ASSUME NEW f
  PROVE  /\ SumOf(f, 0) = 0
         /\ \A n \in Nat : SumOf(f, n + 1) = SumOf(f, n) + f[n + 1]
<1>1. SumOf(f, 0) = 0
  <2>1. PICK s : PartialSums(s, f, 0) /\ SumOf(f, 0) = s[0]
    BY SumOfPartial
  <2>2. s[0] = 0
    BY <2>1 DEF PartialSums
  <2>3. QED
    BY <2>1, <2>2
<1>2. ASSUME NEW n \in Nat PROVE SumOf(f, n + 1) = SumOf(f, n) + f[n + 1]
  <2>1. PICK s : PartialSums(s, f, n) /\ SumOf(f, n) = s[n]
    BY SumOfPartial
  <2>2. PICK t : PartialSums(t, f, n + 1) /\ SumOf(f, n + 1) = t[n + 1]
    BY SumOfPartial
  <2>3. \A i \in 0 .. n : s[i] = t[i]
    <3> SUFFICES ASSUME NEW k \in Nat, n <= k, PartialSums(t, f, k)
                 PROVE  \A i \in 0 .. n : s[i] = t[i]
      BY <2>2
    <3>1. \A g : (\A i \in 1 .. n : f[i] = g[i]) /\ PartialSums(t, g, k) =>
                 \A i \in 0 .. n : s[i] = t[i]
      BY <2>1, PartialSumsAgree
    <3>2. QED
      BY <3>1
  <2>4. t[n + 1] = t[n] + f[n + 1]
    <3>1. \A i \in 0 .. n + 1 : t[i] = IF i = 0 THEN 0 ELSE t[i - 1] + f[i]
      BY <2>2 DEF PartialSums
    <3>2. n + 1 \in 0 .. n + 1 /\ n + 1 # 0 /\ (n + 1) - 1 = n
      OBVIOUS
    <3>3. QED
      BY <3>1, <3>2
  <2>5. QED
    BY <2>1, <2>2, <2>3, <2>4
<1>3. QED
  BY <1>1, <1>2

LEMMA SumOfType ==
  ASSUME NEW n \in Nat, NEW f, \A i \in 1 .. n : f[i] \in Int
  PROVE  \A k \in 0 .. n : SumOf(f, k) \in Int
<1> DEFINE K == {k \in Nat : k <= n => SumOf(f, k) \in Int}
<1>1. 0 \in K
  BY SumOfNext
<1>2. ASSUME NEW k \in K PROVE k + 1 \in K
  <2>1. CASE k + 1 <= n
    <3>1. k \in Nat /\ k <= n /\ k + 1 \in 1 .. n
      BY <2>1
    <3>2. SumOf(f, k) \in Int /\ f[k + 1] \in Int
      BY <3>1
    <3>3. SumOf(f, k + 1) = SumOf(f, k) + f[k + 1]
      BY <3>1, SumOfNext
    <3>4. QED
      BY <3>1, <3>2, <3>3
  <2>2. CASE ~(k + 1 <= n)
    BY <2>2
  <2>3. QED
    BY <2>1, <2>2
<1> HIDE DEF K
<1>3. \A k \in Nat : k \in K
  <2>1. K \in SUBSET Nat
    BY DEF K
  <2>2. QED
    BY <1>1, <1>2, <2>1, InductionSet
<1>4. QED
  BY <1>3 DEF K

(***************************************************************************)
(* No member of a sum of naturals is more than the sum.                    *)
(***************************************************************************)
LEMMA SumOfNaturals ==
  ASSUME NEW n \in Nat, NEW f, \A i \in 1 .. n : f[i] \in Nat
  PROVE  \A k \in 0 .. n : SumOf(f, k) \in Nat /\ \A i \in 1 .. k : f[i] <= SumOf(f, k)
<1> DEFINE Large(k) == SumOf(f, k) \in Nat /\ \A i \in 1 .. k : f[i] <= SumOf(f, k)
           K == {k \in Nat : k <= n => Large(k)}
<1>1. 0 \in K
  BY SumOfNext
<1>2. ASSUME NEW k \in K PROVE k + 1 \in K
  <2>1. CASE k + 1 <= n
    <3>1. k \in Nat /\ k <= n /\ k + 1 \in 1 .. n
      BY <2>1
    <3>2. Large(k) /\ f[k + 1] \in Nat
      BY <3>1
    <3>3. SumOf(f, k + 1) = SumOf(f, k) + f[k + 1]
      BY <3>1, SumOfNext
    <3>4. \A i \in 1 .. k : f[i] \in Nat
      BY <3>1
    <3>5. \A i \in 1 .. k + 1 : i \in 1 .. k \/ i = k + 1
      BY <3>1
    <3>6. Large(k + 1)
      BY <3>2, <3>3, <3>4, <3>5
    <3>7. QED
      BY <3>1, <3>6
  <2>2. CASE ~(k + 1 <= n)
    BY <2>2
  <2>3. QED
    BY <2>1, <2>2
<1> HIDE DEF K
<1>3. \A k \in Nat : k \in K
  <2>1. K \in SUBSET Nat
    BY DEF K
  <2>2. QED
    BY <1>1, <1>2, <2>1, InductionSet
<1>4. QED
  BY <1>3 DEF K

AllInt(f, n) == \A i \in 1 .. n : f[i] \in Int

AreProducts(xy, x, y, n) == \A i \in 1 .. n : xy[i] = x[i] * y[i]

\* The products of the distances of the points from one point.
AreApart(f, c, d, x, y, n) == \A i \in 1 .. n : f[i] = (c - x[i]) * (d - y[i])

\* Of each point from those up to it, the sum of these products.
AreDistances(r, x, y, xy, n) ==
    \A j \in 1 .. n :
        r[j] = j * (x[j] * y[j]) - x[j] * SumOf(y, j) - y[j] * SumOf(x, j) + SumOf(xy, j)

(***************************************************************************)
(* The sum of the products of the distances from one point.                *)
(***************************************************************************)
LEMMA SumOfDistances ==
  ASSUME NEW n \in Nat, NEW c \in Int, NEW d \in Int, NEW x, NEW y, NEW xy, NEW f,
         AllInt(x, n), AllInt(y, n), AreProducts(xy, x, y, n),
         AreApart(f, c, d, x, y, n)
  PROVE  \A k \in 0 .. n :
            SumOf(f, k) = k * (c * d) - c * SumOf(y, k) - d * SumOf(x, k) + SumOf(xy, k)
<1> DEFINE Is(k) == SumOf(f, k) = k * (c * d) - c * SumOf(y, k) - d * SumOf(x, k) + SumOf(xy, k)
           K == {k \in Nat : k <= n => Is(k)}
<1>1. 0 \in K
  BY SumOfNext
<1>2. \A k \in 0 .. n : SumOf(x, k) \in Int /\ SumOf(y, k) \in Int /\ SumOf(xy, k) \in Int
  <2>1. \A i \in 1 .. n : x[i] \in Int
    BY DEF AllInt
  <2>2. \A i \in 1 .. n : y[i] \in Int
    BY DEF AllInt
  <2>3. \A i \in 1 .. n : xy[i] \in Int
    BY <2>1, <2>2 DEF AreProducts
  <2>4. QED
    BY <2>1, <2>2, <2>3, SumOfType
<1>3. ASSUME NEW k \in K PROVE k + 1 \in K
  <2>1. CASE k + 1 <= n
    <3>1. k \in Nat /\ k <= n /\ k + 1 \in 1 .. n /\ k \in 0 .. n
      BY <2>1
    <3>2. /\ SumOf(f, k + 1) = SumOf(f, k) + f[k + 1]
          /\ SumOf(x, k + 1) = SumOf(x, k) + x[k + 1]
          /\ SumOf(y, k + 1) = SumOf(y, k) + y[k + 1]
          /\ SumOf(xy, k + 1) = SumOf(xy, k) + xy[k + 1]
      BY <3>1, SumOfNext
    <3>3. PICK X \in Int, Y \in Int, XY \in Int, a \in Int, b \in Int :
             /\ X = SumOf(x, k) /\ Y = SumOf(y, k) /\ XY = SumOf(xy, k)
             /\ a = x[k + 1] /\ b = y[k + 1]
      BY <1>2, <3>1 DEF AllInt
    <3>4. SumOf(f, k) = k * (c * d) - c * Y - d * X + XY
      BY <3>1, <3>3
    <3>5. f[k + 1] = (c - a) * (d - b) /\ xy[k + 1] = a * b
      BY <3>1, <3>3 DEF AreApart, AreProducts
    <3>6. (k * (c * d) - c * Y - d * X + XY) + (c - a) * (d - b)
          = (k + 1) * (c * d) - c * (Y + b) - d * (X + a) + (XY + a * b)
      BY <3>1
    <3>7. Is(k + 1)
      BY <3>2, <3>3, <3>4, <3>5, <3>6
    <3>8. QED
      BY <3>1, <3>7
  <2>2. CASE ~(k + 1 <= n)
    BY <2>2
  <2>3. QED
    BY <2>1, <2>2
<1> HIDE DEF K
<1>4. \A k \in Nat : k \in K
  <2>1. K \in SUBSET Nat
    BY DEF K
  <2>2. QED
    BY <1>1, <1>3, <2>1, InductionSet
<1>5. QED
  BY <1>4 DEF K

(***************************************************************************)
(* Lagrange's identity: what leastSquaresSlope computes from four sums is  *)
(* a sum over the pairs of points.                                         *)
(***************************************************************************)
LEMMA SumOverPairs ==
  ASSUME NEW n \in Nat, NEW x, NEW y, NEW xy, NEW r,
         AllInt(x, n), AllInt(y, n), AreProducts(xy, x, y, n),
         AreDistances(r, x, y, xy, n)
  PROVE  \A k \in 0 .. n : k * SumOf(xy, k) - SumOf(x, k) * SumOf(y, k) = SumOf(r, k)
<1> DEFINE Is(k) == k * SumOf(xy, k) - SumOf(x, k) * SumOf(y, k) = SumOf(r, k)
           K == {k \in Nat : k <= n => Is(k)}
<1>1. 0 \in K
  <2>1. SumOf(xy, 0) = 0 /\ SumOf(x, 0) = 0 /\ SumOf(y, 0) = 0 /\ SumOf(r, 0) = 0
    BY SumOfNext
  <2>2. QED
    BY <2>1
<1>2. \A k \in 0 .. n : SumOf(x, k) \in Int /\ SumOf(y, k) \in Int /\ SumOf(xy, k) \in Int
  <2>1. \A i \in 1 .. n : x[i] \in Int
    BY DEF AllInt
  <2>2. \A i \in 1 .. n : y[i] \in Int
    BY DEF AllInt
  <2>3. \A i \in 1 .. n : xy[i] \in Int
    BY <2>1, <2>2 DEF AreProducts
  <2>4. QED
    BY <2>1, <2>2, <2>3, SumOfType
<1>3. ASSUME NEW k \in K PROVE k + 1 \in K
  <2>1. CASE k + 1 <= n
    <3>1. k \in Nat /\ k <= n /\ k + 1 \in 1 .. n /\ k \in 0 .. n
      BY <2>1
    <3>2. /\ SumOf(r, k + 1) = SumOf(r, k) + r[k + 1]
          /\ SumOf(x, k + 1) = SumOf(x, k) + x[k + 1]
          /\ SumOf(y, k + 1) = SumOf(y, k) + y[k + 1]
          /\ SumOf(xy, k + 1) = SumOf(xy, k) + xy[k + 1]
      BY <3>1, SumOfNext
    <3>3. PICK X \in Int, Y \in Int, XY \in Int, a \in Int, b \in Int :
             /\ X = SumOf(x, k) /\ Y = SumOf(y, k) /\ XY = SumOf(xy, k)
             /\ a = x[k + 1] /\ b = y[k + 1]
      BY <1>2, <3>1 DEF AllInt
    <3>4. SumOf(r, k) = k * XY - X * Y
      BY <3>1, <3>3
    <3>5. xy[k + 1] = a * b
      BY <3>1, <3>3 DEF AreProducts
    <3>6. r[k + 1] = (k + 1) * (a * b) - a * (Y + b) - b * (X + a) + (XY + a * b)
      BY <3>1, <3>2, <3>3, <3>5 DEF AreDistances
    <3>7. (k + 1) * (XY + a * b) - (X + a) * (Y + b)
          = (k * XY - X * Y) + ((k + 1) * (a * b) - a * (Y + b) - b * (X + a) + (XY + a * b))
      BY <3>1
    <3>8. Is(k + 1)
      BY <3>2, <3>3, <3>4, <3>5, <3>6, <3>7
    <3>9. QED
      BY <3>1, <3>8
  <2>2. CASE ~(k + 1 <= n)
    BY <2>2
  <2>3. QED
    BY <2>1, <2>2
<1> HIDE DEF K
<1>4. \A k \in Nat : k \in K
  <2>1. K \in SUBSET Nat
    BY DEF K
  <2>2. QED
    BY <1>1, <1>3, <2>1, InductionSet
<1>5. QED
  BY <1>4 DEF K

LEMMA SumOfPairs ==
  ASSUME NEW n \in Nat, NEW x, NEW y, NEW xy,
         AllInt(x, n), AllInt(y, n), AreProducts(xy, x, y, n)
  PROVE  SumOf([j \in 1 .. n |-> SumOf([i \in 1 .. j |-> (x[j] - x[i]) * (y[j] - y[i])], j)], n)
         = n * SumOf(xy, n) - SumOf(x, n) * SumOf(y, n)
<1> DEFINE f(j) == [i \in 1 .. j |-> (x[j] - x[i]) * (y[j] - y[i])]
           r == [j \in 1 .. n |-> SumOf(f(j), j)]
<1>1. ASSUME NEW j \in 1 .. n
      PROVE  r[j] = j * (x[j] * y[j]) - x[j] * SumOf(y, j) - y[j] * SumOf(x, j) + SumOf(xy, j)
  <2>1. x[j] \in Int /\ y[j] \in Int
    BY DEF AllInt
  <2>2. AllInt(x, j) /\ AllInt(y, j) /\ AreProducts(xy, x, y, j)
    BY DEF AllInt, AreProducts
  <2>3. AreApart(f(j), x[j], y[j], x, y, j)
    BY DEF AreApart
  <2>4. j \in Nat /\ j \in 0 .. j
    OBVIOUS
  <2> HIDE DEF f
  <2>5. SumOf(f(j), j) = j * (x[j] * y[j]) - x[j] * SumOf(y, j) - y[j] * SumOf(x, j) + SumOf(xy, j)
    BY <2>1, <2>2, <2>3, <2>4, SumOfDistances
  <2>6. QED
    BY <2>5
<1> HIDE DEF f
<1>2. AreDistances(r, x, y, xy, n)
  BY <1>1 DEF AreDistances
<1> HIDE DEF r
<1>3. n * SumOf(xy, n) - SumOf(x, n) * SumOf(y, n) = SumOf(r, n)
  BY <1>2, SumOverPairs
<1>4. QED
  BY <1>3 DEF r, f

-----------------------------------------------------------------------------
\* What a trend is

(***************************************************************************)
(* The sums of leastSquaresSlope.                                          *)
(***************************************************************************)
LEMMA SlopeType ==
  ASSUME NEW pts \in Seq(Point), Len(pts) > 0
  PROVE  Slope(pts) \in Int \X Int
<1> DEFINE n == Len(pts)
           x == [i \in 1 .. n |-> pts[i].t - pts[1].t]
           y == [i \in 1 .. n |-> pts[i].used]
<1>1. n \in Nat /\ n \in 0 .. n
  OBVIOUS
<1>2. \A i \in 1 .. n : pts[i].t \in Int /\ pts[i].used \in Int
  <2> TAKE i \in 1 .. n
  <2>1. pts[i] \in Point
    OBVIOUS
  <2>2. QED
    BY <2>1 DEF Point
<1>3. \A i \in 1 .. n : x[i] \in Int /\ y[i] \in Int
  BY <1>1, <1>2
<1>4. DOMAIN x = 1 .. n
  OBVIOUS
<1>5. Slope(pts) = Fit(n, SumOf(x, n), SumOf(y, n), SumOf(Products(x, y), n), SumOf(Products(x, x), n))
  BY DEF Slope
<1> HIDE DEF n, x, y
<1>6. \A i \in 1 .. n : Products(x, y)[i] \in Int /\ Products(x, x)[i] \in Int
  BY <1>3, <1>4 DEF Products
<1>7. SumOf(x, n) \in Int /\ SumOf(y, n) \in Int
  BY <1>1, <1>3, SumOfType
<1>8. SumOf(Products(x, y), n) \in Int /\ SumOf(Products(x, x), n) \in Int
  BY <1>1, <1>6, SumOfType
<1>9. QED
  BY <1>1, <1>5, <1>7, <1>8 DEF Fit

\* Over the pairs of points, the products of their distances in time and in bytes.
Rise(pts) ==
    SumOf([j \in 1 .. Len(pts) |->
              SumOf([i \in 1 .. j |-> (pts[j].t - pts[i].t) * (pts[j].used - pts[i].used)], j)],
          Len(pts))

Run(pts) ==
    SumOf([j \in 1 .. Len(pts) |->
              SumOf([i \in 1 .. j |-> (pts[j].t - pts[i].t) * (pts[j].t - pts[i].t)], j)],
          Len(pts))

(***************************************************************************)
(* The distances in time that are squared do not cancel: if the ends are   *)
(* apart, their sum is positive.                                           *)
(***************************************************************************)
LEMMA RunIsPositive ==
  ASSUME NEW pts \in Seq(Point), Len(pts) > 0, pts[Len(pts)].t > pts[1].t
  PROVE  Run(pts) \in Nat \ {0}
<1> DEFINE n == Len(pts)
           f(j) == [i \in 1 .. j |-> (pts[j].t - pts[i].t) * (pts[j].t - pts[i].t)]
           r == [j \in 1 .. n |-> SumOf(f(j), j)]
<1>1. n \in Nat /\ n \in 1 .. n /\ 1 \in 1 .. n
  OBVIOUS
<1>2. \A i \in 1 .. n : pts[i].t \in Nat
  <2> TAKE i \in 1 .. n
  <2>1. pts[i] \in Point
    OBVIOUS
  <2>2. QED
    BY <2>1 DEF Point
<1>3. \A a \in Int : a * a \in Nat /\ (a > 0 => a * a > 0)
  OBVIOUS
<1>4. ASSUME NEW j \in 1 .. n
      PROVE  \A i \in 1 .. j : f(j)[i] \in Nat
  <2> TAKE i \in 1 .. j
  <2>1. PICK a \in Int : a = pts[j].t - pts[i].t
    BY <1>2
  <2>2. f(j)[i] = a * a
    BY <2>1
  <2>3. QED
    BY <1>3, <2>2
<1>5. ASSUME NEW j \in 1 .. n
      PROVE  SumOf(f(j), j) \in Nat /\ \A i \in 1 .. j : f(j)[i] <= SumOf(f(j), j)
  <2>1. j \in Nat /\ j \in 0 .. j
    OBVIOUS
  <2>2. PICK g : g = f(j)
    OBVIOUS
  <2>3. \A i \in 1 .. j : g[i] \in Nat
    BY <1>4, <2>2
  <2> HIDE DEF f
  <2>4. \A k \in 0 .. j : SumOf(g, k) \in Nat /\ \A i \in 1 .. k : g[i] <= SumOf(g, k)
    BY <2>1, <2>3, SumOfNaturals
  <2>5. QED
    BY <2>1, <2>2, <2>4
<1>6. f(n)[1] > 0 /\ f(n)[1] \in Nat
  <2>1. PICK a \in Int : a = pts[n].t - pts[1].t
    BY <1>1, <1>2
  <2>2. a > 0
    BY <1>1, <1>2, <2>1
  <2>3. f(n)[1] = a * a
    BY <1>1, <2>1
  <2>4. QED
    BY <1>3, <2>2, <2>3
<1> HIDE DEF f
<1>7. \A j \in 1 .. n : r[j] = SumOf(f(j), j) /\ r[j] \in Nat
  BY <1>5
<1>8. r[n] > 0
  BY <1>1, <1>5, <1>6, <1>7
<1>9. PICK h : h = r
  OBVIOUS
<1>10. \A j \in 1 .. n : h[j] \in Nat
  BY <1>7, <1>9
<1> HIDE DEF n, r
<1>11. \A k \in 0 .. n : SumOf(h, k) \in Nat /\ \A i \in 1 .. k : h[i] <= SumOf(h, k)
  BY <1>1, <1>10, SumOfNaturals
<1>12. SumOf(h, n) \in Nat /\ h[n] <= SumOf(h, n) /\ h[n] \in Nat
  BY <1>1, <1>10, <1>11
<1>13. Run(pts) = SumOf(r, n)
  BY DEF Run, r, f, n
<1>14. QED
  BY <1>8, <1>9, <1>12, <1>13

(***************************************************************************)
(* leastSquaresSlope is what its name says.                                *)
(***************************************************************************)
LEMMA SlopeOfPairs ==
  ASSUME NEW pts \in Seq(Point), Len(pts) > 0, pts[Len(pts)].t > pts[1].t
  PROVE  Slope(pts) = <<Rise(pts), Run(pts)>> /\ Rise(pts) \in Int
<1> DEFINE n == Len(pts)
           x == [i \in 1 .. n |-> pts[i].t - pts[1].t]
           y == [i \in 1 .. n |-> pts[i].used]
<1>1. n \in Nat
  OBVIOUS
<1>2. \A i \in 1 .. n : pts[i].t \in Int /\ pts[i].used \in Int
  <2> TAKE i \in 1 .. n
  <2>1. pts[i] \in Point
    OBVIOUS
  <2>2. QED
    BY <2>1 DEF Point
<1>3. \A i \in 1 .. n : x[i] \in Int /\ y[i] \in Int
  BY <1>2
<1>4. DOMAIN x = 1 .. n
  OBVIOUS
<1>5. \A i, j \in 1 .. n : x[j] - x[i] = pts[j].t - pts[i].t
  BY <1>2
<1>6. \A i \in 1 .. n : y[i] = pts[i].used
  OBVIOUS
<1>7. Slope(pts) = Fit(n, SumOf(x, n), SumOf(y, n), SumOf(Products(x, y), n), SumOf(Products(x, x), n))
  BY DEF Slope
<1>8. Rise(pts) = SumOf([j \in 1 .. n |-> SumOf([i \in 1 .. j |-> (x[j] - x[i]) * (y[j] - y[i])], j)], n)
  <2>1. ASSUME NEW j \in 1 .. n
        PROVE  [i \in 1 .. j |-> (pts[j].t - pts[i].t) * (pts[j].used - pts[i].used)]
               = [i \in 1 .. j |-> (x[j] - x[i]) * (y[j] - y[i])]
    <3>1. \A i \in 1 .. j : i \in 1 .. n
      OBVIOUS
    <3> HIDE DEF n, x, y
    <3>2. QED
      BY <1>5, <1>6, <3>1
  <2> HIDE DEF x, y
  <2>2. QED
    BY <2>1 DEF Rise
<1>9. Run(pts) = SumOf([j \in 1 .. n |-> SumOf([i \in 1 .. j |-> (x[j] - x[i]) * (x[j] - x[i])], j)], n)
  <2>1. ASSUME NEW j \in 1 .. n
        PROVE  [i \in 1 .. j |-> (pts[j].t - pts[i].t) * (pts[j].t - pts[i].t)]
               = [i \in 1 .. j |-> (x[j] - x[i]) * (x[j] - x[i])]
    <3>1. \A i \in 1 .. j : i \in 1 .. n
      OBVIOUS
    <3> HIDE DEF n, x, y
    <3>2. QED
      BY <1>5, <3>1
  <2> HIDE DEF x, y
  <2>2. QED
    BY <2>1 DEF Run
<1>10. Run(pts) \in Nat \ {0}
  BY RunIsPositive
<1> HIDE DEF n, x, y
<1>11. /\ AllInt(x, n) /\ AllInt(y, n)
       /\ AreProducts(Products(x, y), x, y, n) /\ AreProducts(Products(x, x), x, x, n)
  BY <1>3, <1>4 DEF Products, AllInt, AreProducts
<1>12. Rise(pts) = n * SumOf(Products(x, y), n) - SumOf(x, n) * SumOf(y, n)
  BY <1>1, <1>3, <1>8, <1>11, SumOfPairs
<1>13. Run(pts) = n * SumOf(Products(x, x), n) - SumOf(x, n) * SumOf(x, n)
  BY <1>1, <1>3, <1>9, <1>11, SumOfPairs
<1>14. /\ SumOf(x, n) \in Int /\ SumOf(y, n) \in Int
       /\ SumOf(Products(x, y), n) \in Int /\ SumOf(Products(x, x), n) \in Int
  <2>1. \A f : (\A i \in 1 .. n : f[i] \in Int) => SumOf(f, n) \in Int
    <3>1. n \in 0 .. n
      BY <1>1
    <3>2. QED
      BY <1>1, <3>1, SumOfType
  <2>2. \A i \in 1 .. n : Products(x, y)[i] \in Int /\ Products(x, x)[i] \in Int
    BY <1>3, <1>11 DEF AreProducts
  <2>3. QED
    BY <1>3, <2>1, <2>2
<1>15. QED
  <2>1. PICK a \in Int, b \in Int, c \in Int, d \in Int :
           /\ a = SumOf(x, n) /\ b = SumOf(y, n)
           /\ c = SumOf(Products(x, y), n) /\ d = SumOf(Products(x, x), n)
    BY <1>14
  <2>2. n * d # a * a
    <3>1. n * d - a * a # 0
      BY <1>10, <1>13, <2>1
    <3>2. n * d \in Int /\ a * a \in Int
      BY <1>1
    <3>3. QED
      BY <3>1, <3>2
  <2>3. Slope(pts) = <<n * c - a * b, n * d - a * a>>
    BY <1>7, <2>1, <2>2 DEF Fit
  <2>4. n * c - a * b \in Int
    BY <1>1
  <2>5. QED
    BY <1>12, <1>13, <2>1, <2>3, <2>4

LEMMA GrowthType ==
  ASSUME NEW v \in Volume
  PROVE  Growth(v) \in {None} \cup (Int \X Int)
<1>1. v.history \in Seq(Point)
  BY DEF Volume
<1>2. CASE Growth(v) = None
  BY <1>2
<1>3. CASE Growth(v) = PerDay(Slope(v.history)) /\ Len(v.history) >= 3
  <2>1. Slope(v.history) \in Int \X Int
    BY <1>1, <1>3, SlopeType
  <2>2. PerDay(Slope(v.history)) \in Int \X Int
    BY <2>1, QueryAssumption DEF PerDay
  <2>3. QED
    BY <1>3, <2>2
<1>4. QED
  BY <1>1, <1>2, <1>3 DEF Growth

LEMMA DaysType ==
  ASSUME NEW v \in Volume
  PROVE  DaysUntilFull(v) \in {None} \cup (Int \X (Nat \ {0}))
<1> DEFINE g == Growth(v)
           r == v.capacity - v.used
<1>1. r \in Int
  <2>1. v.capacity \in Int /\ v.used \in Int
    BY DEF Volume
  <2>2. QED
    BY <2>1
<1>2. CASE DaysUntilFull(v) = None
  BY <1>2
<1>3. CASE DaysUntilFull(v) = <<0, 1>>
  BY <1>3
<1>4. CASE g # None /\ g[1] > 0 /\ DaysUntilFull(v) = <<r * g[2], g[1]>>
  <2>1. g \in Int \X Int
    BY <1>4, GrowthType
  <2>2. QED
    BY <1>1, <1>4, <2>1
<1>5. g = None \/ g \in Int \X Int
  BY GrowthType
<1>6. QED
  <2> HIDE DEF g
  <2>1. CASE g = None
    BY <1>2, <2>1 DEF DaysUntilFull, Projection, g
  <2>2. CASE g # None /\ g \in Int \X Int
    BY <1>2, <1>3, <1>4, <2>2 DEF DaysUntilFull, Projection, g
  <2>3. QED
    BY <1>5, <2>1, <2>2

-----------------------------------------------------------------------------
\* What the totals are

LEMMA LeastOf ==
  ASSUME NEW T \in SUBSET Nat, T # {}
  PROVE  \E x \in T : \A y \in T : x <= y
<1> SUFFICES ASSUME \A x \in T : \E y \in T : y < x PROVE FALSE
  OBVIOUS
<1> DEFINE K == {k \in Nat : \A y \in T : y >= k}
<1>1. 0 \in K
  OBVIOUS
<1>2. ASSUME NEW k \in K PROVE k + 1 \in K
  <2>1. k \notin T
    OBVIOUS
  <2>2. \A y \in T : y >= k /\ y # k
    BY <2>1
  <2>3. QED
    BY <2>2
<1>3. K \in SUBSET Nat
  OBVIOUS
<1> HIDE DEF K
<1>4. \A n \in Nat : n \in K
  BY <1>1, <1>2, <1>3, InductionSet
<1>5. PICK x \in T : TRUE
  OBVIOUS
<1>6. x + 1 \in K
  BY <1>4
<1>7. QED
  BY <1>5, <1>6 DEF K

\* The rows that report a disk of their node.
OnNode(rows) == {i \in DOMAIN rows : rows[i].hasStats /\ rows[i].shared}

\* The rows whose figures are added: of those on one disk the first.
Counted(rows) ==
    {i \in DOMAIN rows :
        /\ rows[i].hasStats
        /\ i \in OnNode(rows) =>
              \A j \in OnNode(rows) : j < i => FileSystem(rows[j]) # FileSystem(rows[i])}

Amounts(rows, field) == [i \in DOMAIN rows |-> IF i \in Counted(rows) THEN rows[i][field] ELSE 0]

\* The totals of the first n rows.
TotalsUpTo(rows, n) ==
    [used       |-> SumOf(Amounts(rows, "used"), n),
     capacity   |-> SumOf(Amounts(rows, "capacity"), n),
     requested  |-> SumOf([i \in DOMAIN rows |-> rows[i].requested], n),
     withStats  |-> SumOf([i \in DOMAIN rows |-> One(rows[i].hasStats)], n),
     unmounted  |-> SumOf([i \in DOMAIN rows |-> One(~rows[i].hasStats /\ rows[i].status = "unmounted")], n),
     unreported |-> SumOf([i \in DOMAIN rows |-> One(~rows[i].hasStats /\ rows[i].status = "unreported")], n),
     warning    |-> SumOf([i \in DOMAIN rows |-> One(Severity(rows[i]) = "warning")], n),
     critical   |-> SumOf([i \in DOMAIN rows |-> One(Severity(rows[i]) = "critical")], n),
     sharedFS   |-> {FileSystem(rows[i]) : i \in {j \in OnNode(rows) : j <= n}}]

LEMMA TotalsOfNext ==
  ASSUME NEW rows, NEW n \in Nat, DOMAIN rows = 1 .. n
  PROVE  /\ TotalsUpTo(rows, 0) = NoTotals
         /\ \A k \in Nat : k + 1 <= n =>
               TotalsUpTo(rows, k + 1) = AddRow(TotalsUpTo(rows, k), rows[k + 1])
<1>1. TotalsUpTo(rows, 0) = NoTotals
  <2>1. {j \in OnNode(rows) : j <= 0} = {}
    BY DEF OnNode
  <2>2. {FileSystem(rows[i]) : i \in {j \in OnNode(rows) : j <= 0}} = {}
    BY <2>1
  <2>3. \A f : SumOf(f, 0) = 0
    BY SumOfNext
  <2>4. QED
    BY <2>2, <2>3 DEF TotalsUpTo, NoTotals
<1>2. ASSUME NEW k \in Nat, k + 1 <= n
      PROVE  TotalsUpTo(rows, k + 1) = AddRow(TotalsUpTo(rows, k), rows[k + 1])
  <2> DEFINE v == rows[k + 1]
             t == TotalsUpTo(rows, k)
             seen == {FileSystem(rows[i]) : i \in {j \in OnNode(rows) : j <= k}}
  <2>1. k + 1 \in DOMAIN rows
    BY <1>2
  <2>2. \A f : SumOf(f, k + 1) = SumOf(f, k) + f[k + 1]
    BY <1>2, SumOfNext
  <2>3. v.hasStats /\ ~(v.shared /\ FileSystem(v) \in seen) <=> k + 1 \in Counted(rows)
    <3>1. FileSystem(v) \in seen <=> \E j \in OnNode(rows) : j <= k /\ FileSystem(rows[j]) = FileSystem(v)
      OBVIOUS
    <3>2. \A j \in OnNode(rows) : j <= k <=> j < k + 1
      BY <1>2 DEF OnNode
    <3>3. k + 1 \in OnNode(rows) <=> v.hasStats /\ v.shared
      BY <2>1 DEF OnNode
    <3> HIDE DEF seen
    <3>4. QED
      BY <2>1, <3>1, <3>2, <3>3 DEF Counted
  <2>4. t.sharedFS = seen
    BY DEF TotalsUpTo
  <2>5. \A field : Amounts(rows, field)[k + 1] = IF k + 1 \in Counted(rows) THEN v[field] ELSE 0
    BY <2>1 DEF Amounts
  <2>6. {FileSystem(rows[i]) : i \in {j \in OnNode(rows) : j <= k + 1}}
        = IF v.hasStats /\ v.shared THEN seen \cup {FileSystem(v)} ELSE seen
    <3>1. \A j \in OnNode(rows) : j <= k + 1 <=> j <= k \/ j = k + 1
      BY <1>2 DEF OnNode
    <3>2. k + 1 \in OnNode(rows) <=> v.hasStats /\ v.shared
      BY <2>1 DEF OnNode
    <3>3. QED
      BY <3>1, <3>2
  <2> HIDE DEF seen
  <2>7. TotalsUpTo(rows, k + 1) =
          [used       |-> t.used + (IF k + 1 \in Counted(rows) THEN v.used ELSE 0),
           capacity   |-> t.capacity + (IF k + 1 \in Counted(rows) THEN v.capacity ELSE 0),
           requested  |-> t.requested + v.requested,
           withStats  |-> t.withStats + One(v.hasStats),
           unmounted  |-> t.unmounted + One(~v.hasStats /\ v.status = "unmounted"),
           unreported |-> t.unreported + One(~v.hasStats /\ v.status = "unreported"),
           warning    |-> t.warning + One(Severity(v) = "warning"),
           critical   |-> t.critical + One(Severity(v) = "critical"),
           sharedFS   |-> IF v.hasStats /\ v.shared THEN seen \cup {FileSystem(v)} ELSE seen]
    <3>1. SumOf([i \in DOMAIN rows |-> rows[i].requested], k + 1)
          = SumOf([i \in DOMAIN rows |-> rows[i].requested], k) + v.requested
      BY <2>1, <2>2
    <3>2. SumOf([i \in DOMAIN rows |-> One(rows[i].hasStats)], k + 1)
          = SumOf([i \in DOMAIN rows |-> One(rows[i].hasStats)], k) + One(v.hasStats)
      BY <2>1, <2>2
    <3>3. SumOf([i \in DOMAIN rows |-> One(~rows[i].hasStats /\ rows[i].status = "unmounted")], k + 1)
          = SumOf([i \in DOMAIN rows |-> One(~rows[i].hasStats /\ rows[i].status = "unmounted")], k) + One(~v.hasStats /\ v.status = "unmounted")
      BY <2>1, <2>2
    <3>4. SumOf([i \in DOMAIN rows |-> One(~rows[i].hasStats /\ rows[i].status = "unreported")], k + 1)
          = SumOf([i \in DOMAIN rows |-> One(~rows[i].hasStats /\ rows[i].status = "unreported")], k) + One(~v.hasStats /\ v.status = "unreported")
      BY <2>1, <2>2
    <3>5. SumOf([i \in DOMAIN rows |-> One(Severity(rows[i]) = "warning")], k + 1)
          = SumOf([i \in DOMAIN rows |-> One(Severity(rows[i]) = "warning")], k) + One(Severity(v) = "warning")
      BY <2>1, <2>2
    <3>6. SumOf([i \in DOMAIN rows |-> One(Severity(rows[i]) = "critical")], k + 1)
          = SumOf([i \in DOMAIN rows |-> One(Severity(rows[i]) = "critical")], k) + One(Severity(v) = "critical")
      BY <2>1, <2>2
    <3>7. ASSUME NEW field
          PROVE  SumOf(Amounts(rows, field), k + 1)
                 = SumOf(Amounts(rows, field), k) + (IF k + 1 \in Counted(rows) THEN v[field] ELSE 0)
      BY <2>2, <2>5
    <3>8. /\ SumOf(Amounts(rows, "used"), k + 1)
              = SumOf(Amounts(rows, "used"), k) + (IF k + 1 \in Counted(rows) THEN v.used ELSE 0)
          /\ SumOf(Amounts(rows, "capacity"), k + 1)
              = SumOf(Amounts(rows, "capacity"), k)
                + (IF k + 1 \in Counted(rows) THEN v.capacity ELSE 0)
      BY <3>7
    <3> HIDE DEF v
    <3>9. QED
      BY <2>6, <3>1, <3>2, <3>3, <3>4, <3>5, <3>6, <3>8 DEF TotalsUpTo
  <2>8. AddRow(t, v) =
          [used       |-> t.used + (IF k + 1 \in Counted(rows) THEN v.used ELSE 0),
           capacity   |-> t.capacity + (IF k + 1 \in Counted(rows) THEN v.capacity ELSE 0),
           requested  |-> t.requested + v.requested,
           withStats  |-> t.withStats + One(v.hasStats),
           unmounted  |-> t.unmounted + One(~v.hasStats /\ v.status = "unmounted"),
           unreported |-> t.unreported + One(~v.hasStats /\ v.status = "unreported"),
           warning    |-> t.warning + One(Severity(v) = "warning"),
           critical   |-> t.critical + One(Severity(v) = "critical"),
           sharedFS   |-> IF v.hasStats /\ v.shared THEN seen \cup {FileSystem(v)} ELSE seen]
    <3> HIDE DEF v, t
    <3>1. QED
      BY <2>3, <2>4 DEF AddRow
  <2>9. QED
    BY <2>7, <2>8
<1>3. QED
  BY <1>1, <1>2

(***************************************************************************)
(* The loop of computeTotals computes sums over the rows.                  *)
(***************************************************************************)
LEMMA TotalsAreSums ==
  ASSUME NEW rows, NEW n \in Nat, DOMAIN rows = 1 .. n, Len(rows) = n
  PROVE  ComputeTotals(rows) = TotalsUpTo(rows, n)
<1> DEFINE IsLoop(s) ==
              s = [k \in 0 .. n |-> IF k = 0 THEN NoTotals ELSE AddRow(s[k - 1], rows[k])]
           after == CHOOSE s : IsLoop(s)
<1>1. \E s : IsLoop(s)
  <2> DEFINE s == [k \in 0 .. n |-> TotalsUpTo(rows, k)]
  <2>1. ASSUME NEW k \in 0 .. n
        PROVE  s[k] = IF k = 0 THEN NoTotals ELSE AddRow(s[k - 1], rows[k])
    <3>1. CASE k = 0
      BY <3>1, TotalsOfNext
    <3>2. CASE k # 0
      <4>1. PICK m \in Nat : k = m + 1 /\ m + 1 <= n /\ m = k - 1 /\ m \in 0 .. n
        <5>1. k - 1 \in Nat /\ k = (k - 1) + 1 /\ k <= n /\ k - 1 \in 0 .. n
          BY <3>2
        <5>2. QED
          BY <5>1
      <4>2. TotalsUpTo(rows, m + 1) = AddRow(TotalsUpTo(rows, m), rows[m + 1])
        BY <4>1, TotalsOfNext
      <4>3. QED
        BY <3>2, <4>1, <4>2
    <3>3. QED
      BY <3>1, <3>2
  <2>2. s = [k \in 0 .. n |-> s[k]]
    OBVIOUS
  <2> HIDE DEF s
  <2>3. IsLoop(s)
    BY <2>1, <2>2
  <2>4. QED
    BY <2>3
<1>2. IsLoop(after)
  BY <1>1
<1>3. ComputeTotals(rows) = after[n]
  BY DEF ComputeTotals
<1>4. \A k \in 0 .. n : after[k] = IF k = 0 THEN NoTotals ELSE AddRow(after[k - 1], rows[k])
  BY <1>2
<1> HIDE DEF after, IsLoop
<1> DEFINE K == {k \in Nat : k <= n => after[k] = TotalsUpTo(rows, k)}
<1>5. 0 \in K
  BY <1>4, TotalsOfNext
<1>6. ASSUME NEW k \in K PROVE k + 1 \in K
  <2>1. CASE k + 1 <= n
    <3>1. k \in Nat /\ k <= n /\ k + 1 \in 0 .. n /\ k + 1 # 0 /\ (k + 1) - 1 = k
      BY <2>1
    <3>2. after[k + 1] = AddRow(after[k], rows[k + 1])
      BY <1>4, <3>1
    <3>3. after[k] = TotalsUpTo(rows, k)
      BY <3>1
    <3>4. TotalsUpTo(rows, k + 1) = AddRow(TotalsUpTo(rows, k), rows[k + 1])
      BY <2>1, <3>1, TotalsOfNext
    <3>5. QED
      BY <3>1, <3>2, <3>3, <3>4
  <2>2. CASE ~(k + 1 <= n)
    BY <2>2
  <2>3. QED
    BY <2>1, <2>2
<1> HIDE DEF K
<1>7. \A k \in Nat : k \in K
  <2>1. K \in SUBSET Nat
    BY DEF K
  <2>2. QED
    BY <1>5, <1>6, <2>1, InductionSet
<1>8. QED
  BY <1>3, <1>7 DEF K

(***************************************************************************)
(* The rows that are counted: each that is alone on its disk, and one of   *)
(* those that lie on one.                                                  *)
(***************************************************************************)
LEMMA OneOfEachDisk ==
  ASSUME NEW rows, NEW n \in Nat, DOMAIN rows = 1 .. n
  PROVE  /\ Counted(rows) \subseteq {i \in DOMAIN rows : rows[i].hasStats}
         /\ {i \in DOMAIN rows : rows[i].hasStats} \ OnNode(rows) \subseteq Counted(rows)
         /\ \A i \in OnNode(rows) : \E j \in OnNode(rows) \cap Counted(rows) :
               FileSystem(rows[j]) = FileSystem(rows[i])
         /\ \A i, j \in OnNode(rows) \cap Counted(rows) :
               FileSystem(rows[i]) = FileSystem(rows[j]) => i = j
<1>1. OnNode(rows) \subseteq 1 .. n
  BY DEF OnNode
<1>2. ASSUME NEW i \in OnNode(rows)
      PROVE  \E j \in OnNode(rows) \cap Counted(rows) : FileSystem(rows[j]) = FileSystem(rows[i])
  <2> DEFINE T == {j \in OnNode(rows) : FileSystem(rows[j]) = FileSystem(rows[i])}
  <2>1. T \in SUBSET Nat /\ T # {}
    BY <1>1
  <2>2. PICK x \in T : \A y \in T : x <= y
    <3> HIDE DEF T
    <3>1. QED
      BY <2>1, LeastOf
  <2>3. x \in DOMAIN rows /\ rows[x].hasStats
    BY DEF OnNode
  <2>4. \A j \in OnNode(rows) : j < x => FileSystem(rows[j]) # FileSystem(rows[x])
    BY <1>1, <2>2
  <2>5. x \in Counted(rows)
    BY <2>3, <2>4 DEF Counted
  <2>6. QED
    BY <2>5
<1>3. ASSUME NEW i \in OnNode(rows) \cap Counted(rows), NEW j \in OnNode(rows) \cap Counted(rows),
             FileSystem(rows[i]) = FileSystem(rows[j])
      PROVE  i = j
  <2>1. ~(j < i) /\ ~(i < j)
    BY <1>3 DEF Counted
  <2>2. QED
    BY <1>1, <2>1
<1>4. QED
  BY <1>2, <1>3 DEF Counted

-----------------------------------------------------------------------------
\* Every column compares rows consistently

LEMMA NumberField ==
  ASSUME NEW v \in Volume,
         NEW field \in {"name", "namespace", "cluster", "storageClass", "used", "capacity",
                        "requested", "usage"}
  PROVE  v[field] \in Int
<1>1. /\ v.name \in Int /\ v.namespace \in Int /\ v.cluster \in Int /\ v.storageClass \in Int
      /\ v.used \in Int /\ v.capacity \in Int /\ v.requested \in Int /\ v.usage \in Int
  BY DEF Volume
<1>2. QED
  BY <1>1

LEMMA UsageOrders ==
  ASSUME NEW u \in Volume, NEW v \in Volume, NEW w \in Volume, NEW dir \in {-1, 1}
  PROVE  /\ CompareUsage(v, w, dir) \in Int
         /\ CompareUsage(w, v, dir) = -CompareUsage(v, w, dir)
         /\ CompareUsage(u, v, dir) <= 0 /\ CompareUsage(v, w, dir) <= 0
               => CompareUsage(u, w, dir) <= 0
<1>1. /\ u.hasStats \in BOOLEAN /\ v.hasStats \in BOOLEAN /\ w.hasStats \in BOOLEAN
      /\ u.usage \in Int /\ v.usage \in Int /\ w.usage \in Int
  BY DEF Volume
<1>2. /\ CompareUnknown(v, w) \in Int /\ CompareUnknown(u, v) \in Int /\ CompareUnknown(u, w) \in Int
      /\ CompareUnknown(w, v) = -CompareUnknown(v, w)
      /\ CompareUnknown(u, v) <= 0 /\ CompareUnknown(v, w) <= 0 => CompareUnknown(u, w) <= 0
  BY UnknownOrders
<1>3. CompareUsage(v, w, dir) \in Int /\ CompareUsage(w, v, dir) = -CompareUsage(v, w, dir)
  BY <1>1, <1>2 DEF CompareUsage, Num, Str
<1>4. ASSUME CompareUsage(u, v, dir) <= 0, CompareUsage(v, w, dir) <= 0
      PROVE  CompareUsage(u, w, dir) <= 0
  BY <1>1, <1>2, <1>4 DEF CompareUsage, Num, Str
<1>5. QED
  BY <1>3, <1>4

(***************************************************************************)
(* Quotients compare as they should, whatever their denominators.          *)
(***************************************************************************)
LEMMA QuotientsOrder ==
  ASSUME NEW x \in Int \X (Nat \ {0}), NEW y \in Int \X (Nat \ {0}), NEW z \in Int \X (Nat \ {0}),
         x[1] * y[2] <= y[1] * x[2], y[1] * z[2] <= z[1] * y[2]
  PROVE  x[1] * z[2] <= z[1] * x[2]
<1>1. PICK a \in Int, b \in Nat \ {0} : a = x[1] /\ b = x[2]
  OBVIOUS
<1>2. PICK c \in Int, d \in Nat \ {0} : c = y[1] /\ d = y[2]
  OBVIOUS
<1>3. PICK e \in Int, f \in Nat \ {0} : e = z[1] /\ f = z[2]
  OBVIOUS
<1>4. a * d <= c * b /\ c * f <= e * d
  BY <1>1, <1>2, <1>3
<1>5. (a * d) * f <= (c * b) * f /\ (c * f) * b <= (e * d) * b
  BY <1>4
<1>6. (a * f) * d <= (e * b) * d
  BY <1>5
<1>7. a * f <= e * b
  BY <1>6
<1>8. QED
  BY <1>1, <1>3, <1>7

LEMMA DaysOrder ==
  ASSUME NEW u \in Volume, NEW v \in Volume, NEW w \in Volume, NEW dir \in {-1, 1},
         NEW x \in {None} \cup (Int \X (Nat \ {0})), NEW y \in {None} \cup (Int \X (Nat \ {0})),
         NEW z \in {None} \cup (Int \X (Nat \ {0}))
  PROVE  /\ CompareDays(v, w, y, z, dir) \in Int
         /\ CompareDays(w, v, z, y, dir) = -CompareDays(v, w, y, z, dir)
         /\ CompareDays(u, v, x, y, dir) <= 0 /\ CompareDays(v, w, y, z, dir) <= 0
               => CompareDays(u, w, x, z, dir) <= 0
<1> DEFINE Q == Int \X (Nat \ {0})
<1>1. \A q \in Q : q # None /\ q[1] \in Int /\ q[2] \in Nat \ {0}
  <2> TAKE q \in Q
  <2>1. q[1] \in Int /\ q[2] \in Nat \ {0} /\ q = <<q[1], q[2]>>
    OBVIOUS
  <2>2. <<q[1], q[2]>> # << >>
    OBVIOUS
  <2>3. QED
    BY <2>1, <2>2 DEF None
<1>2. \A p, q \in Q : p[1] * q[2] \in Int
  BY <1>1
<1>3. \A a, b \in Int : Str(a, b) \in {-1, 0, 1} /\ Str(b, a) = -Str(a, b) /\ (Str(a, b) <= 0 <=> a <= b)
                        /\ (Str(a, b) = 0 <=> a = b)
  BY StrOrders
<1>4. \A p, q \in Q : Str(p[1] * q[2], q[1] * p[2]) \in {-1, 0, 1}
  BY <1>2, <1>3
<1>5. /\ CompareUsage(v, w, 1) \in Int /\ CompareUsage(u, v, 1) \in Int /\ CompareUsage(u, w, 1) \in Int
      /\ CompareUsage(w, v, 1) = -CompareUsage(v, w, 1)
      /\ CompareUsage(u, v, 1) <= 0 /\ CompareUsage(v, w, 1) <= 0 => CompareUsage(u, w, 1) <= 0
  BY UsageOrders
<1>6. /\ CompareDays(v, w, y, z, dir) \in Int
      /\ CompareDays(w, v, z, y, dir) = -CompareDays(v, w, y, z, dir)
  <2>1. CASE y \in Q /\ z \in Q
    <3>1. /\ y[1] * z[2] \in Int /\ z[1] * y[2] \in Int
      BY <1>2, <2>1
    <3>2. /\ Str(y[1] * z[2], z[1] * y[2]) \in {-1, 0, 1}
          /\ Str(z[1] * y[2], y[1] * z[2]) = -Str(y[1] * z[2], z[1] * y[2])
      BY <1>3, <3>1
    <3>3. y # None /\ z # None
      BY <1>1, <2>1
    <3> HIDE DEF Q
    <3>4. QED
      BY <3>2, <3>3 DEF CompareDays
  <2>2. CASE y = None \/ z = None
    BY <1>1, <1>5, <2>2 DEF CompareDays
  <2>3. QED
    BY <2>1, <2>2
<1>7. ASSUME CompareDays(u, v, x, y, dir) <= 0, CompareDays(v, w, y, z, dir) <= 0
      PROVE  CompareDays(u, w, x, z, dir) <= 0
  <2>1. CASE x \in Q /\ y \in Q /\ z \in Q
    <3>1. x # None /\ y # None /\ z # None
      BY <1>1, <2>1
    <3>2. /\ x[1] * y[2] \in Int /\ y[1] * x[2] \in Int /\ y[1] * z[2] \in Int
          /\ z[1] * y[2] \in Int /\ x[1] * z[2] \in Int /\ z[1] * x[2] \in Int
      BY <1>2, <2>1
    <3>3. CASE dir = 1
      <4>1. x[1] * y[2] <= y[1] * x[2] /\ y[1] * z[2] <= z[1] * y[2]
        <5>1. /\ Str(x[1] * y[2], y[1] * x[2]) * 1 <= 0
              /\ Str(y[1] * z[2], z[1] * y[2]) * 1 <= 0
          BY <1>7, <3>1, <3>3 DEF CompareDays
        <5>2. Str(x[1] * y[2], y[1] * x[2]) <= 0 /\ Str(y[1] * z[2], z[1] * y[2]) <= 0
          BY <1>4, <2>1, <5>1
        <5>3. QED
          BY <1>3, <3>2, <5>2
      <4>2. x[1] * z[2] <= z[1] * x[2]
        BY <2>1, <4>1, QuotientsOrder
      <4>3. QED
        BY <1>3, <3>1, <3>2, <3>3, <4>2 DEF CompareDays
    <3>4. CASE dir = -1
      <4>1. y[1] * x[2] <= x[1] * y[2] /\ z[1] * y[2] <= y[1] * z[2]
        BY <1>3, <1>7, <3>1, <3>2, <3>4 DEF CompareDays
      <4>2. z[1] * x[2] <= x[1] * z[2]
        BY <2>1, <4>1, QuotientsOrder
      <4>3. QED
        BY <1>3, <3>1, <3>2, <3>4, <4>2 DEF CompareDays
    <3>5. QED
      BY <3>3, <3>4
  <2>2. CASE x = None \/ y = None \/ z = None
    <3>1. ~(x = None /\ y # None)
      BY <1>7 DEF CompareDays
    <3>2. ~(y = None /\ z # None)
      BY <1>7 DEF CompareDays
    <3>3. CASE x = None /\ y = None /\ z = None
      BY <1>5, <1>7, <3>3 DEF CompareDays
    <3>4. CASE x # None /\ z = None
      BY <3>4 DEF CompareDays
    <3>5. QED
      BY <2>2, <3>1, <3>2, <3>3, <3>4
  <2>3. QED
    BY <2>1, <2>2
<1>8. QED
  BY <1>6, <1>7

(***************************************************************************)
(* Every column is a total preorder of the volumes, in both directions:    *)
(* what sort.SliceStable asks of the function it is given.                 *)
(***************************************************************************)
LEMMA CompareOrders ==
  ASSUME NEW u \in Volume, NEW v \in Volume, NEW w \in Volume,
         NEW column \in Columns, NEW dir \in {-1, 1}
  PROVE  /\ Compare(v, w, column, dir) \in Int
         /\ Compare(w, v, column, dir) = -Compare(v, w, column, dir)
         /\ Compare(u, v, column, dir) <= 0 /\ Compare(v, w, column, dir) <= 0
               => Compare(u, w, column, dir) <= 0
<1>1. CASE column \in {"name", "namespace", "cluster", "storageClass"}
  <2>1. u[column] \in Int /\ v[column] \in Int /\ w[column] \in Int
    BY <1>1, NumberField
  <2>2. \A x, y \in Volume : Compare(x, y, column, dir) = Str(x[column], y[column]) * dir
    BY <1>1 DEF Compare
  <2>3. QED
    BY <2>1, <2>2 DEF Str
<1>2. CASE column \in {"used", "capacity", "requested"}
  <2>1. u[column] \in Int /\ v[column] \in Int /\ w[column] \in Int
    BY <1>2, NumberField
  <2>2. \A x, y \in Volume : Compare(x, y, column, dir) = Num(x[column], y[column]) * dir
    BY <1>2 DEF Compare
  <2>3. QED
    BY <2>1, <2>2 DEF Num, Str
<1>3. CASE column = "daysUntilFull"
  <2>1. \A x, y \in Volume :
           Compare(x, y, column, dir) = CompareDays(x, y, DaysUntilFull(x), DaysUntilFull(y), dir)
    BY <1>3 DEF Compare
  <2>2. QED
    BY <2>1, DaysOrder, DaysType
<1>4. CASE column = "usage"
  <2>1. \A x, y \in Volume : Compare(x, y, column, dir) = CompareUsage(x, y, dir)
    BY <1>4 DEF Compare
  <2>2. QED
    BY <2>1, UsageOrders
<1>5. QED
  BY <1>1, <1>2, <1>3, <1>4 DEF Columns

Direction(desc) == IF desc THEN -1 ELSE 1

LEMMA RowOrderIsTotal ==
  ASSUME NEW rows \in Seq(Volume), NEW column \in Columns, NEW desc \in BOOLEAN
  PROVE  StrictTotal(DOMAIN rows, RowOrder(rows, column, desc))
<1> DEFINE dir == Direction(desc)
           C(i, j) == Compare(rows[i], rows[j], column, dir)
           order == RowOrder(rows, column, desc)
<1>1. dir \in {-1, 1}
  BY DEF Direction
<1>2. DOMAIN rows \subseteq Int /\ \A i \in DOMAIN rows : rows[i] \in Volume
  OBVIOUS
<1>3. \A i, j \in DOMAIN rows : <<i, j>> \in order <=> C(i, j) < 0 \/ (C(i, j) = 0 /\ i < j)
  BY DEF RowOrder, StablyBefore, Direction
<1> HIDE DEF dir, order
<1>4. \A i, j \in DOMAIN rows : C(i, j) \in Int /\ C(j, i) = -C(i, j)
  BY <1>1, <1>2, CompareOrders
<1>5. \A i, j, k \in DOMAIN rows : C(i, j) <= 0 /\ C(j, k) <= 0 => C(i, k) <= 0
  BY <1>1, <1>2, CompareOrders
<1> HIDE DEF C
<1>6. \A x \in DOMAIN rows : <<x, x>> \notin order
  <2> TAKE x \in DOMAIN rows
  <2>1. C(x, x) \in Int /\ C(x, x) = -C(x, x)
    BY <1>4
  <2>2. C(x, x) = 0 /\ ~(x < x)
    BY <1>2, <2>1
  <2>3. QED
    BY <1>3, <2>2
<1>7. \A x, y \in DOMAIN rows : x # y => <<x, y>> \in order \/ <<y, x>> \in order
  BY <1>2, <1>3, <1>4
<1>8. \A x, y, z \in DOMAIN rows : <<x, y>> \in order /\ <<y, z>> \in order => <<x, z>> \in order
  <2> TAKE x, y, z \in DOMAIN rows
  <2> HAVE <<x, y>> \in order /\ <<y, z>> \in order
  <2>1. /\ C(x, y) \in Int /\ C(y, z) \in Int /\ C(x, z) \in Int
        /\ C(y, x) = -C(x, y) /\ C(z, y) = -C(y, z) /\ C(z, x) = -C(x, z)
    BY <1>4
  <2>2. /\ C(x, y) < 0 \/ (C(x, y) = 0 /\ x < y)
        /\ C(y, z) < 0 \/ (C(y, z) = 0 /\ y < z)
    BY <1>3
  <2>3. C(x, z) <= 0
    BY <1>5, <2>1, <2>2
  <2>4. C(x, z) = 0 => C(x, y) = 0 /\ C(y, z) = 0
    <3>1. C(x, z) = 0 => C(z, x) <= 0
      BY <2>1
    <3>2. C(x, z) = 0 => C(y, x) <= 0 /\ C(z, y) <= 0
      BY <1>5, <2>1, <2>2, <3>1
    <3>3. QED
      BY <2>1, <2>2, <3>2
  <2>5. QED
    BY <1>2, <1>3, <2>1, <2>2, <2>3, <2>4
<1>9. QED
  BY <1>6, <1>7, <1>8 DEF StrictTotal, order

(***************************************************************************)
(* SortRows places each row once, none before a row that goes before it.   *)
(***************************************************************************)
LEMMA SortRowsPlaces ==
  ASSUME NEW rows \in Seq(Volume), NEW column \in Columns, NEW desc \in BOOLEAN
  PROVE  \E at \in Bijection(1 .. Len(rows), 1 .. Len(rows)) :
            /\ SortRows(rows, column, desc) = [n \in 1 .. Len(rows) |-> rows[at[n]]]
            /\ \A m, n \in 1 .. Len(rows) :
                  m < n => <<at[m], at[n]>> \in RowOrder(rows, column, desc)
<1>1. DOMAIN rows = 1 .. Len(rows) /\ Len(rows) \in Nat
  OBVIOUS
<1>2. IsFiniteSet(DOMAIN rows) /\ Cardinality(DOMAIN rows) = Len(rows)
  <2> DEFINE n == Len(rows)
  <2>1. n \in Nat /\ DOMAIN rows = 1 .. n
    BY <1>1
  <2> HIDE DEF n
  <2>2. IsFiniteSet(1 .. n) /\ Cardinality(1 .. n) = n
    BY <2>1, FS_Interval
  <2>3. QED
    BY <2>1, <2>2 DEF n
<1> DEFINE at == Arranged(DOMAIN rows, RowOrder(rows, column, desc))
<1>3. /\ at \in Bijection(1 .. Cardinality(DOMAIN rows), DOMAIN rows)
      /\ \A m, n \in 1 .. Cardinality(DOMAIN rows) :
            m < n => <<at[m], at[n]>> \in RowOrder(rows, column, desc)
  BY <1>2, RowOrderIsTotal, ArrangedInOrder
<1>4. SortRows(rows, column, desc) = [n \in 1 .. Len(rows) |-> rows[at[n]]]
  BY <1>1 DEF SortRows
<1> HIDE DEF at
<1>5. QED
  BY <1>1, <1>2, <1>3, <1>4

Follows(f, N, order) == \A m, n \in 1 .. N : m < n => <<f[m], f[n]>> \in order

EndsIn(f, N, U) == \A m, n \in 1 .. N : m < n /\ f[m] \in U => f[n] \in U

AgreeOn(U, less, more) == \A a, b \in U : <<a, b>> \in less <=> <<a, b>> \in more

Asymmetric(D, order) == \A a, b \in D : <<a, b>> \in order => <<b, a>> \notin order

(***************************************************************************)
(* Two arrangements of one set, in orders that agree on its last members,  *)
(* end alike.                                                              *)
(***************************************************************************)
LEMMA SameTail ==
  ASSUME NEW N \in Nat, NEW D, NEW p \in Bijection(1 .. N, D), NEW q \in Bijection(1 .. N, D),
         NEW less, NEW more, NEW U,
         Follows(p, N, less), Follows(q, N, more), EndsIn(p, N, U), EndsIn(q, N, U),
         AgreeOn(U, less, more), Asymmetric(D, less)
  PROVE  \A i \in 1 .. N : p[i] \in U => p[i] = q[i]
<1> DEFINE K == {d \in Nat : \A i \in 1 .. N : N - i <= d /\ p[i] \in U => p[i] = q[i]}
<1>1. /\ \A i \in 1 .. N : p[i] \in D /\ q[i] \in D
      /\ \A x \in D : (\E i \in 1 .. N : p[i] = x) /\ (\E i \in 1 .. N : q[i] = x)
      /\ \A i, j \in 1 .. N : (p[i] = p[j] => i = j) /\ (q[i] = q[j] => i = j)
  <2> SUFFICES ASSUME NEW f \in Bijection(1 .. N, D)
               PROVE  /\ \A i \in 1 .. N : f[i] \in D
                      /\ \A x \in D : \E i \in 1 .. N : f[i] = x
                      /\ \A i, j \in 1 .. N : f[i] = f[j] => i = j
    OBVIOUS
  <2>1. f \in [1 .. N -> D]
    BY DEF Bijection, Injection
  <2>2. \A x \in D : \E i \in 1 .. N : f[i] = x
    BY DEF Bijection, Surjection
  <2>3. \A i, j \in 1 .. N : f[i] = f[j] => i = j
    BY <2>1 DEF Bijection, Injection, IsInjective
  <2>4. QED
    BY <2>1, <2>2, <2>3
<1>2. ASSUME NEW i \in 1 .. N, p[i] \in U,
             \A k \in 1 .. N : k > i /\ p[k] \in U => p[k] = q[k]
      PROVE  p[i] = q[i]
  <2>1. \A k \in 1 .. N : k > i => p[k] = q[k]
    BY <1>2 DEF EndsIn
  <2>2. PICK m \in 1 .. N : q[m] = p[i]
    BY <1>1
  <2>3. PICK l \in 1 .. N : p[l] = q[i]
    BY <1>1
  <2>4. m <= i
    BY <1>1, <2>1, <2>2
  <2>5. l <= i
    BY <1>1, <2>1, <2>3
  <2>6. CASE m < i /\ l < i
    <3>1. q[i] \in U
      BY <1>2, <2>2, <2>6 DEF EndsIn
    <3>2. <<p[i], q[i]>> \in more
      BY <2>2, <2>6 DEF Follows
    <3>3. <<q[i], p[i]>> \in less
      BY <2>3, <2>6 DEF Follows
    <3>4. <<p[i], q[i]>> \in less
      BY <1>2, <3>1, <3>2 DEF AgreeOn
    <3>5. p[i] \in D /\ q[i] \in D
      BY <1>1
    <3>6. QED
      BY <3>3, <3>4, <3>5 DEF Asymmetric
  <2>7. CASE m = i \/ l = i
    BY <2>2, <2>3, <2>7
  <2>8. QED
    BY <2>4, <2>5, <2>6, <2>7
<1>3. 0 \in K
  <2> SUFFICES ASSUME NEW i \in 1 .. N, N - i <= 0, p[i] \in U PROVE p[i] = q[i]
    OBVIOUS
  <2>1. \A k \in 1 .. N : ~(k > i)
    OBVIOUS
  <2>2. QED
    BY <1>2, <2>1
<1>4. ASSUME NEW d \in K PROVE d + 1 \in K
  <2>1. d \in Nat /\ \A i \in 1 .. N : N - i <= d /\ p[i] \in U => p[i] = q[i]
    OBVIOUS
  <2> SUFFICES ASSUME NEW i \in 1 .. N, N - i <= d + 1, p[i] \in U PROVE p[i] = q[i]
    BY <2>1
  <2>2. \A k \in 1 .. N : k > i => N - k <= d
    BY <2>1
  <2>3. \A k \in 1 .. N : k > i /\ p[k] \in U => p[k] = q[k]
    BY <2>1, <2>2
  <2>4. QED
    BY <1>2, <2>3
<1> HIDE DEF K
<1>5. \A d \in Nat : d \in K
  <2>1. K \in SUBSET Nat
    BY DEF K
  <2>2. QED
    BY <1>3, <1>4, <2>1, InductionSet
<1>6. QED
  <2> TAKE i \in 1 .. N
  <2>1. N - i \in K /\ N - i <= N - i
    BY <1>5
  <2>2. QED
    BY <2>1 DEF K
=============================================================================
