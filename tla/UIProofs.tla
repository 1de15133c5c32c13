------------------------------ MODULE UIProofs ------------------------------
(***************************************************************************)
(* Proofs about one open page of peevee and what it shows: for any fleets, *)
(* page sizes and searches, and with answers in any order.                 *)
(***************************************************************************)
EXTENDS View, QueryProofs

-----------------------------------------------------------------------------
\* The inductive invariant

Requests ==
    {q \in [clusters : SUBSET Nat, namespaces : SUBSET Nat, storageClass : SUBSET Nat,
            provisioner : SUBSET Nat, status : SUBSET STRING, minUsage : Nat, search : Nat,
            atRisk : BOOLEAN, sort : Columns, desc : BOOLEAN, limit : Nat, offset : Nat] :
        q.limit > 0 => q.offset % q.limit = 0}

Answers == {NoData} \cup {a \in [matched : Nat, shown : Nat] : a.shown <= a.matched}

Loads == [query : Requests, answer : Answers]

States ==
    {s \in [search : Searches \cup {0}, atRisk : BOOLEAN, sort : Columns, desc : BOOLEAN,
            pageSize : PageSizes, offset : Nat \cup {NaN}] :
        /\ s.offset = NaN => s.pageSize = 0
        /\ s.pageSize > 0 => s.offset % s.pageSize = 0}

\* The page that is shown exists, or something is under way that will show another.
PageOrLoad == loads = <<>> /\ ~failed => data # NoData /\ ~PastEnd(data)

UIInv ==
    /\ volumes \in Fleets
    /\ event \in BOOLEAN /\ typing \in BOOLEAN /\ clearable \in BOOLEAN /\ failed \in BOOLEAN
    /\ moves \in 0 .. MaxMoves /\ collections \in 0 .. MaxCollections
    /\ state \in States
    /\ loads \in Seq(Loads)
    /\ data \in Answers
    /\ PageOrLoad

(***************************************************************************)
(* A page asks for a whole number of pages before it.                      *)
(***************************************************************************)
LEMMA PagedQueryType ==
  ASSUME NEW s \in States
  PROVE  PagedQuery(s) \in Requests
<1>1. PageSizes \subseteq Nat /\ Searches \subseteq Nat
  BY UIAssumption
<1>2. /\ s.search \in Searches \cup {0} /\ s.atRisk \in BOOLEAN /\ s.sort \in Columns /\ s.desc \in BOOLEAN
      /\ s.pageSize \in PageSizes /\ s.offset \in Nat \cup {NaN}
      /\ s.offset = NaN => s.pageSize = 0
      /\ s.pageSize > 0 => s.offset % s.pageSize = 0
  BY DEF States
<1>3. s.pageSize \in Nat /\ s.search \in Nat
  <2>1. s.pageSize \in Nat
    BY <1>1, <1>2
  <2>2. CASE s.search = 0
    BY <2>1, <2>2
  <2>3. CASE s.search \in Searches
    BY <1>1, <2>1, <2>3
  <2>4. QED
    BY <1>2, <2>2, <2>3
<1>4. ASSUME NEW limit \in Nat, NEW offset \in Nat, limit > 0 => offset % limit = 0
      PROVE  QueryFromRequest(Asked(s, limit, offset)) \in Requests
  BY <1>2, <1>3, <1>4 DEF QueryFromRequest, Asked, Multi, Positive, Requests
<1>5. CASE s.pageSize > 0
  <2>1. s.offset \in Nat /\ s.offset % s.pageSize = 0
    BY <1>2, <1>5
  <2>2. QED
    BY <1>3, <1>4, <1>5, <2>1 DEF PagedQuery
<1>6. CASE ~(s.pageSize > 0)
  BY <1>4, <1>6 DEF PagedQuery, QueryString
<1>7. QED
  BY <1>5, <1>6

LEMMA FleetsAreSequences == Fleets \subseteq Seq(Volume)
BY DEF Fleets

(***************************************************************************)
(* No answer is taken for none, and none shows more rows than there are.   *)
(***************************************************************************)
LEMMA AnswerType ==
  ASSUME volumes \in Fleets, NEW q \in Requests
  PROVE  Answer(q) \in Answers \ {NoData}
<1> DEFINE n   == Len(Rows(volumes, q))
           end == PageEnd(n, q.offset, q.limit)
<1>1. n \in Nat
  BY FleetsAreSequences, RowsAreSelected, LenProperties
<1>2. q.offset \in Nat /\ q.limit \in Nat
  BY DEF Requests
<1>3. end \in 0 .. n
  BY <1>1, <1>2, PageEndBound
<1>4. Answer(q) = [matched |-> n, shown |-> Cardinality(q.offset + 1 .. end)]
  BY DEF Answer, Summary
<1> HIDE DEF n, end
<1>5. Cardinality(q.offset + 1 .. end) = IF q.offset + 1 > end THEN 0 ELSE end - (q.offset + 1) + 1
  <2>1. q.offset + 1 \in Int /\ end \in Int
    BY <1>1, <1>2, <1>3
  <2>2. QED
    BY <2>1, FS_Interval
<1>6. Cardinality(q.offset + 1 .. end) \in 0 .. n
  BY <1>1, <1>2, <1>3, <1>5
<1>7. QED
  BY <1>1, <1>4, <1>6 DEF Answers, NoData

LEMMA RemoveAtType ==
  ASSUME NEW T, NEW s \in Seq(T), NEW i \in DOMAIN s
  PROVE  RemoveAt(s, i) \in Seq(T)
<1>1. i \in 1 .. Len(s) /\ Len(s) \in Nat
  OBVIOUS
<1>2. SubSeq(s, 1, i - 1) \in Seq(T)
  BY <1>1, SubSeqProperties
<1>3. SubSeq(s, i + 1, Len(s)) \in Seq(T)
  BY <1>1, SubSeqProperties
<1>4. QED
  BY <1>2, <1>3, ConcatProperties DEF RemoveAt

(***************************************************************************)
(* The page to which renderPager steps back from one that does not exist:  *)
(* it exists unless nothing was found, and it lies before that page.       *)
(***************************************************************************)
LEMMA SteppedBackTo ==
  ASSUME NEW matched \in Nat, NEW size \in Nat \ {0}
  PROVE  LET offset == NotNegative(LastOffset(matched, size))
         IN  /\ offset \in Nat /\ offset % size = 0
             /\ offset = 0 \/ offset < matched
<1>1. CASE matched = 0
  <2>1. (matched + size - 1) \div size = 0
    BY <1>1
  <2>2. LastOffset(matched, size) = -size
    BY <2>1 DEF LastOffset, CeilDiv
  <2>3. QED
    BY <2>2 DEF NotNegative
<1>2. CASE matched > 0
  <2> DEFINE pages == (matched + size - 1) \div size
  <2>1. pages \in Nat /\ pages >= 1 /\ (pages - 1) * size < matched
    BY <1>2
  <2>2. LastOffset(matched, size) = (pages - 1) * size
    BY DEF LastOffset, CeilDiv
  <2> HIDE DEF pages
  <2>3. (pages - 1) * size \in Nat /\ ((pages - 1) * size) % size = 0
    BY <2>1
  <2>4. QED
    BY <2>1, <2>2, <2>3 DEF NotNegative
<1>3. QED
  BY <1>1, <1>2

(***************************************************************************)
(* A load that begins is one under way.                                    *)
(***************************************************************************)
LEMMA LoadBegins ==
  ASSUME NEW under \in Seq(Loads), NEW s \in States, LoadNow(s, under)
  PROVE  loads' \in Seq(Loads) /\ loads' # << >>
<1> DEFINE load == [query |-> PagedQuery(s), answer |-> NoData]
<1>1. load \in Loads
  BY PagedQueryType DEF Loads, Answers
<1>2. loads' = Append(under, load)
  BY DEF LoadNow
<1> HIDE DEF load
<1>3. Append(under, load) \in Seq(Loads) /\ Len(Append(under, load)) = Len(under) + 1
  BY <1>1, AppendProperties
<1>4. Len(under) \in Nat
  BY LenProperties
<1>5. Append(under, load) # << >>
  BY <1>3, <1>4
<1>6. QED
  BY <1>2, <1>3, <1>5

(***************************************************************************)
(* A page number fits the page size.                                       *)
(***************************************************************************)
LEMMA OffsetsFit ==
  ASSUME NEW s \in States
  PROVE  /\ s.pageSize \in Nat
         /\ s.pageSize > 0 => s.offset \in Nat /\ s.offset % s.pageSize = 0
         /\ s.pageSize \in PageSizes /\ s.offset \in Nat \cup {NaN}
<1>1. /\ s.pageSize \in PageSizes /\ s.offset \in Nat \cup {NaN}
      /\ s.offset = NaN => s.pageSize = 0
      /\ s.pageSize > 0 => s.offset % s.pageSize = 0
  BY DEF States
<1>2. s.pageSize \in Nat
  BY <1>1, UIAssumption
<1>3. QED
  BY <1>1, <1>2

(***************************************************************************)
(* Any offset that is a multiple of the page size may be asked for.        *)
(***************************************************************************)
LEMMA OffsetChosen ==
  ASSUME NEW s \in States, NEW offset \in Nat \cup {NaN},
         offset = NaN => s.pageSize = 0,
         s.pageSize > 0 => offset % s.pageSize = 0
  PROVE  [s EXCEPT !.offset = offset] \in States
BY DEF States

(***************************************************************************)
(* Changes of the query other than of the page.                            *)
(***************************************************************************)
LEMMA FirstPageChosen ==
  ASSUME NEW s \in [search : Searches \cup {0}, atRisk : BOOLEAN, sort : Columns,
                    desc : BOOLEAN, pageSize : PageSizes, offset : Nat \cup {NaN}]
  PROVE  [s EXCEPT !.offset = 0] \in States
<1>1. s.pageSize \in PageSizes
  OBVIOUS
<1>2. s.pageSize \in Nat
  BY <1>1, UIAssumption
<1>3. s.pageSize > 0 => 0 % s.pageSize = 0
  BY <1>2
<1>4. QED
  BY <1>3 DEF States, NaN

-----------------------------------------------------------------------------
\* Every step keeps the invariant

LEMMA UIInitInv == UIInit => UIInv
<1> SUFFICES ASSUME UIInit PROVE UIInv
  OBVIOUS
<1>1. volumes \in Fleets
  BY UIAssumption DEF UIInit
<1>2. state \in States
  <2>1. PICK n \in PageSizes :
          state = [search |-> 0, atRisk |-> FALSE, sort |-> "usage", desc |-> FALSE,
                   pageSize |-> n, offset |-> 0]
    BY DEF UIInit
  <2>2. n \in Nat
    BY UIAssumption
  <2>3. n > 0 => 0 % n = 0
    BY <2>2
  <2>4. QED
    BY <2>1, <2>2, <2>3 DEF States, NaN, Columns
<1>3. loads \in Seq(Loads) /\ loads # << >>
  <2>1. [query |-> PagedQuery(state), answer |-> NoData] \in Loads
    BY <1>2, PagedQueryType DEF Loads, Answers
  <2>2. QED
    BY <2>1 DEF UIInit
<1>4. moves \in 0 .. MaxMoves /\ collections \in 0 .. MaxCollections
  BY UIAssumption DEF UIInit
<1>5. QED
  BY <1>1, <1>2, <1>3, <1>4 DEF UIInit, UIInv, PageOrLoad, Answers

LEMMA LoadType ==
  ASSUME UIInv, NEW i \in DOMAIN loads
  PROVE  loads[i] \in Loads /\ loads[i].query \in Requests /\ loads[i].answer \in Answers
<1>1. loads \in Seq(Loads)
  BY DEF UIInv
<1>2. loads[i] \in Loads
  BY <1>1
<1>3. QED
  BY <1>2 DEF Loads

LEMMA ServerKeepsInv ==
  ASSUME UIInv, Collect \/ \E i \in DOMAIN loads : Respond(i)
  PROVE  UIInv'
<1>1. CASE Collect
  <2>1. PICK change \in Changes : volumes' = change[2]
    BY <1>1 DEF Collect
  <2>2. volumes' \in Fleets
    BY <2>1, UIAssumption
  <2>3. collections' \in 0 .. MaxCollections
    BY <1>1, UIAssumption DEF UIInv, Collect
  <2>4. PageOrLoad'
    BY <1>1 DEF UIInv, PageOrLoad, PastEnd, Collect
  <2>5. QED
    BY <1>1, <2>2, <2>3, <2>4 DEF UIInv, Collect
<1>2. ASSUME NEW i \in DOMAIN loads, Respond(i)
      PROVE  UIInv'
  <2>1. loads[i] \in Loads /\ loads[i].query \in Requests
    BY LoadType
  <2>2. Answer(loads[i].query) \in Answers
    BY <2>1, AnswerType DEF UIInv
  <2>3. loads' \in Seq(Loads) /\ Len(loads') = Len(loads)
    <3> DEFINE load == [loads[i] EXCEPT !.answer = Answer(loads[i].query)]
    <3>1. load \in Loads
      BY <2>1, <2>2 DEF Loads
    <3>2. loads' = [loads EXCEPT ![i] = load]
      BY <1>2 DEF Respond
    <3> HIDE DEF load
    <3>3. QED
      BY <3>1, <3>2 DEF UIInv
  <2>4. loads # << >> /\ loads' # << >>
    BY <2>3 DEF UIInv
  <2>5. QED
    BY <1>2, <2>3, <2>4 DEF UIInv, PageOrLoad, Respond
<1>3. QED
  BY <1>1, <1>2

LEMMA ReceiveKeepsInv ==
  ASSUME UIInv, NEW i \in DOMAIN loads, Receive(i)
  PROVE  UIInv'
<1> DEFINE answer == loads[i].answer
           rest   == RemoveAt(loads, i)
<1>1. answer \in Answers /\ answer # NoData
  BY LoadType DEF Receive
<1>2. rest \in Seq(Loads)
  BY RemoveAtType DEF UIInv
<1>3. data' = answer /\ failed' = FALSE /\ clearable' \in BOOLEAN
  BY DEF Receive, HasActiveFilters, UIInv, States
<1>4. UNCHANGED <<volumes, event, typing, moves, collections>>
  BY DEF Receive
<1>5. CASE PastEnd(answer) /\ StepBack(answer.matched, rest)
  <2>1. state.pageSize \in Nat \ {0}
    BY <1>5, OffsetsFit DEF UIInv, PastEnd
  <2>2. answer.matched \in Nat
    BY <1>1 DEF Answers
  <2> DEFINE offset == NotNegative(LastOffset(answer.matched, state.pageSize))
  <2>3. offset \in Nat /\ offset % state.pageSize = 0
    BY <2>1, <2>2, SteppedBackTo
  <2>4. state' = [state EXCEPT !.offset = offset]
    BY <1>5 DEF StepBack
  <2>5. LoadNow(state', rest)
    BY <1>5 DEF StepBack
  <2> HIDE DEF offset
  <2>6. state' \in States
    BY <2>1, <2>3, <2>4, OffsetChosen DEF UIInv, NaN
  <2> HIDE DEF rest, answer
  <2>7. loads' \in Seq(Loads) /\ loads' # << >>
    BY <1>2, <2>5, <2>6, LoadBegins
  <2>8. QED
    BY <1>1, <1>3, <1>4, <2>6, <2>7 DEF UIInv, PageOrLoad
<1>6. CASE ~PastEnd(answer) /\ loads' = rest /\ UNCHANGED state
  <2>1. PageOrLoad'
    BY <1>1, <1>3, <1>6 DEF PageOrLoad, PastEnd
  <2>2. QED
    BY <1>1, <1>2, <1>3, <1>4, <1>6, <2>1 DEF UIInv
<1>7. QED
  BY <1>5, <1>6 DEF Receive

\* The fields of a state, however they fit together.
Shapes ==
    [search : Searches \cup {0}, atRisk : BOOLEAN, sort : Columns, desc : BOOLEAN,
     pageSize : PageSizes, offset : Nat \cup {NaN}]

(***************************************************************************)
(* A query that changed is loaded from its first page.                     *)
(***************************************************************************)
LEMMA ReloadKeepsInv ==
  ASSUME UIInv, NEW s \in Shapes, Reload(s), typing' \in BOOLEAN, moves' \in 0 .. MaxMoves,
         UNCHANGED <<volumes, event, data, pager, clearable, failed, collections>>
  PROVE  UIInv'
<1>1. state' \in States
  BY FirstPageChosen DEF Reload, Shapes
<1>2. loads' \in Seq(Loads) /\ loads' # << >>
  BY <1>1, LoadBegins DEF Reload, UIInv
<1>3. QED
  BY <1>1, <1>2 DEF UIInv, PageOrLoad

LEMMA PageKeepsInv ==
  ASSUME UIInv, Snapshot \/ Typed \/ \E i \in DOMAIN loads : Fail(i)
  PROVE  UIInv'
<1>1. CASE Snapshot
  <2>1. loads' \in Seq(Loads) /\ loads' # << >>
    BY <1>1, LoadBegins DEF Snapshot, UIInv
  <2>2. QED
    BY <1>1, <2>1 DEF Snapshot, UIInv, PageOrLoad
<1>2. CASE Typed
  <2>1. state \in Shapes
    BY DEF UIInv, States, Shapes
  <2>2. QED
    BY <1>2, <2>1, ReloadKeepsInv DEF Typed, UIInv
<1>3. ASSUME NEW i \in DOMAIN loads, Fail(i)
      PROVE  UIInv'
  <2>1. loads' \in Seq(Loads)
    BY <1>3, RemoveAtType DEF Fail, UIInv
  <2>2. QED
    BY <1>3, <2>1 DEF Fail, UIInv, PageOrLoad
<1>4. QED
  BY <1>1, <1>2, <1>3

(***************************************************************************)
(* What the user changes of the query.                                     *)
(***************************************************************************)
LEMMA ChoiceKeepsInv ==
  ASSUME UIInv, Type \/ ToggleAtRisk \/ ClearFilters \/ SetPageSize \/ SortBy
  PROVE  UIInv'
<1>1. state \in Shapes
  BY DEF UIInv, States, Shapes
<1>2. moves' \in 0 .. MaxMoves /\ UNCHANGED <<volumes, event, data, pager, clearable, failed, collections>>
  <2>1. Move
    BY DEF Type, ToggleAtRisk, ClearFilters, SetPageSize, SortBy
  <2>2. moves \in 0 .. MaxMoves /\ MaxMoves \in Nat
    BY UIAssumption DEF UIInv
  <2>3. QED
    BY <2>1, <2>2 DEF Move
<1>3. CASE Type
  <2>1. PICK word \in Searches : state' = [state EXCEPT !.search = word]
    BY <1>3 DEF Type
  <2>2. state' \in States /\ state'.offset = state.offset /\ state'.pageSize = state.pageSize
    BY <2>1 DEF UIInv, States
  <2>3. QED
    BY <1>2, <1>3, <2>2 DEF UIInv, PageOrLoad, PastEnd, Type
<1>4. CASE ToggleAtRisk
  <2>1. [state EXCEPT !.atRisk = ~@] \in Shapes
    BY <1>1 DEF Shapes
  <2>2. QED
    BY <1>2, <1>4, <2>1, ReloadKeepsInv DEF ToggleAtRisk, UIInv
<1>5. CASE ClearFilters
  <2>1. [state EXCEPT !.atRisk = FALSE, !.search = 0] \in Shapes
    BY <1>1 DEF Shapes
  <2>2. QED
    BY <1>2, <1>5, <2>1, ReloadKeepsInv DEF ClearFilters, UIInv
<1>6. CASE SetPageSize
  <2>1. PICK n \in PageSizes : Reload([state EXCEPT !.pageSize = n])
    BY <1>6 DEF SetPageSize
  <2>2. [state EXCEPT !.pageSize = n] \in Shapes
    BY <1>1 DEF Shapes
  <2>3. QED
    BY <1>2, <1>6, <2>1, <2>2, ReloadKeepsInv DEF SetPageSize, UIInv
<1>7. CASE SortBy
  <2>1. PICK column \in SortColumns :
          Reload(IF state.sort = column THEN [state EXCEPT !.desc = ~@]
                 ELSE [state EXCEPT !.sort = column, !.desc = FALSE])
    BY <1>7 DEF SortBy
  <2>2. column \in Columns
    BY UIAssumption
  <2>3. [state EXCEPT !.desc = ~@] \in Shapes /\ [state EXCEPT !.sort = column, !.desc = FALSE] \in Shapes
    BY <1>1, <2>2 DEF Shapes
  <2>4. QED
    BY <1>2, <1>7, <2>1, <2>3, ReloadKeepsInv DEF SortBy, UIInv
<1>8. QED
  BY <1>3, <1>4, <1>5, <1>6, <1>7

(***************************************************************************)
(* A button of the pager leads to a multiple of the page size.             *)
(***************************************************************************)
LEMMA OffsetKeepsInv ==
  ASSUME UIInv, NEW offset \in Nat \cup {NaN}, GoToOffset(offset),
         offset = NaN => state.pageSize = 0,
         state.pageSize > 0 => offset % state.pageSize = 0
  PROVE  UIInv'
<1>1. state' \in States
  BY OffsetChosen DEF GoToOffset, UIInv
<1>2. loads' \in Seq(Loads) /\ loads' # << >>
  BY <1>1, LoadBegins DEF GoToOffset, UIInv
<1>3. moves' \in 0 .. MaxMoves
  BY UIAssumption DEF GoToOffset, Move, UIInv
<1>4. QED
  BY <1>1, <1>2, <1>3 DEF UIInv, PageOrLoad, GoToOffset, Move

LEMMA PagerKeepsInv ==
  ASSUME UIInv, PageFirst \/ PagePrev \/ PageNext \/ PageLast
  PROVE  UIInv'
<1> DEFINE size == state.pageSize
<1>1. /\ size \in Nat
      /\ size > 0 => state.offset \in Nat /\ state.offset % size = 0
      /\ state.offset \in Nat \cup {NaN}
      /\ state.offset = NaN => size = 0
  BY OffsetsFit DEF UIInv, States
<1>2. ASSUME NEW d \in {-size, size}
      PROVE  /\ Beside(d) \in Nat \cup {NaN}
             /\ Beside(d) = NaN => size = 0
             /\ size > 0 => Beside(d) % size = 0
  <2>1. CASE size = 0
    BY <1>1, <2>1 DEF Beside, NotNegative, NaN
  <2>2. CASE size > 0
    <3>1. state.offset \in Nat /\ state.offset % size = 0 /\ state.offset # NaN
      BY <1>1, <2>2 DEF NaN
    <3>2. Beside(d) = IF state.offset + d < 0 THEN 0 ELSE state.offset + d
      BY <3>1 DEF Beside, NotNegative
    <3> HIDE DEF size
    <3>3. (state.offset + size) % size = 0 /\ (state.offset - size) % size = 0 /\ 0 % size = 0
      <4> SUFFICES ASSUME NEW m \in Nat, NEW n \in Nat \ {0}, m % n = 0
                   PROVE  (m + n) % n = 0 /\ (m - n) % n = 0 /\ 0 % n = 0
        BY <1>1, <2>2, <3>1
      <4> DEFINE k == m \div n
      <4>1. k \in Nat /\ m = n * k
        OBVIOUS
      <4> HIDE DEF k
      <4>2. m + n = (k + 1) * n /\ m - n = (k - 1) * n
        BY <4>1
      <4>3. \A j \in Int : (j * n) % n = 0
        OBVIOUS
      <4>4. ((k + 1) * n) % n = 0 /\ ((k - 1) * n) % n = 0 /\ 0 % n = 0
        BY <4>1, <4>3
      <4>5. QED
        BY <4>2, <4>4
    <3>4. QED
      BY <1>1, <2>2, <3>1, <3>2, <3>3 DEF NaN
  <2>3. QED
    BY <1>1, <2>1, <2>2
<1>3. CASE PageFirst
  <2>1. GoToOffset(0) /\ 0 # NaN
    BY <1>3 DEF PageFirst, NaN
  <2>2. size > 0 => 0 % size = 0
    BY <1>1
  <2>3. QED
    BY <2>1, <2>2, OffsetKeepsInv
<1>4. CASE PagePrev
  <2>1. GoToOffset(Beside(-size))
    BY <1>4 DEF PagePrev
  <2>2. QED
    BY <1>2, <2>1, OffsetKeepsInv
<1>5. CASE PageNext
  <2>1. GoToOffset(Beside(size))
    BY <1>5 DEF PageNext
  <2>2. QED
    BY <1>2, <2>1, OffsetKeepsInv
<1>6. CASE PageLast
  <2> DEFINE matched == IF data = NoData THEN 0 ELSE data.matched
  <2>1. GoToOffset(IF size = 0 THEN NaN ELSE NotNegative(LastOffset(matched, size)))
    BY <1>6 DEF PageLast
  <2>2. matched \in Nat
    BY DEF UIInv, Answers
  <2> HIDE DEF matched
  <2>3. size # 0 => /\ NotNegative(LastOffset(matched, size)) \in Nat
                    /\ NotNegative(LastOffset(matched, size)) % size = 0
    BY <1>1, <2>2, SteppedBackTo
  <2>4. QED
    BY <1>1, <2>1, <2>3, OffsetKeepsInv DEF NaN
<1>7. QED
  BY <1>3, <1>4, <1>5, <1>6

LEMMA UIStep == UIInv /\ [UINext]_uivars => UIInv'
<1> SUFFICES ASSUME UIInv, [UINext]_uivars PROVE UIInv'
  OBVIOUS
<1>1. CASE UINext
  BY <1>1, ServerKeepsInv, PageKeepsInv, ReceiveKeepsInv, ChoiceKeepsInv, PagerKeepsInv
     DEF UINext, User
<1>2. CASE UNCHANGED uivars
  BY <1>2 DEF UIInv, uivars, PageOrLoad, PastEnd
<1>3. QED
  BY <1>1, <1>2

LEMMA UIInvariant == UISafeSpec => []UIInv
<1>1. QED
  BY UIInitInv, UIStep, PTL DEF UISafeSpec

-----------------------------------------------------------------------------
\* What follows

(***************************************************************************)
(* Every page that is asked for begins at a multiple of the page size,     *)
(* whatever the user clicks, also when the last page of a list without     *)
(* pages is asked for; and no answer shows more rows than it counts.       *)
(***************************************************************************)
THEOREM UITypeCorrect == UISafeSpec => []UITypeOK
<1>1. UIInv => UITypeOK
  <2> SUFFICES ASSUME UIInv PROVE UITypeOK
    OBVIOUS
  <2>1. /\ state.pageSize \in PageSizes /\ state.search \in Searches \cup {0}
        /\ state.sort \in Columns
        /\ state.offset = NaN => state.pageSize = 0
        /\ state.pageSize > 0 => state.offset % state.pageSize = 0
    BY DEF UIInv, States
  <2>2. \A i \in DOMAIN loads :
           LET q == loads[i].query IN q.limit > 0 => q.offset % q.limit = 0
    BY LoadType DEF Requests
  <2>3. data # NoData => data.matched \in Nat /\ data.shown \in 0 .. data.matched
    BY DEF UIInv, Answers
  <2>4. QED
    BY <2>1, <2>2, <2>3 DEF UIInv, UITypeOK
<1>2. QED
  BY <1>1, UIInvariant, PTL

(***************************************************************************)
(* A page at rest is a page of the list that was found, in whatever order  *)
(* the answers came: the load that ended last was compared with the page   *)
(* that is asked for, and begins another where that page does not exist.   *)
(***************************************************************************)
THEOREM ThePageExists == UISafeSpec => []PageExists
<1>1. UIInv => PageExists
  <2> SUFFICES ASSUME UIInv, AtRest, ~failed, state.pageSize > 0
               PROVE  state.offset = 0 \/ state.offset < data.matched
    BY DEF PageExists
  <2>1. data # NoData /\ ~PastEnd(data)
    BY DEF UIInv, PageOrLoad, AtRest
  <2>2. state.offset \in Nat
    BY OffsetsFit DEF UIInv
  <2>3. data.matched \in Nat
    BY <2>1 DEF UIInv, Answers
  <2>4. QED
    BY <2>1, <2>2, <2>3 DEF PastEnd
<1>2. QED
  BY <1>1, UIInvariant, PTL

(***************************************************************************)
(* "The offset strictly decreases, so this cannot loop" (renderPager): an  *)
(* answer changes the page that is asked for only to one before it, which  *)
(* exists in the list that was found.                                      *)
(***************************************************************************)
OnlyBack ==
    \A i \in DOMAIN loads :
        Receive(i) => \/ state' = state
                      \/ /\ state' = [state EXCEPT !.offset = state'.offset]
                         /\ state'.offset < state.offset
                         /\ state'.offset = 0 \/ state'.offset < data'.matched

THEOREM AnswersStepBack == UISafeSpec => [][OnlyBack]_uivars
<1>1. UIInv => OnlyBack
  <2> SUFFICES ASSUME UIInv, NEW i \in DOMAIN loads, Receive(i), state' # state
               PROVE  /\ state' = [state EXCEPT !.offset = state'.offset]
                      /\ state'.offset < state.offset
                      /\ state'.offset = 0 \/ state'.offset < data'.matched
    BY DEF OnlyBack
  <2> DEFINE answer == loads[i].answer
             offset == NotNegative(LastOffset(answer.matched, state.pageSize))
  <2>1. /\ PastEnd(answer) /\ data' = answer
        /\ state' = [state EXCEPT !.offset = offset]
    BY DEF Receive, StepBack
  <2>2. answer.matched \in Nat
    BY LoadType DEF Receive, Answers
  <2>3. state.pageSize \in Nat \ {0} /\ state.offset \in Nat
    BY <2>1, OffsetsFit DEF UIInv, PastEnd
  <2>4. state.offset > 0 /\ state.offset >= answer.matched
    BY <2>1 DEF PastEnd
  <2>5. offset \in Nat /\ (offset = 0 \/ offset < answer.matched)
    BY <2>2, <2>3, SteppedBackTo
  <2> HIDE DEF offset, answer
  <2>6. state'.offset = offset
    BY <2>1 DEF UIInv, States
  <2>7. QED
    BY <2>1, <2>2, <2>3, <2>4, <2>5, <2>6
<1>2. QED
  BY <1>1, UIInvariant, PTL DEF UISafeSpec

-----------------------------------------------------------------------------
\* Pages and the export

(***************************************************************************)
(* The rows depend on the filters alone.                                   *)
(***************************************************************************)
SameFilters(q, r) ==
    /\ q.clusters = r.clusters /\ q.namespaces = r.namespaces
    /\ q.storageClass = r.storageClass /\ q.provisioner = r.provisioner
    /\ q.status = r.status /\ q.minUsage = r.minUsage /\ q.search = r.search
    /\ q.atRisk = r.atRisk

LEMMA RowsOfFilters ==
  ASSUME NEW fleet, NEW q, NEW r, SameFilters(q, r)
  PROVE  Rows(fleet, q) = Rows(fleet, r)
<1>1. Selected(fleet, q) = Selected(fleet, r)
  BY DEF SameFilters, Selected, Matches
<1>2. QED
  BY <1>1 DEF Rows

\* The page that is asked for changes nothing else of the query.
LEMMA AskedAlike ==
  ASSUME NEW s, NEW t, NEW limit, NEW more, NEW offset, NEW further,
         s.search = t.search, s.atRisk = t.atRisk, s.sort = t.sort, s.desc = t.desc
  PROVE  LET q == QueryFromRequest(Asked(s, limit, offset))
             r == QueryFromRequest(Asked(t, more, further))
         IN  SameFilters(q, r) /\ q.sort = r.sort /\ q.desc = r.desc
<1> DEFINE q == QueryFromRequest(Asked(s, limit, offset))
           r == QueryFromRequest(Asked(t, more, further))
<1>1. /\ q.clusters = r.clusters /\ q.namespaces = r.namespaces
      /\ q.storageClass = r.storageClass /\ q.provisioner = r.provisioner
      /\ q.status = r.status
  BY DEF QueryFromRequest, Asked
<1>2. /\ q.minUsage = r.minUsage /\ q.search = r.search /\ q.atRisk = r.atRisk
      /\ q.sort = r.sort /\ q.desc = r.desc
  BY DEF QueryFromRequest, Asked
<1>3. QED
  BY <1>1, <1>2 DEF SameFilters

LEMMA SortedIsSequence ==
  ASSUME NEW V, NEW rows \in Seq(V), NEW column, NEW desc
  PROVE  /\ SortRows(rows, column, desc) \in Seq(Range(SortRows(rows, column, desc)))
         /\ Len(SortRows(rows, column, desc)) = Len(rows)
<1> DEFINE sorted == SortRows(rows, column, desc)
<1>1. sorted = [n \in 1 .. Len(rows) |-> sorted[n]] /\ DOMAIN sorted = 1 .. Len(rows)
  BY DEF SortRows
<1>2. \A n \in 1 .. Len(rows) : sorted[n] \in Range(sorted)
  BY <1>1 DEF Range
<1>3. Len(rows) \in Nat
  OBVIOUS
<1> HIDE DEF sorted
<1>4. sorted \in Seq(Range(sorted)) /\ Len(sorted) = Len(rows)
  BY <1>1, <1>2, <1>3
<1>5. QED
  BY <1>4 DEF sorted

(***************************************************************************)
(* The pages of any fleet tile its export: a page of a query is a piece of *)
(* one sorted list, the same for every page.                               *)
(***************************************************************************)
THEOREM PagesAreTiles == UISafeSpec => []PagesTileTheExport
<1>1. ASSUME UIInv,
             NEW column \in {"usage", "name", "daysUntilFull"}, NEW desc \in BOOLEAN,
             NEW risk \in BOOLEAN, NEW size \in PageSizes \ {0}
      PROVE  LET s == [state EXCEPT !.sort = column, !.desc = desc, !.atRisk = risk,
                                    !.pageSize = size]
                 export == ExportRows(volumes, QueryString(s))
                 At(n)  == Query(volumes, PagedQuery([s EXCEPT !.offset = (n - 1) * size])).volumes
                 Row(n, k) == (n - 1) * size + k
             IN  \A n \in 1 .. Len(export) + 1 :
                   LET page == At(n)
                   IN  /\ Len(page) <= size
                       /\ \A k \in 1 .. size : k <= Len(page) <=> Row(n, k) <= Len(export)
                       /\ \A k \in 1 .. Len(page) : page[k] = export[Row(n, k)]
  <2> DEFINE s == [state EXCEPT !.sort = column, !.desc = desc, !.atRisk = risk, !.pageSize = size]
             all    == QueryFromRequest(QueryString(s))
             sorted == SortRows(Rows(volumes, all), all.sort, all.desc)
             export == ExportRows(volumes, QueryString(s))
             At(n)  == Query(volumes, PagedQuery([s EXCEPT !.offset = (n - 1) * size])).volumes
  <2>1. size \in Nat \ {0}
    BY UIAssumption
  <2>2. s \in Shapes /\ s.pageSize = size
    <3>1. state \in Shapes
      BY <1>1 DEF UIInv, States, Shapes
    <3>2. column \in Columns
      BY DEF Columns
    <3>3. QED
      BY <3>1, <3>2 DEF Shapes
  <2> HIDE DEF s
  <2>3. volumes \in Seq(Volume)
    <3>1. volumes \in Fleets
      BY <1>1 DEF UIInv
    <3>2. QED
      BY <3>1, FleetsAreSequences
  <2>4. Rows(volumes, all) \in Seq(Volume)
    BY <2>3, RowsAreSelected
  <2>5. sorted \in Seq(Range(sorted))
    BY <2>4, SortedIsSequence
  <2>6. export = Page(sorted, 0, 0)
    BY DEF ExportRows
  <2>7. ASSUME NEW n \in Nat \ {0}
        PROVE  At(n) = Page(sorted, (n - 1) * size, size)
    <3> DEFINE paged  == [s EXCEPT !.offset = (n - 1) * size]
               q      == PagedQuery(paged)
    <3>1. (n - 1) * size \in Nat
      BY <2>1
    <3>2. /\ paged.pageSize = size /\ paged.offset = (n - 1) * size
          /\ paged.atRisk = s.atRisk /\ paged.search = s.search
          /\ paged.sort = s.sort /\ paged.desc = s.desc
      BY <2>2 DEF Shapes
    <3> HIDE DEF paged
    <3>3. q = QueryFromRequest(Asked(paged, size, (n - 1) * size))
      BY <2>1, <3>2 DEF PagedQuery
    <3>4. SameFilters(q, all) /\ q.sort = all.sort /\ q.desc = all.desc
      <4>1. all = QueryFromRequest(Asked(s, 0, 0))
        BY DEF QueryString
      <4>2. QED
        BY <3>2, <3>3, <4>1, AskedAlike
    <3>5. q.limit = size /\ q.offset = (n - 1) * size
      BY <2>1, <3>1, <3>3 DEF QueryFromRequest, Asked, Positive
    <3> HIDE DEF q, all
    <3>6. Rows(volumes, q) = Rows(volumes, all)
      BY <3>4, RowsOfFilters
    <3>7. QED
      BY <3>4, <3>5, <3>6 DEF Query, Shown, paged, q
  <2> HIDE DEF sorted
  <2>8. /\ export \in Seq(Range(sorted)) /\ Len(export) = Len(sorted)
        /\ \A k \in 1 .. Len(sorted) : export[k] = sorted[k]
    <3>1. /\ export \in Seq(Range(sorted))
          /\ \A k \in Nat \ {0} : k <= Len(export) <=> 0 + k <= Len(sorted)
          /\ \A k \in 1 .. Len(export) : export[k] = sorted[0 + k]
      BY <2>5, <2>6, PageIsAPiece
    <3>2. Len(export) \in Nat /\ Len(sorted) \in Nat
      BY <2>5, <3>1
    <3> HIDE DEF export
    <3>3. Len(export) = Len(sorted)
      <4>1. Len(export) > 0 => Len(export) <= Len(sorted)
        BY <3>1, <3>2
      <4>2. Len(sorted) > 0 => Len(sorted) <= Len(export)
        BY <3>1, <3>2
      <4>3. QED
        BY <3>2, <4>1, <4>2
    <3>4. QED
      BY <3>1, <3>2, <3>3
  <2>9. ASSUME NEW n \in 1 .. Len(export) + 1
        PROVE  /\ Len(At(n)) <= size
               /\ \A k \in 1 .. size : k <= Len(At(n)) <=> (n - 1) * size + k <= Len(export)
               /\ \A k \in 1 .. Len(At(n)) : At(n)[k] = export[(n - 1) * size + k]
    <3> DEFINE offset == (n - 1) * size
    <3>1. n \in Nat \ {0} /\ offset \in Nat
      BY <2>1, <2>8
    <3>2. At(n) = Page(sorted, offset, size)
      BY <2>7, <3>1
    <3> HIDE DEF offset, At, export
    <3>3. /\ At(n) \in Seq(Range(sorted))
          /\ size > 0 => Len(At(n)) <= size
          /\ \A k \in Nat \ {0} : (size = 0 \/ k <= size) =>
                (k <= Len(At(n)) <=> offset + k <= Len(sorted))
          /\ \A k \in 1 .. Len(At(n)) : At(n)[k] = sorted[offset + k]
      BY <2>1, <2>5, <3>1, <3>2, PageIsAPiece
    <3>4. \A k \in 1 .. size : k <= Len(At(n)) <=> offset + k <= Len(export)
      BY <2>1, <2>8, <3>3
    <3>5. \A k \in 1 .. Len(At(n)) : At(n)[k] = export[offset + k]
      <4> TAKE k \in 1 .. Len(At(n))
      <4>1. Len(At(n)) \in Nat /\ Len(At(n)) <= size
        BY <2>1, <3>3
      <4>2. offset + k \in 1 .. Len(sorted)
        BY <2>1, <2>5, <3>1, <3>3, <4>1
      <4>3. QED
        BY <2>8, <3>3, <4>2
    <3>6. QED
      BY <2>1, <3>3, <3>4, <3>5 DEF offset
  <2>10. QED
    BY <2>9 DEF s
<1>2. UIInv => PagesTileTheExport
  BY <1>1 DEF PagesTileTheExport
<1>3. QED
  BY <1>2, UIInvariant, PTL

-----------------------------------------------------------------------------
\* Series

\* The one value that a label has.
Tagged(x, key, value) == \A y : <<key, y>> \in x.labels <=> y = value

(***************************************************************************)
(* Samples of one series agree in every label that both have, and the      *)
(* empty value, which is not written, is a value too.                      *)
(***************************************************************************)
LEMMA TagsAgree ==
  ASSUME NEW x, NEW y, SameSeries(x, y), NEW key, NEW a \in Nat, NEW b \in Nat,
         Tagged(x, key, a), Tagged(y, key, b)
  PROVE  a = b
<1>1. \A l : l \in NotEmpty(x.labels) <=> l \in NotEmpty(y.labels)
  BY DEF SameSeries
<1>2. a # 0 => <<key, a>> \in y.labels
  BY <1>1 DEF NotEmpty, Tagged
<1>3. b # 0 => <<key, b>> \in x.labels
  BY <1>1 DEF NotEmpty, Tagged
<1>4. QED
  BY <1>2, <1>3 DEF Tagged

LEMMA RankNamesStatus ==
  ASSUME NEW status \in AllStatuses
  PROVE  StatusRank(status) \in 1 .. 7 /\ Statuses[StatusRank(status)] = status
<1>1. DOMAIN Statuses = 1 .. 7
  BY DEF Statuses
<1>2. \E i \in 1 .. 7 : Statuses[i] = status
  <2>1. /\ Statuses[1] = "block" /\ Statuses[2] = "error" /\ Statuses[3] = "ok"
        /\ Statuses[4] = "pending" /\ Statuses[5] = "stale" /\ Statuses[6] = "unmounted"
        /\ Statuses[7] = "unreported"
    BY DEF Statuses
  <2>2. QED
    BY <2>1 DEF AllStatuses
<1>3. QED
  BY <1>1, <1>2 DEF StatusRank

ClaimFamilies ==
    {"kubelet_volume_stats_capacity_bytes", "kubelet_volume_stats_used_bytes",
     "kubelet_volume_stats_available_bytes", "kubelet_volume_stats_inodes",
     "kubelet_volume_stats_inodes_used", "kubelet_volume_stats_inodes_free",
     "peevee_pvc_usage_ratio", "peevee_pvc_inodes_ratio", "peevee_pvc_growth_bytes_per_day",
     "peevee_pvc_days_until_full", "peevee_pvc_requested_bytes", "peevee_pvc_provisioned_bytes",
     "peevee_pvc_info", "peevee_pvc_status"}

(***************************************************************************)
(* What the samples of a claim are.                                        *)
(***************************************************************************)
LEMMA SamplesOfClaim ==
  ASSUME NEW v, NEW x \in VolumeSamples(v)
  PROVE  \/ \E f \in DOMAIN KubeletFamilies :
               x = Sample(f, KubeletLabels(v), Whole(v[KubeletFamilies[f]]))
         \/ x = Sample("peevee_pvc_usage_ratio", FullLabels(v), <<v.usage, 100>>)
         \/ x = Sample("peevee_pvc_inodes_ratio", FullLabels(v), <<v.inodes, 100>>)
         \/ x = Sample("peevee_pvc_growth_bytes_per_day", FullLabels(v), Growth(v))
         \/ x = Sample("peevee_pvc_days_until_full", FullLabels(v), DaysUntilFull(v))
         \/ x = Sample("peevee_pvc_requested_bytes", FullLabels(v), Whole(v.requested))
         \/ x = Sample("peevee_pvc_provisioned_bytes", FullLabels(v), Whole(v.provisioned))
         \/ x = Sample("peevee_pvc_info", InfoLabels(v), Whole(1))
         \/ \E st \in AllStatuses :
               x = Sample("peevee_pvc_status", ClaimLabels(v) \cup {<<"status", StatusRank(st)>>},
                          Whole(One(v.status = st)))
BY DEF VolumeSamples, UsageSamples, StatusSamples

LEMMA LabelsOfClaim ==
  ASSUME NEW v, NEW labels,
         \/ labels = KubeletLabels(v) \/ labels = FullLabels(v) \/ labels = InfoLabels(v)
         \/ \E st : labels = ClaimLabels(v) \cup {<<"status", StatusRank(st)>>}
  PROVE  /\ \A y : <<"cluster", y>> \in labels <=> y = v.cluster
         /\ \A y : <<"namespace", y>> \in labels <=> y = v.namespace
         /\ \A y : <<"persistentvolumeclaim", y>> \in labels <=> y = v.name
<1>1. CASE labels = KubeletLabels(v)
  BY <1>1 DEF KubeletLabels, ClaimLabels, Label
<1>2. CASE labels = FullLabels(v)
  BY <1>2 DEF FullLabels, KubeletLabels, ClaimLabels, Label
<1>3. CASE labels = InfoLabels(v)
  BY <1>3 DEF InfoLabels, ClaimLabels, Label
<1>4. ASSUME NEW st, labels = ClaimLabels(v) \cup {<<"status", StatusRank(st)>>}
      PROVE  /\ \A y : <<"cluster", y>> \in labels <=> y = v.cluster
             /\ \A y : <<"namespace", y>> \in labels <=> y = v.namespace
             /\ \A y : <<"persistentvolumeclaim", y>> \in labels <=> y = v.name
  BY <1>4 DEF ClaimLabels
<1>5. QED
  BY <1>1, <1>2, <1>3, <1>4

(***************************************************************************)
(* Every sample of a claim is labelled with its cluster, namespace and     *)
(* name, and belongs to one of the families of claims.                     *)
(***************************************************************************)
LEMMA ClaimIsTagged ==
  ASSUME NEW v, NEW x \in VolumeSamples(v)
  PROVE  /\ Tagged(x, "cluster", v.cluster)
         /\ Tagged(x, "namespace", v.namespace)
         /\ Tagged(x, "persistentvolumeclaim", v.name)
         /\ x.name \in ClaimFamilies
<1>1. \/ x.labels = KubeletLabels(v) \/ x.labels = FullLabels(v) \/ x.labels = InfoLabels(v)
      \/ \E st : x.labels = ClaimLabels(v) \cup {<<"status", StatusRank(st)>>}
  BY SamplesOfClaim DEF Sample
<1>2. x.name \in ClaimFamilies
  BY SamplesOfClaim DEF Sample, ClaimFamilies, KubeletFamilies
<1>3. QED
  BY <1>1, <1>2, LabelsOfClaim DEF Tagged

(***************************************************************************)
(* A claim has at most one sample of a family, except of the state set,    *)
(* where the status makes the difference.                                  *)
(***************************************************************************)
LEMMA SeriesOfClaim ==
  ASSUME NEW v, NEW x \in VolumeSamples(v), NEW y \in VolumeSamples(v), SameSeries(x, y)
  PROVE  x = y
<1>1. x.name = y.name
  BY DEF SameSeries
<1>2. CASE x.name # "peevee_pvc_status"
  <2> DEFINE families == DOMAIN KubeletFamilies
  <2>1. families = {"kubelet_volume_stats_capacity_bytes", "kubelet_volume_stats_used_bytes",
                    "kubelet_volume_stats_available_bytes", "kubelet_volume_stats_inodes",
                    "kubelet_volume_stats_inodes_used", "kubelet_volume_stats_inodes_free"}
    BY DEF KubeletFamilies
  <2>2. CASE x.name \in families
    BY <1>1, <2>1, <2>2, SamplesOfClaim DEF Sample
  <2>3. CASE x.name \notin families
    BY <1>1, <1>2, <2>1, <2>3, SamplesOfClaim DEF Sample
  <2>4. QED
    BY <2>2, <2>3
<1>3. CASE x.name = "peevee_pvc_status"
  <2> DEFINE Of(st) == Sample("peevee_pvc_status",
                              ClaimLabels(v) \cup {<<"status", StatusRank(st)>>},
                              Whole(One(v.status = st)))
  <2>1. (\E st \in AllStatuses : x = Of(st)) /\ (\E st \in AllStatuses : y = Of(st))
    <3> SUFFICES ASSUME NEW z \in VolumeSamples(v), z.name = "peevee_pvc_status"
                 PROVE  \E st \in AllStatuses : z = Of(st)
      BY <1>1, <1>3
    <3>1. "peevee_pvc_status" \notin DOMAIN KubeletFamilies
      BY DEF KubeletFamilies
    <3>2. QED
      BY <3>1, SamplesOfClaim DEF Sample
  <2>2. PICK st \in AllStatuses, tt \in AllStatuses : x = Of(st) /\ y = Of(tt)
    BY <2>1
  <2>3. Tagged(x, "status", StatusRank(st)) /\ Tagged(y, "status", StatusRank(tt))
    BY <2>2 DEF Tagged, Sample, ClaimLabels
  <2>4. StatusRank(st) \in Nat /\ StatusRank(tt) \in Nat
    BY RankNamesStatus
  <2>5. StatusRank(st) = StatusRank(tt)
    BY <2>3, <2>4, TagsAgree
  <2>6. st = tt
    BY <2>5, RankNamesStatus
  <2>7. QED
    BY <2>2, <2>6
<1>4. QED
  BY <1>2, <1>3

LEMMA ClaimsApart ==
  ASSUME NEW v \in Volume, NEW w \in Volume, Claim(v) # Claim(w)
  PROVE  Apart(VolumeSamples(v), VolumeSamples(w))
<1>1. SUFFICES ASSUME NEW x \in VolumeSamples(v), NEW y \in VolumeSamples(w), SameSeries(x, y)
               PROVE  Claim(v) = Claim(w)
  BY DEF Apart
<1>2. /\ v.cluster \in Nat /\ v.namespace \in Nat /\ v.name \in Nat
      /\ w.cluster \in Nat /\ w.namespace \in Nat /\ w.name \in Nat
  BY DEF Volume
<1>3. /\ Tagged(x, "cluster", v.cluster) /\ Tagged(x, "namespace", v.namespace)
      /\ Tagged(x, "persistentvolumeclaim", v.name)
      /\ Tagged(y, "cluster", w.cluster) /\ Tagged(y, "namespace", w.namespace)
      /\ Tagged(y, "persistentvolumeclaim", w.name)
  BY ClaimIsTagged
<1>4. v.cluster = w.cluster
  BY <1>1, <1>2, <1>3, TagsAgree
<1>5. v.namespace = w.namespace
  BY <1>1, <1>2, <1>3, TagsAgree
<1>6. v.name = w.name
  BY <1>1, <1>2, <1>3, TagsAgree
<1>7. QED
  BY <1>4, <1>5, <1>6 DEF Claim

-----------------------------------------------------------------------------
\* Series of clusters, and of one collection

ClusterFamilies ==
    {"peevee_cluster_up", "peevee_cluster_scrape_duration_seconds", "peevee_cluster_pvcs",
     "peevee_cluster_nodes_scraped"}

BuildFamilies ==
    {"peevee_build_info", "peevee_last_scrape_timestamp_seconds", "peevee_scrape_duration_seconds"}

LEMMA ClusterIsTagged ==
  ASSUME NEW h, NEW x \in ClusterSamples(h)
  PROVE  Tagged(x, "cluster", h.name) /\ x.name \in ClusterFamilies
BY DEF ClusterSamples, Tagged, Sample, ClusterFamilies

LEMMA SeriesOfCluster ==
  ASSUME NEW h, NEW x \in ClusterSamples(h), NEW y \in ClusterSamples(h), SameSeries(x, y)
  PROVE  x = y
BY DEF ClusterSamples, Sample, SameSeries

LEMMA ClustersApart ==
  ASSUME NEW g, NEW h, g.name \in Nat, h.name \in Nat, g.name # h.name
  PROVE  Apart(ClusterSamples(g), ClusterSamples(h))
<1>1. SUFFICES ASSUME NEW x \in ClusterSamples(g), NEW y \in ClusterSamples(h), SameSeries(x, y)
               PROVE  FALSE
  BY DEF Apart
<1>2. Tagged(x, "cluster", g.name) /\ Tagged(y, "cluster", h.name)
  BY ClusterIsTagged
<1>3. QED
  BY <1>1, <1>2, TagsAgree

LEMMA SeriesOfBuild ==
  ASSUME NEW res, NEW x \in BuildSamples(res), NEW y \in BuildSamples(res), SameSeries(x, y)
  PROVE  x = y
BY DEF BuildSamples, Sample, SameSeries

LEMMA FamiliesApart ==
  /\ ClaimFamilies \cap ClusterFamilies = {}
  /\ ClaimFamilies \cap BuildFamilies = {}
  /\ ClusterFamilies \cap BuildFamilies = {}
BY DEF ClaimFamilies, ClusterFamilies, BuildFamilies

(***************************************************************************)
(* The rows behind /metrics are volumes of the fleet, and claims apart.    *)
(***************************************************************************)
LEMMA RowsOfMetrics ==
  ASSUME volumes \in Fleets
  PROVE  /\ ToSet(AllRows) \subseteq ToSet(volumes) /\ ToSet(volumes) \subseteq Volume
         /\ \A v, w \in ToSet(AllRows) : v # w => Claim(v) # Claim(w)
<1>1. volumes \in Seq(Volume)
  BY FleetsAreSequences
<1>2. ToSet(volumes) \subseteq Volume
  BY <1>1 DEF ToSet
<1>3. \A n \in DOMAIN AllRows : \E i \in Selected(volumes, AllQuery) : AllRows[n] = volumes[i]
  BY <1>1, RowsMatch DEF AllRows, MetricsRows
<1>4. Selected(volumes, AllQuery) \subseteq DOMAIN volumes
  BY DEF Selected
<1>5. ToSet(AllRows) \subseteq ToSet(volumes)
  BY <1>3, <1>4 DEF ToSet
<1>6. ASSUME NEW v \in ToSet(volumes), NEW w \in ToSet(volumes), v # w
      PROVE  Claim(v) # Claim(w)
  <2>1. PICK i \in DOMAIN volumes, j \in DOMAIN volumes : v = volumes[i] /\ w = volumes[j]
    BY DEF ToSet
  <2>2. i # j
    BY <1>6, <2>1
  <2>3. Claim(volumes[i]) # Claim(volumes[j])
    BY <2>2 DEF Fleets
  <2>4. QED
    BY <2>1, <2>3
<1>7. QED
  BY <1>2, <1>5, <1>6

(***************************************************************************)
(* No two samples that one collection publishes are one series, for any    *)
(* fleet: the labels cluster, namespace and persistentvolumeclaim tell     *)
(* claims apart, which is what Key promises (model.go).                    *)
(***************************************************************************)
THEOREM NoSeriesTwice == UISafeSpec => []SeriesAreDistinct
<1>1. ASSUME UIInv
      PROVE  SeriesAreDistinct
  <2>1. /\ ToSet(AllRows) \subseteq ToSet(volumes) /\ ToSet(volumes) \subseteq Volume
        /\ \A v, w \in ToSet(AllRows) : v # w => Claim(v) # Claim(w)
    BY <1>1, RowsOfMetrics DEF UIInv
  <2>2. \A v, w \in ToSet(AllRows) : v # w => Apart(VolumeSamples(v), VolumeSamples(w))
    BY <2>1, ClaimsApart
  <2>3. \A g, h \in Healths : g.name \in Nat /\ (g # h => g.name # h.name)
    <3> DEFINE clusters == {v.cluster : v \in ToSet(volumes)}
               Health(c) == [name |-> c, endpoint |-> c - 1, reachable |-> c # 1, pvcs |-> 3,
                             nodesScraped |-> 1, scrapeMillis |-> 2]
    <3>1. Healths = {Health(c) : c \in clusters}
      BY DEF Healths
    <3>2. clusters \subseteq Nat
      BY <2>1 DEF Volume
    <3>3. \A c : Health(c).name = c
      OBVIOUS
    <3> HIDE DEF clusters, Health
    <3>4. ASSUME NEW g \in Healths, NEW h \in Healths
          PROVE  g.name \in Nat /\ (g # h => g.name # h.name)
      <4>1. PICK c \in clusters : g = Health(c)
        BY <3>1
      <4>2. PICK d \in clusters : h = Health(d)
        BY <3>1
      <4>3. g.name = c /\ h.name = d
        BY <3>3, <4>1, <4>2
      <4>4. c \in Nat
        BY <3>2
      <4>5. QED
        BY <4>1, <4>2, <4>3, <4>4
    <3>5. QED
      BY <3>4
  <2>4. \A g, h \in Healths : g # h => Apart(ClusterSamples(g), ClusterSamples(h))
    BY <2>3, ClustersApart
  <2> DEFINE res == [generatedAt |-> 1, durationMS |-> 2]
  <2>5. ASSUME NEW x \in Samples
        PROVE  \/ x \in BuildSamples(res) /\ x.name \in BuildFamilies
               \/ \E v \in ToSet(AllRows) : x \in VolumeSamples(v) /\ x.name \in ClaimFamilies
               \/ \E h \in Healths : x \in ClusterSamples(h) /\ x.name \in ClusterFamilies
    <3>1. CASE x \in BuildSamples(res)
      <4>1. x.name \in BuildFamilies
        BY <3>1 DEF BuildSamples, Sample, BuildFamilies
      <4>2. QED
        BY <3>1, <4>1
    <3>2. CASE \E v \in ToSet(AllRows) : x \in VolumeSamples(v)
      BY <3>2, ClaimIsTagged
    <3>3. CASE \E h \in Healths : x \in ClusterSamples(h)
      BY <3>3, ClusterIsTagged
    <3>4. \/ x \in BuildSamples(res)
          \/ x \in UNION {VolumeSamples(v) : v \in ToSet(AllRows)}
          \/ x \in UNION {ClusterSamples(h) : h \in Healths}
      BY DEF Samples, Build
    <3>5. QED
      BY <3>1, <3>2, <3>3, <3>4
  <2>6. ASSUME NEW x \in Samples, NEW y \in Samples, SameSeries(x, y)
        PROVE  x = y
    <3>1. x.name = y.name
      BY <2>6 DEF SameSeries
    <3>2. CASE x.name \in BuildFamilies
      BY <2>5, <2>6, <3>1, <3>2, FamiliesApart, SeriesOfBuild
    <3>3. CASE x.name \in ClaimFamilies
      <4>1. PICK v \in ToSet(AllRows), w \in ToSet(AllRows) :
              x \in VolumeSamples(v) /\ y \in VolumeSamples(w)
        BY <2>5, <3>1, <3>3, FamiliesApart
      <4>2. v = w
        BY <2>2, <2>6, <4>1 DEF Apart
      <4>3. QED
        BY <2>6, <4>1, <4>2, SeriesOfClaim
    <3>4. CASE x.name \in ClusterFamilies
      <4>1. PICK g \in Healths, h \in Healths :
              x \in ClusterSamples(g) /\ y \in ClusterSamples(h)
        BY <2>5, <3>1, <3>4, FamiliesApart
      <4>2. g = h
        BY <2>4, <2>6, <4>1 DEF Apart
      <4>3. QED
        BY <2>6, <4>1, <4>2, SeriesOfCluster
    <3>5. QED
      BY <2>5, <3>2, <3>3, <3>4
  <2>7. QED
    BY <2>2, <2>4, <2>6 DEF SeriesAreDistinct
<1>2. UIInv => SeriesAreDistinct
  BY <1>1
<1>3. QED
  BY <1>2, UIInvariant, PTL

-----------------------------------------------------------------------------
\* Sorting

LEMMA PairIsNotNone == \A x, y : <<x, y>> # None
<1> TAKE x, y
<1>1. DOMAIN <<x, y>> = 1 .. 2 /\ DOMAIN << >> = {}
  OBVIOUS
<1>2. QED
  BY <1>1 DEF None

\* The columns that every row has a value in.
NumberColumns == {"name", "namespace", "cluster", "storageClass", "used", "capacity", "requested"}

LEMMA ValueOfNumber ==
  ASSUME NEW v \in Volume, NEW column \in NumberColumns
  PROVE  Value(v, column) = <<v[column], 1>> /\ Value(v, column) # None /\ v[column] \in Int
<1>1. v[column] \in Int
  BY NumberField DEF NumberColumns
<1>2. Value(v, column) = <<v[column], 1>>
  BY DEF Value, NumberColumns
<1>3. QED
  BY <1>1, <1>2, PairIsNotNone

LEMMA ValueOfUsage ==
  ASSUME NEW v \in Volume
  PROVE  /\ Value(v, "usage") # None <=> v.hasStats
         /\ v.hasStats => Value(v, "usage") = <<v.usage, 1>>
         /\ v.usage \in Int /\ v.hasStats \in BOOLEAN
<1>1. v.usage \in Int /\ v.hasStats \in BOOLEAN
  BY DEF Volume
<1>2. Value(v, "usage") = IF ~v.hasStats THEN None ELSE <<v["usage"], 1>>
  BY DEF Value
<1>3. QED
  BY <1>1, <1>2, PairIsNotNone

\* Whether the small end of a column comes first.
SmallEnd(column, dir) == (dir = 1) <=> (column \in SmallFirst)

(***************************************************************************)
(* A comparison of two rows that have values compares the values, and of   *)
(* two rows with one value it tells them apart from neither end.           *)
(***************************************************************************)
LEMMA ComparesValues ==
  ASSUME NEW v \in Volume, NEW w \in Volume, NEW column \in Columns, NEW dir \in {-1, 1},
         Value(v, column) # None, Value(w, column) # None
  PROVE  LET x == Value(v, column)
             y == Value(w, column)
         IN  /\ Compare(v, w, column, dir) < 0
                   => IF SmallEnd(column, dir) THEN Less(x, y) ELSE Less(y, x)
             /\ Compare(v, w, column, dir) = 0 => ~Less(x, y) /\ ~Less(y, x)
<1> DEFINE x == Value(v, column)
           y == Value(w, column)
<1>1. CASE column \in {"name", "namespace", "cluster", "storageClass"}
  <2>1. x = <<v[column], 1>> /\ y = <<w[column], 1>> /\ v[column] \in Int /\ w[column] \in Int
    BY <1>1, ValueOfNumber DEF NumberColumns
  <2>2. SmallEnd(column, dir) <=> dir = 1
    BY <1>1 DEF SmallEnd, SmallFirst
  <2>3. Compare(v, w, column, dir) = Str(v[column], w[column]) * dir
    BY <1>1 DEF Compare
  <2>4. (Less(x, y) <=> v[column] < w[column]) /\ (Less(y, x) <=> w[column] < v[column])
    BY <2>1 DEF Less
  <2> HIDE DEF x, y
  <2>5. QED
    BY <2>1, <2>2, <2>3, <2>4 DEF Str, x, y
<1>2. CASE column \in {"used", "capacity", "requested"}
  <2>1. x = <<v[column], 1>> /\ y = <<w[column], 1>> /\ v[column] \in Int /\ w[column] \in Int
    BY <1>2, ValueOfNumber DEF NumberColumns
  <2>2. SmallEnd(column, dir) <=> dir = -1
    BY <1>2 DEF SmallEnd, SmallFirst
  <2>3. Compare(v, w, column, dir) = Num(v[column], w[column]) * dir
    BY <1>2 DEF Compare
  <2>4. (Less(x, y) <=> v[column] < w[column]) /\ (Less(y, x) <=> w[column] < v[column])
    BY <2>1 DEF Less
  <2> HIDE DEF x, y
  <2>5. QED
    BY <2>1, <2>2, <2>3, <2>4 DEF Num, Str, x, y
<1>3. CASE column = "usage"
  <2>1. /\ v.hasStats /\ w.hasStats /\ v.usage \in Int /\ w.usage \in Int
        /\ x = <<v.usage, 1>> /\ y = <<w.usage, 1>>
    BY <1>3, ValueOfUsage
  <2>2. SmallEnd(column, dir) <=> dir = -1
    BY <1>3 DEF SmallEnd, SmallFirst
  <2>3. Compare(v, w, column, dir) = Num(v.usage, w.usage) * dir
    BY <1>3, <2>1 DEF Compare, CompareUsage
  <2>4. (Less(x, y) <=> v.usage < w.usage) /\ (Less(y, x) <=> w.usage < v.usage)
    BY <2>1 DEF Less
  <2> HIDE DEF x, y
  <2>5. QED
    BY <2>1, <2>2, <2>3, <2>4 DEF Num, Str, x, y
<1>4. CASE column = "daysUntilFull"
  <2>1. x = DaysUntilFull(v) /\ y = DaysUntilFull(w) /\ x # None /\ y # None
    BY <1>4 DEF Value
  <2> DEFINE a == x[1] * y[2]
             b == y[1] * x[2]
  <2>2. x \in Int \X (Nat \ {0}) /\ y \in Int \X (Nat \ {0})
    BY <2>1, DaysType
  <2>3. a \in Int /\ b \in Int
    BY <2>2
  <2>4. SmallEnd(column, dir) <=> dir = 1
    BY <1>4 DEF SmallEnd, SmallFirst
  <2>5. Compare(v, w, column, dir) = Str(a, b) * dir
    BY <1>4, <2>1 DEF Compare, CompareDays
  <2>6. (Less(x, y) <=> a < b) /\ (Less(y, x) <=> b < a)
    BY DEF Less
  <2> HIDE DEF a, b, x, y
  <2>7. QED
    BY <2>3, <2>4, <2>5, <2>6 DEF Str, x, y
<1>5. QED
  BY <1>1, <1>2, <1>3, <1>4 DEF Columns

(***************************************************************************)
(* A row without a value goes before none that has one.                    *)
(***************************************************************************)
LEMMA KnownGoFirst ==
  ASSUME NEW v \in Volume, NEW w \in Volume, NEW column \in Columns, NEW dir \in {-1, 1},
         Value(w, column) # None, Compare(v, w, column, dir) <= 0
  PROVE  Value(v, column) # None
<1>1. CASE column \in NumberColumns
  BY <1>1, ValueOfNumber
<1>2. CASE column = "usage"
  <2>1. w.hasStats /\ v.hasStats \in BOOLEAN /\ (Value(v, column) # None <=> v.hasStats)
    BY <1>2, ValueOfUsage
  <2>2. Compare(v, w, column, dir) = CompareUsage(v, w, dir)
    BY <1>2 DEF Compare
  <2>3. ASSUME ~v.hasStats PROVE FALSE
    <3>1. v.hasStats # w.hasStats
      BY <2>1, <2>3
    <3>2. CompareUsage(v, w, dir) = 1
      BY <2>3, <3>1 DEF CompareUsage
    <3>3. QED
      BY <2>2, <3>2
  <2>4. QED
    BY <2>1, <2>3
<1>3. CASE column = "daysUntilFull"
  <2>1. Value(v, column) = DaysUntilFull(v) /\ Value(w, column) = DaysUntilFull(w)
    BY <1>3 DEF Value
  <2>2. Compare(v, w, column, dir) = CompareDays(v, w, Value(v, column), Value(w, column), dir)
    BY <1>3, <2>1 DEF Compare
  <2>3. QED
    BY <2>2 DEF CompareDays
<1>4. QED
  BY <1>1, <1>2, <1>3 DEF Columns, NumberColumns

(***************************************************************************)
(* The order of rows without a value does not depend on the direction.     *)
(***************************************************************************)
LEMMA UnknownAlike ==
  ASSUME NEW v \in Volume, NEW w \in Volume, NEW column \in Columns,
         Value(v, column) = None, Value(w, column) = None
  PROVE  Compare(v, w, column, -1) = Compare(v, w, column, 1)
<1>1. column \notin NumberColumns
  BY ValueOfNumber
<1>2. CASE column = "usage"
  <2>1. ~v.hasStats /\ ~w.hasStats
    BY <1>2, ValueOfUsage
  <2>2. QED
    BY <1>2, <2>1 DEF Compare, CompareUsage
<1>3. CASE column = "daysUntilFull"
  <2>1. DaysUntilFull(v) = None /\ DaysUntilFull(w) = None
    BY <1>3 DEF Value
  <2>2. QED
    BY <1>3, <2>1 DEF Compare, CompareDays
<1>4. QED
  BY <1>1, <1>2, <1>3 DEF Columns, NumberColumns

(***************************************************************************)
(* What SortRows does to rows no two of which are equal, in any column and *)
(* direction: a permutation in which each row that has a value is preceded *)
(* by such rows alone, whose values come in order and ties as they were.   *)
(***************************************************************************)
LEMMA SortRowsSorts ==
  ASSUME NEW rows \in Seq(Volume), \A a, b \in DOMAIN rows : rows[a] = rows[b] => a = b,
         NEW column \in Columns, NEW desc \in BOOLEAN
  PROVE  LET sorted == SortRows(rows, column, desc)
             small  == SmallEnd(column, Direction(desc))
         IN  /\ Len(sorted) = Len(rows) /\ ToSet(sorted) = ToSet(rows)
             /\ \A i, j \in DOMAIN sorted :
                   i < j /\ Value(sorted[j], column) # None =>
                      /\ Value(sorted[i], column) # None
                      /\ LET x == Value(sorted[i], column)
                             y == Value(sorted[j], column)
                         IN  \/ IF small THEN Less(x, y) ELSE Less(y, x)
                             \/ /\ ~Less(x, y) /\ ~Less(y, x)
                                /\ IndexOf(sorted[i], rows) < IndexOf(sorted[j], rows)
<1> DEFINE N == Len(rows)
           dir == Direction(desc)
           sorted == SortRows(rows, column, desc)
<1>1. N \in Nat /\ DOMAIN rows = 1 .. N /\ \A a \in 1 .. N : rows[a] \in Volume
  OBVIOUS
<1>2. dir \in {-1, 1}
  BY DEF Direction
<1>3. PICK at \in Bijection(1 .. N, 1 .. N) :
         /\ sorted = [n \in 1 .. N |-> rows[at[n]]]
         /\ \A m, n \in 1 .. N : m < n => <<at[m], at[n]>> \in RowOrder(rows, column, desc)
  BY SortRowsPlaces
<1> HIDE DEF sorted, N
<1>4. at \in [1 .. N -> 1 .. N] /\ \A a \in 1 .. N : \E n \in 1 .. N : at[n] = a
  BY DEF Bijection, Injection, Surjection
<1>5. DOMAIN sorted = 1 .. N /\ \A n \in 1 .. N : sorted[n] = rows[at[n]]
  BY <1>3
<1>6. Len(sorted) = N
  BY <1>1, <1>5
<1>7. ToSet(sorted) = ToSet(rows)
  <2>1. \A v : v \in ToSet(sorted) <=> v \in ToSet(rows)
    BY <1>1, <1>4, <1>5 DEF ToSet
  <2>2. QED
    BY <2>1
<1>8. \A a \in 1 .. N : IndexOf(rows[a], rows) = a
  BY <1>1 DEF IndexOf
<1>9. ASSUME NEW i \in 1 .. N, NEW j \in 1 .. N, i < j, Value(sorted[j], column) # None
      PROVE  /\ Value(sorted[i], column) # None
             /\ LET x == Value(sorted[i], column)
                    y == Value(sorted[j], column)
                IN  \/ IF SmallEnd(column, dir) THEN Less(x, y) ELSE Less(y, x)
                    \/ /\ ~Less(x, y) /\ ~Less(y, x)
                       /\ IndexOf(sorted[i], rows) < IndexOf(sorted[j], rows)
  <2> DEFINE a == at[i]
             b == at[j]
             c == Compare(rows[a], rows[b], column, dir)
  <2>1. a \in 1 .. N /\ b \in 1 .. N
    BY <1>4
  <2>2. rows[a] \in Volume /\ rows[b] \in Volume
    BY <1>1, <2>1
  <2>3. <<a, b>> \in RowOrder(rows, column, desc)
    BY <1>3, <1>9
  <2>4. c < 0 \/ (c = 0 /\ a < b)
    BY <2>3 DEF RowOrder, StablyBefore, Direction
  <2>5. sorted[i] = rows[a] /\ sorted[j] = rows[b]
    BY <1>5
  <2>6. c \in Int
    BY <1>2, <2>2, CompareOrders
  <2> HIDE DEF a, b, dir
  <2>7. Value(rows[b], column) # None
    BY <1>9, <2>5
  <2>8. Value(rows[a], column) # None
    BY <1>2, <2>2, <2>4, <2>6, <2>7, KnownGoFirst
  <2>9. /\ c < 0 => IF SmallEnd(column, dir)
                    THEN Less(Value(rows[a], column), Value(rows[b], column))
                    ELSE Less(Value(rows[b], column), Value(rows[a], column))
        /\ c = 0 => /\ ~Less(Value(rows[a], column), Value(rows[b], column))
                    /\ ~Less(Value(rows[b], column), Value(rows[a], column))
    BY <1>2, <2>2, <2>7, <2>8, ComparesValues
  <2> HIDE DEF c
  <2>10. IndexOf(sorted[i], rows) = a /\ IndexOf(sorted[j], rows) = b
    BY <1>8, <2>1, <2>5
  <2>11. QED
    BY <2>4, <2>5, <2>8, <2>9, <2>10
<1>10. QED
  BY <1>5, <1>6, <1>7, <1>9 DEF N, sorted

(***************************************************************************)
(* The rows without a value end the list, in one order for both directions.*)
(***************************************************************************)
LEMMA UnknownEndAlike ==
  ASSUME NEW rows \in Seq(Volume), NEW column \in Columns
  PROVE  LET up   == SortRows(rows, column, FALSE)
             down == SortRows(rows, column, TRUE)
         IN  \A i \in DOMAIN up : Value(up[i], column) = None => up[i] = down[i]
<1> DEFINE N == Len(rows)
           up   == SortRows(rows, column, FALSE)
           down == SortRows(rows, column, TRUE)
           less == RowOrder(rows, column, FALSE)
           more == RowOrder(rows, column, TRUE)
           U    == {a \in 1 .. N : Value(rows[a], column) = None}
           C(a, b, dir) == Compare(rows[a], rows[b], column, dir)
<1>1. N \in Nat /\ DOMAIN rows = 1 .. N /\ \A a \in 1 .. N : rows[a] \in Volume
  OBVIOUS
<1>2. /\ \A a, b \in 1 .. N : <<a, b>> \in less <=> C(a, b, 1) < 0 \/ (C(a, b, 1) = 0 /\ a < b)
      /\ \A a, b \in 1 .. N : <<a, b>> \in more <=> C(a, b, -1) < 0 \/ (C(a, b, -1) = 0 /\ a < b)
  BY <1>1 DEF RowOrder, StablyBefore
<1>3. PICK p \in Bijection(1 .. N, 1 .. N) :
         /\ up = [n \in 1 .. N |-> rows[p[n]]]
         /\ \A m, n \in 1 .. N : m < n => <<p[m], p[n]>> \in less
  BY SortRowsPlaces
<1>4. PICK q \in Bijection(1 .. N, 1 .. N) :
         /\ down = [n \in 1 .. N |-> rows[q[n]]]
         /\ \A m, n \in 1 .. N : m < n => <<q[m], q[n]>> \in more
  BY SortRowsPlaces
<1>5. StrictTotal(1 .. N, less)
  BY <1>1, RowOrderIsTotal
<1>6. \A a, b \in 1 .. N : C(a, b, 1) \in Int /\ C(a, b, -1) \in Int
  BY <1>1, CompareOrders
<1> HIDE DEF N, up, down, less, more
<1>7. p \in [1 .. N -> 1 .. N] /\ q \in [1 .. N -> 1 .. N]
  BY DEF Bijection, Injection
<1>8. \A a, b \in 1 .. N : a \in U /\ (<<a, b>> \in less \/ <<a, b>> \in more) => b \in U
  <2> SUFFICES ASSUME NEW a \in 1 .. N, NEW b \in 1 .. N, a \in U,
                      <<a, b>> \in less \/ <<a, b>> \in more
               PROVE  b \in U
    OBVIOUS
  <2>1. PICK dir \in {-1, 1} : C(a, b, dir) <= 0
    <3> HIDE DEF C
    <3>1. CASE <<a, b>> \in less
      <4>1. C(a, b, 1) < 0 \/ (C(a, b, 1) = 0 /\ a < b)
        BY <1>2, <3>1
      <4>2. QED
        BY <1>6, <4>1
    <3>2. CASE <<a, b>> \in more
      <4>1. C(a, b, -1) < 0 \/ (C(a, b, -1) = 0 /\ a < b)
        BY <1>2, <3>2
      <4>2. QED
        BY <1>6, <4>1
    <3>3. QED
      BY <3>1, <3>2
  <2>2. rows[a] \in Volume /\ rows[b] \in Volume
    BY <1>1
  <2>3. Value(rows[a], column) = None
    OBVIOUS
  <2>4. Value(rows[b], column) = None
    BY <2>1, <2>2, <2>3, KnownGoFirst
  <2>5. QED
    BY <2>4
<1>9. AgreeOn(U, less, more)
  <2> SUFFICES ASSUME NEW a \in U, NEW b \in U
               PROVE  <<a, b>> \in less <=> <<a, b>> \in more
    BY DEF AgreeOn
  <2>1. a \in 1 .. N /\ b \in 1 .. N /\ rows[a] \in Volume /\ rows[b] \in Volume
    BY <1>1
  <2>2. C(a, b, -1) = C(a, b, 1)
    BY <2>1, UnknownAlike
  <2>3. QED
    BY <1>2, <2>1, <2>2
<1>10. Asymmetric(1 .. N, less)
  BY <1>5 DEF StrictTotal, Asymmetric
<1> HIDE DEF U, C
<1>11. \A i \in 1 .. N : p[i] \in U => p[i] = q[i]
  <2>1. Follows(p, N, less) /\ Follows(q, N, more)
    BY <1>3, <1>4 DEF Follows
  <2>2. EndsIn(p, N, U) /\ EndsIn(q, N, U)
    BY <1>7, <1>8, <2>1 DEF EndsIn, Follows
  <2>3. QED
    BY <1>1, <1>3, <1>4, <1>9, <1>10, <2>1, <2>2, SameTail
<1>12. DOMAIN up = 1 .. N /\ \A i \in 1 .. N : up[i] = rows[p[i]] /\ down[i] = rows[q[i]]
  BY <1>3, <1>4
<1>13. \A i \in 1 .. N : Value(up[i], column) = None => up[i] = down[i]
  BY <1>7, <1>11, <1>12 DEF U
<1>14. QED
  BY <1>12, <1>13 DEF up, down

(***************************************************************************)
(* The rows behind /metrics are a sequence of volumes, no two the same.    *)
(***************************************************************************)
LEMMA AllRowsDiffer ==
  ASSUME volumes \in Fleets
  PROVE  /\ AllRows \in Seq(Volume)
         /\ \A a, b \in DOMAIN AllRows : AllRows[a] = AllRows[b] => a = b
<1>1. volumes \in Seq(Volume)
  BY FleetsAreSequences
<1>2. AllRows \in Seq(Volume)
  BY <1>1, RowsAreSelected DEF AllRows, MetricsRows
<1>3. PICK at \in Bijection(1 .. Len(AllRows), Selected(volumes, AllQuery)) :
         /\ \A m, n \in 1 .. Len(AllRows) : m < n => at[m] < at[n]
         /\ \A n \in 1 .. Len(AllRows) : AllRows[n] = volumes[at[n]]
  BY <1>1, RowsAreSelected DEF AllRows, MetricsRows
<1>4. \A n \in 1 .. Len(AllRows) : at[n] \in DOMAIN volumes
  BY <1>3 DEF Bijection, Injection, Selected
<1>5. DOMAIN AllRows = 1 .. Len(AllRows)
  BY <1>2
<1>6. \A m, n \in 1 .. Len(AllRows) : at[m] = at[n] => m = n
  BY <1>3, <1>4 DEF Bijection, Injection, IsInjective
<1>7. \A i, j \in DOMAIN volumes : i # j => volumes[i] # volumes[j]
  BY DEF Fleets
<1>8. QED
  BY <1>2, <1>3, <1>4, <1>5, <1>6, <1>7

(***************************************************************************)
(* Whatever the fleet, every column sorts as the comment in sortRows says. *)
(***************************************************************************)
THEOREM SortsAsPromised == UISafeSpec => []SortedAsPromised
<1>1. ASSUME UIInv
      PROVE  SortedAsPromised
  <2>1. /\ AllRows \in Seq(Volume)
        /\ \A a, b \in DOMAIN AllRows : AllRows[a] = AllRows[b] => a = b
    BY <1>1, AllRowsDiffer DEF UIInv
  <2> DEFINE Known(r, column) == Value(r, column) # None
             InOrder(r, s, column, small) ==
                LET x == Value(r, column)
                    y == Value(s, column)
                IN  \/ IF small THEN Less(x, y) ELSE Less(y, x)
                    \/ ~Less(x, y) /\ ~Less(y, x) /\ IndexOf(r, AllRows) < IndexOf(s, AllRows)
             Sorted(rows, column, small) ==
                /\ Len(rows) = Len(AllRows) /\ ToSet(rows) = ToSet(AllRows)
                /\ \A i, j \in DOMAIN rows : i < j /\ Known(rows[j], column) =>
                      Known(rows[i], column) /\ InOrder(rows[i], rows[j], column, small)
  <2>2. ASSUME NEW column \in Columns
        PROVE  /\ Sorted(SortRows(AllRows, column, FALSE), column, column \in SmallFirst)
               /\ Sorted(SortRows(AllRows, column, TRUE), column, column \notin SmallFirst)
    <3>1. ASSUME NEW desc \in BOOLEAN
          PROVE  Sorted(SortRows(AllRows, column, desc), column, SmallEnd(column, Direction(desc)))
      BY <2>1, SortRowsSorts
    <3>2. /\ SmallEnd(column, Direction(FALSE)) = (column \in SmallFirst)
          /\ SmallEnd(column, Direction(TRUE)) = (column \notin SmallFirst)
      BY DEF SmallEnd, Direction
    <3> HIDE DEF Sorted
    <3>3. QED
      BY <3>1, <3>2
  <2>3. ASSUME NEW column \in Columns
        PROVE  \A i \in DOMAIN SortRows(AllRows, column, FALSE) :
                  ~Known(SortRows(AllRows, column, FALSE)[i], column) =>
                     SortRows(AllRows, column, FALSE)[i] = SortRows(AllRows, column, TRUE)[i]
    BY <2>1, UnknownEndAlike
  <2>4. QED
    BY <2>2, <2>3 DEF SortedAsPromised
<1>2. UIInv => SortedAsPromised
  BY <1>1
<1>3. QED
  BY <1>2, UIInvariant, PTL
-----------------------------------------------------------------------------
\* The trend

(***************************************************************************)
(* Growth is the rise over the run of all pairs of points.                 *)
(***************************************************************************)
LEMMA GrowthOfPairs ==
  ASSUME NEW v \in Volume, Growth(v) # None
  PROVE  /\ Growth(v) = <<Rise(v.history) * Day, Run(v.history)>>
         /\ Rise(v.history) \in Int /\ Run(v.history) \in Nat \ {0}
<1> DEFINE pts == v.history
<1>1. pts \in Seq(Point)
  BY DEF Volume
<1>2. /\ Len(pts) >= 3 /\ ~(Last(pts).t - Head(pts).t < MinSpan)
      /\ Growth(v) = PerDay(Slope(pts))
  BY DEF Growth
<1> HIDE DEF pts
<1>3. Len(pts) \in Nat /\ Len(pts) > 0
  BY <1>1, <1>2
<1>4. Last(pts) = pts[Len(pts)] /\ Head(pts) = pts[1]
  BY <1>1, <1>3 DEF Last
<1>5. pts[Len(pts)].t \in Nat /\ pts[1].t \in Nat
  <2>1. pts[Len(pts)] \in Point /\ pts[1] \in Point
    BY <1>1, <1>3
  <2>2. QED
    BY <2>1 DEF Point
<1>6. pts[Len(pts)].t > pts[1].t
  BY <1>2, <1>4, <1>5, QueryAssumption
<1>7. Slope(pts) = <<Rise(pts), Run(pts)>> /\ Rise(pts) \in Int
  BY <1>1, <1>3, <1>6, SlopeOfPairs
<1>8. Run(pts) \in Nat \ {0}
  BY <1>1, <1>3, <1>6, RunIsPositive
<1>9. PerDay(Slope(pts)) = <<Rise(pts) * Day, Run(pts)>>
  BY <1>7 DEF PerDay
<1>10. QED
  BY <1>2, <1>7, <1>8, <1>9 DEF pts

(***************************************************************************)
(* Growth is computed of three points or more that span MinSpan.           *)
(***************************************************************************)
LEMMA GrowthNeedsPoints ==
  ASSUME NEW v \in Volume
  PROVE  Growth(v) # None <=> /\ Len(v.history) >= 3
                              /\ v.history[Len(v.history)].t - v.history[1].t >= MinSpan
<1> DEFINE pts == v.history
<1>1. pts \in Seq(Point)
  BY DEF Volume
<1>2. CASE Len(pts) < 3
  <2>1. Growth(v) = None
    BY <1>2 DEF Growth
  <2>2. ~(Len(pts) >= 3)
    BY <1>1, <1>2
  <2>3. QED
    BY <2>1, <2>2
<1>3. CASE ~(Len(pts) < 3)
  <2>1. Growth(v) = IF Last(pts).t - Head(pts).t < MinSpan THEN None ELSE PerDay(Slope(pts))
    BY <1>3 DEF Growth
  <2>2. PerDay(Slope(pts)) # None
    BY PairIsNotNone DEF PerDay
  <2> HIDE DEF pts
  <2>3. Len(pts) \in Nat /\ Len(pts) >= 3
    BY <1>1, <1>3
  <2>4. Last(pts) = pts[Len(pts)] /\ Head(pts) = pts[1]
    BY <1>1, <2>3 DEF Last
  <2>5. pts[Len(pts)] \in Point /\ pts[1] \in Point
    BY <1>1, <2>3
  <2>6. pts[Len(pts)].t - pts[1].t \in Int /\ MinSpan \in Nat
    BY <2>5, QueryAssumption DEF Point
  <2>7. Growth(v) # None <=> pts[Len(pts)].t - pts[1].t >= MinSpan
    BY <2>1, <2>2, <2>4, <2>6
  <2>8. QED
    BY <2>3, <2>7 DEF pts
<1>4. QED
  BY <1>2, <1>3

(***************************************************************************)
(* The projection in terms of the rise and the run: shown exactly when the *)
(* line of a measured volume with a capacity reaches it in time.           *)
(***************************************************************************)
LEMMA DaysOfPairs ==
  ASSUME NEW v \in Volume, NEW rise \in Int, NEW run \in Nat \ {0}, NEW room \in Int,
         Growth(v) = <<rise * Day, run>>, room = v.capacity - v.used
  PROVE  /\ DaysUntilFull(v) # None <=> /\ rise > 0
                                        /\ v.hasStats /\ v.capacity > 0
                                        /\ room * run > MaxDays * rise * Day => room <= 0
         /\ DaysUntilFull(v) # None /\ room > 0 =>
               DaysUntilFull(v)[1] * rise * Day = room * run * DaysUntilFull(v)[2]
<1> DEFINE days == DaysUntilFull(v)
<1>1. Day \in Nat \ {0} /\ MaxDays \in Nat
  BY QueryAssumption
<1>2. v.capacity \in Nat /\ v.hasStats \in BOOLEAN
  BY DEF Volume
<1>3. CASE ~v.hasStats \/ v.capacity <= 0
  <2>1. days = None
    BY <1>3 DEF DaysUntilFull, Projection
  <2>2. QED
    BY <1>2, <1>3, <2>1
<1>4. CASE v.hasStats /\ v.capacity > 0
  <2>1. ~(v.capacity <= 0)
    BY <1>2, <1>4
  <2>2. days = IF rise * Day <= 0 THEN None
               ELSE IF room <= 0 THEN <<0, 1>>
               ELSE IF room * run > MaxDays * (rise * Day) THEN None
               ELSE <<room * run, rise * Day>>
    <3>1. days = IF rise * Day <= 0 THEN None
                 ELSE IF room <= 0 THEN <<0, 1>>
                 ELSE IF <<room * run, rise * Day>>[1] > MaxDays * <<room * run, rise * Day>>[2]
                 THEN None
                 ELSE <<room * run, rise * Day>>
      BY <1>4, <2>1, PairIsNotNone DEF DaysUntilFull, Projection
    <3>2. <<room * run, rise * Day>>[1] = room * run /\ <<room * run, rise * Day>>[2] = rise * Day
      OBVIOUS
    <3>3. QED
      BY <3>1, <3>2
  <2>3. rise * Day <= 0 <=> ~(rise > 0)
    BY <1>1
  <2>4. MaxDays * (rise * Day) = MaxDays * rise * Day
    BY <1>1
  <2>5. (room * run) * rise * Day = room * run * (rise * Day)
    BY <1>1
  <2> HIDE DEF days
  <2>6. CASE ~(rise > 0)
    BY <1>4, <2>2, <2>3, <2>6 DEF days
  <2>7. CASE rise > 0 /\ room <= 0
    BY <1>4, <2>2, <2>3, <2>7, PairIsNotNone DEF days
  <2>8. CASE rise > 0 /\ ~(room <= 0) /\ room * run > MaxDays * rise * Day
    <3>1. days = None
      BY <2>2, <2>3, <2>4, <2>8
    <3>2. QED
      BY <2>8, <3>1 DEF days
  <2>9. CASE rise > 0 /\ ~(room <= 0) /\ ~(room * run > MaxDays * rise * Day)
    <3>1. days = <<room * run, rise * Day>>
      BY <2>2, <2>3, <2>4, <2>9
    <3>2. days # None /\ days[1] = room * run /\ days[2] = rise * Day
      BY <3>1, PairIsNotNone
    <3>3. QED
      BY <1>4, <2>5, <2>9, <3>2 DEF days
  <2>10. QED
    BY <2>6, <2>7, <2>8, <2>9
<1>5. QED
  BY <1>2, <1>3, <1>4

(***************************************************************************)
(* For every history of every claim: the growth is the least-squares slope *)
(* over all pairs of points, of enough points only, and the projection is  *)
(* where that line meets the capacity, or is not shown.                    *)
(***************************************************************************)
THEOREM TrendsAreHonest == UISafeSpec => []TrendIsHonest
<1>1. ASSUME UIInv
      PROVE  TrendIsHonest
  <2>1. ToSet(AllRows) \subseteq Volume
    BY <1>1, RowsOfMetrics DEF UIInv
  <2>2. ASSUME NEW v \in Volume
        PROVE  LET growth == Growth(v)
                   days   == DaysUntilFull(v)
                   rise   == Rise(v.history)
                   run    == Run(v.history)
                   room   == v.capacity - v.used
                   far    == room * run > MaxDays * rise * Day
               IN  /\ growth # None => growth[2] > 0 /\ growth[1] * run = rise * Day * growth[2]
                   /\ days # None <=> /\ growth # None /\ rise > 0
                                      /\ v.hasStats /\ v.capacity > 0
                                      /\ far => room <= 0
                   /\ days # None /\ room > 0 => days[1] * rise * Day = room * run * days[2]
    <3> DEFINE rise == Rise(v.history)
               run  == Run(v.history)
               room == v.capacity - v.used
    <3>1. v.capacity \in Nat /\ v.used \in Nat
      BY DEF Volume
    <3>2. room \in Int /\ room = v.capacity - v.used
      BY <3>1
    <3>3. CASE Growth(v) = None
      BY <3>3 DEF DaysUntilFull, Projection
    <3>4. CASE Growth(v) # None
      <4>1. Growth(v) = <<rise * Day, run>> /\ rise \in Int /\ run \in Nat \ {0}
        BY <3>4, GrowthOfPairs
      <4> HIDE DEF rise, run, room
      <4>2. Growth(v)[2] > 0 /\ Growth(v)[1] * run = rise * Day * Growth(v)[2]
        BY <4>1
      <4>3. /\ DaysUntilFull(v) # None <=> /\ rise > 0
                                           /\ v.hasStats /\ v.capacity > 0
                                           /\ room * run > MaxDays * rise * Day => room <= 0
            /\ DaysUntilFull(v) # None /\ room > 0 =>
                  DaysUntilFull(v)[1] * rise * Day = room * run * DaysUntilFull(v)[2]
        BY <3>2, <4>1, DaysOfPairs
      <4>4. QED
        BY <3>4, <4>2, <4>3 DEF rise, run, room
    <3>5. QED
      BY <3>3, <3>4
  <2>3. \A v \in Volume :
            LET pts     == v.history
                n       == Len(pts)
                T(i, j) == pts[j].t - pts[i].t
            IN  Growth(v) # None <=> n >= 3 /\ T(1, n) >= MinSpan
    BY GrowthNeedsPoints
  <2>4. QED
    BY <2>1, <2>2, <2>3 DEF TrendIsHonest, Rise, Run
<1>2. UIInv => TrendIsHonest
  BY <1>1
<1>3. QED
  BY <1>2, UIInvariant, PTL
-----------------------------------------------------------------------------
\* The totals

(***************************************************************************)
(* For every fleet, two reports of the disk of one node are counted once,  *)
(* and nothing that was measured is left out.                              *)
(***************************************************************************)
THEOREM TotalsCountOnce == UISafeSpec => []DisksCountedOnce
<1>1. ASSUME volumes \in Fleets, NEW q
      PROVE  OfDisks(Rows(volumes, q), Query(volumes, q).totals)
  <2> DEFINE rows     == Rows(volumes, q)
             n        == Len(rows)
             measured == {i \in DOMAIN rows : rows[i].hasStats}
             onNode   == {i \in measured : rows[i].shared}
             Disk(i)  == <<rows[i].cluster, rows[i].node, rows[i].capacity>>
  <2>1. rows \in Seq(Volume)
    <3>1. volumes \in Seq(Volume)
      BY <1>1, FleetsAreSequences
    <3>2. QED
      BY <3>1, RowsAreSelected
  <2>2. Query(volumes, q).totals = ComputeTotals(rows)
    BY DEF Query
  <2> HIDE DEF rows
  <2>3. n \in Nat /\ DOMAIN rows = 1 .. n
    BY <2>1
  <2>4. ComputeTotals(rows) = TotalsUpTo(rows, n)
    BY <2>3, TotalsAreSums
  <2>5. /\ ComputeTotals(rows).used = SumOf(Amounts(rows, "used"), n)
        /\ ComputeTotals(rows).capacity = SumOf(Amounts(rows, "capacity"), n)
    BY <2>4 DEF TotalsUpTo
  <2>6. onNode = OnNode(rows)
    BY DEF OnNode
  <2>7. \A i : FileSystem(rows[i]) = Disk(i)
    BY DEF FileSystem
  <2>8. /\ Counted(rows) \subseteq measured
        /\ measured \ onNode \subseteq Counted(rows)
        /\ \A i \in onNode : \E j \in onNode \cap Counted(rows) : Disk(j) = Disk(i)
        /\ \A i, j \in onNode \cap Counted(rows) : Disk(i) = Disk(j) => i = j
    <3> HIDE DEF onNode, Disk
    <3>1. QED
      BY <2>3, <2>6, <2>7, OneOfEachDisk
  <2>9. \A field : Amounts(rows, field)
                   = [i \in DOMAIN rows |-> IF i \in Counted(rows) THEN rows[i][field] ELSE 0]
    BY DEF Amounts
  <2>10. PICK chosen : chosen = Counted(rows)
    OBVIOUS
  <2> HIDE DEF n, measured, onNode, Disk
  <2>11. /\ chosen \in SUBSET measured
         /\ measured \ onNode \subseteq chosen
         /\ \A i \in onNode : \E j \in onNode \cap chosen : Disk(j) = Disk(i)
         /\ \A i, j \in onNode \cap chosen : Disk(i) = Disk(j) => i = j
    BY <2>8, <2>10
  <2>12. /\ Query(volumes, q).totals.used
              = SumOf([i \in DOMAIN rows |-> IF i \in chosen THEN rows[i]["used"] ELSE 0], n)
         /\ Query(volumes, q).totals.capacity
              = SumOf([i \in DOMAIN rows |-> IF i \in chosen THEN rows[i]["capacity"] ELSE 0], n)
    BY <2>2, <2>5, <2>9, <2>10
  <2>13. QED
    BY <2>11, <2>12 DEF OfDisks, rows, n, measured, onNode, Disk
<1>2. ASSUME UIInv
      PROVE  DisksCountedOnce
  <2>1. volumes \in Fleets
    BY <1>2 DEF UIInv
  <2>2. QED
    BY <1>1, <2>1 DEF DisksCountedOnce
<1>3. UIInv => DisksCountedOnce
  BY <1>2
<1>4. QED
  BY <1>3, UIInvariant, PTL
-----------------------------------------------------------------------------
\* Labels

\* Labels of different names, which are in K.
Keyed(L, K) ==
    /\ IsFiniteSet(L)
    /\ \A l \in L : l = <<l[1], l[2]>> /\ l[1] \in K
    /\ \A l, m \in L : l[1] = m[1] => l = m

LEMMA KeyedNone == Keyed({}, {})
BY FS_EmptySet DEF Keyed

LEMMA KeyedAlso ==
  ASSUME NEW L, NEW K, Keyed(L, K), NEW key, key \notin K, NEW y
  PROVE  Keyed(L \cup {<<key, y>>}, K \cup {key})
<1>1. IsFiniteSet(L \cup {<<key, y>>})
  BY FS_AddElement DEF Keyed
<1>2. <<key, y>>[1] = key /\ <<key, y>>[2] = y
  OBVIOUS
<1>3. \A l \in L : l[1] # key
  BY DEF Keyed
<1>4. QED
  BY <1>1, <1>2, <1>3 DEF Keyed

LEMMA KeyedPart ==
  ASSUME NEW L, NEW K, Keyed(L, K), NEW M \in SUBSET L, NEW N, K \subseteq N
  PROVE  Keyed(M, N)
BY FS_Subset DEF Keyed

LEMMA KeyedMaybe ==
  ASSUME NEW L, NEW K, Keyed(L, K), NEW key, key \notin K, NEW y
  PROVE  Keyed(L \cup Label(key, y), K \cup {key})
<1>1. Label(key, y) \in SUBSET {<<key, y>>}
  BY DEF Label
<1>2. L \cup Label(key, y) \in SUBSET (L \cup {<<key, y>>})
  BY <1>1
<1>3. QED
  BY <1>2, KeyedAlso, KeyedPart

ClaimKeys == {"cluster", "namespace", "persistentvolumeclaim"}

\* The names of peevee's own labels.
OwnNames == ToSet(LabelNames) \ {"__name__", "region"}

LEMMA NamesOfLabels ==
  /\ OwnNames = {"cluster", "commit", "endpoint", "namespace", "node", "persistentvolumeclaim",
                 "provisioner", "shared_filesystem", "status", "storageclass", "version",
                 "volumemode", "volumename", "workload"}
  /\ ToSet(LabelNames) = OwnNames \cup {"__name__", "region"}
<1>1. DOMAIN LabelNames = 1 .. 16
  BY DEF LabelNames
<1>2. /\ LabelNames[1] = "__name__" /\ LabelNames[2] = "cluster" /\ LabelNames[3] = "commit"
      /\ LabelNames[4] = "endpoint" /\ LabelNames[5] = "namespace" /\ LabelNames[6] = "node"
      /\ LabelNames[7] = "persistentvolumeclaim" /\ LabelNames[8] = "provisioner"
      /\ LabelNames[9] = "region" /\ LabelNames[10] = "shared_filesystem"
      /\ LabelNames[11] = "status" /\ LabelNames[12] = "storageclass"
      /\ LabelNames[13] = "version" /\ LabelNames[14] = "volumemode"
      /\ LabelNames[15] = "volumename" /\ LabelNames[16] = "workload"
  BY DEF LabelNames
<1>3. ToSet(LabelNames) =
        {"__name__", "cluster", "commit", "endpoint", "namespace", "node", "persistentvolumeclaim",
         "provisioner", "region", "shared_filesystem", "status", "storageclass", "version",
         "volumemode", "volumename", "workload"}
  <2>1. \A i \in 1 .. 16 : \/ i = 1 \/ i = 2 \/ i = 3 \/ i = 4 \/ i = 5 \/ i = 6 \/ i = 7 \/ i = 8
                           \/ i = 9 \/ i = 10 \/ i = 11 \/ i = 12 \/ i = 13 \/ i = 14 \/ i = 15
                           \/ i = 16
    OBVIOUS
  <2>2. ToSet(LabelNames) = {LabelNames[i] : i \in 1 .. 16}
    BY <1>1 DEF ToSet
  <2>3. {LabelNames[i] : i \in 1 .. 16} =
          {LabelNames[1], LabelNames[2], LabelNames[3], LabelNames[4], LabelNames[5],
           LabelNames[6], LabelNames[7], LabelNames[8], LabelNames[9], LabelNames[10],
           LabelNames[11], LabelNames[12], LabelNames[13], LabelNames[14], LabelNames[15],
           LabelNames[16]}
    BY <2>1
  <2>4. QED
    BY <1>2, <2>2, <2>3
<1>4. QED
  BY <1>3 DEF OwnNames

(***************************************************************************)
(* No set of labels that Build makes has one name twice.                   *)
(***************************************************************************)
LEMMA LabelsOfVolume ==
  ASSUME NEW v
  PROVE  /\ Keyed(KubeletLabels(v), OwnNames) /\ Keyed(FullLabels(v), OwnNames)
         /\ Keyed(InfoLabels(v), OwnNames)
         /\ \A y : Keyed(ClaimLabels(v) \cup {<<"status", y>>}, OwnNames)
<1>1. Keyed(ClaimLabels(v), ClaimKeys)
  <2>1. Keyed({} \cup {<<"cluster", v.cluster>>}, {} \cup {"cluster"})
    BY KeyedNone, KeyedAlso
  <2>2. Keyed({<<"cluster", v.cluster>>}, {"cluster"})
    BY <2>1
  <2>3. Keyed({<<"cluster", v.cluster>>} \cup {<<"namespace", v.namespace>>},
              {"cluster"} \cup {"namespace"})
    BY <2>2, KeyedAlso
  <2>4. Keyed({<<"cluster", v.cluster>>} \cup {<<"namespace", v.namespace>>}
                \cup {<<"persistentvolumeclaim", v.name>>},
              {"cluster"} \cup {"namespace"} \cup {"persistentvolumeclaim"})
    BY <2>3, KeyedAlso
  <2>5. /\ ClaimLabels(v) = {<<"cluster", v.cluster>>} \cup {<<"namespace", v.namespace>>}
                              \cup {<<"persistentvolumeclaim", v.name>>}
        /\ ClaimKeys = {"cluster"} \cup {"namespace"} \cup {"persistentvolumeclaim"}
    BY DEF ClaimLabels, ClaimKeys
  <2>6. QED
    BY <2>4, <2>5
<1>2. ASSUME NEW y
      PROVE  Keyed(ClaimLabels(v) \cup {<<"status", y>>}, OwnNames)
  <2>1. Keyed(ClaimLabels(v) \cup {<<"status", y>>}, ClaimKeys \cup {"status"})
    BY <1>1, KeyedAlso DEF ClaimKeys
  <2>2. ClaimKeys \cup {"status"} \subseteq OwnNames
    BY NamesOfLabels DEF ClaimKeys
  <2>3. QED
    BY <2>1, <2>2, KeyedPart
<1>3. Keyed(KubeletLabels(v), ClaimKeys \cup {"node"})
  BY <1>1, KeyedMaybe DEF KubeletLabels, ClaimKeys
<1>4. Keyed(FullLabels(v), ClaimKeys \cup {"node"} \cup {"storageclass"} \cup {"provisioner"})
  <2>1. Keyed(KubeletLabels(v) \cup {<<"storageclass", v.storageClass>>},
              ClaimKeys \cup {"node"} \cup {"storageclass"})
    BY <1>3, KeyedAlso DEF ClaimKeys
  <2>2. QED
    BY <2>1, KeyedMaybe DEF FullLabels, ClaimKeys
<1>5. Keyed(InfoLabels(v), ClaimKeys \cup {"storageclass"} \cup {"volumemode"}
                             \cup {"shared_filesystem"} \cup {"provisioner"} \cup {"volumename"}
                             \cup {"workload"})
  <2> DEFINE A == ClaimLabels(v) \cup {<<"storageclass", v.storageClass>>}
             B == A \cup {<<"volumemode", v.volumeMode>>}
             C == B \cup {<<"shared_filesystem", 1 + One(v.shared)>>}
             D == C \cup Label("provisioner", v.provisioner)
             E == D \cup Label("volumename", v.volumeName)
             F == E \cup Label("workload", v.workload)
             KA == ClaimKeys \cup {"storageclass"}
             KB == KA \cup {"volumemode"}
             KC == KB \cup {"shared_filesystem"}
             KD == KC \cup {"provisioner"}
             KE == KD \cup {"volumename"}
  <2>1. /\ "storageclass" \notin ClaimKeys /\ "volumemode" \notin KA /\ "shared_filesystem" \notin KB
        /\ "provisioner" \notin KC /\ "volumename" \notin KD /\ "workload" \notin KE
    BY DEF ClaimKeys
  <2>2. InfoLabels(v) = F
    BY DEF InfoLabels
  <2>3. Keyed(A, KA)
    BY <1>1, <2>1, KeyedAlso
  <2> HIDE DEF A, KA
  <2>4. Keyed(B, KB)
    BY <2>1, <2>3, KeyedAlso
  <2> HIDE DEF B, KB
  <2>5. Keyed(C, KC)
    BY <2>1, <2>4, KeyedAlso
  <2> HIDE DEF C, KC
  <2>6. Keyed(D, KD)
    BY <2>1, <2>5, KeyedMaybe
  <2> HIDE DEF D, KD
  <2>7. Keyed(E, KE)
    BY <2>1, <2>6, KeyedMaybe
  <2> HIDE DEF E, KE
  <2>8. Keyed(F, KE \cup {"workload"})
    BY <2>1, <2>7, KeyedMaybe
  <2> HIDE DEF F
  <2>9. QED
    BY <2>2, <2>8 DEF KE, KD, KC, KB, KA
<1>6. /\ ClaimKeys \cup {"node"} \subseteq OwnNames
      /\ ClaimKeys \cup {"node"} \cup {"storageclass"} \cup {"provisioner"} \subseteq OwnNames
      /\ ClaimKeys \cup {"storageclass"} \cup {"volumemode"} \cup {"shared_filesystem"}
           \cup {"provisioner"} \cup {"volumename"} \cup {"workload"} \subseteq OwnNames
  BY NamesOfLabels DEF ClaimKeys
<1>7. \A L, K : Keyed(L, K) /\ K \subseteq OwnNames => Keyed(L, OwnNames)
  BY KeyedPart
<1>8. QED
  BY <1>2, <1>3, <1>4, <1>5, <1>6, <1>7

LEMMA LabelsOfSamples ==
  ASSUME NEW x \in Samples
  PROVE  Keyed(x.labels, OwnNames)
<1>1. \/ x \in BuildSamples([generatedAt |-> 1, durationMS |-> 2])
      \/ \E v \in ToSet(AllRows) : x \in VolumeSamples(v)
      \/ \E h \in Healths : x \in ClusterSamples(h)
  BY DEF Samples, Build
<1>2. \A L, K : Keyed(L, K) /\ K \subseteq OwnNames => Keyed(L, OwnNames)
  BY KeyedPart
<1>3. ASSUME NEW key, NEW y, NEW other, NEW z, key # other
      PROVE  /\ Keyed({<<key, y>>}, {key})
             /\ Keyed({<<key, y>>, <<other, z>>}, {key, other})
  <2>1. Keyed({} \cup {<<key, y>>}, {} \cup {key})
    BY KeyedNone, KeyedAlso
  <2>2. Keyed({<<key, y>>}, {key})
    BY <2>1
  <2>3. Keyed({<<key, y>>} \cup {<<other, z>>}, {key} \cup {other})
    BY <1>3, <2>2, KeyedAlso
  <2>4. /\ {<<key, y>>} \cup {<<other, z>>} = {<<key, y>>, <<other, z>>}
        /\ {key} \cup {other} = {key, other}
    OBVIOUS
  <2>5. QED
    BY <2>2, <2>3, <2>4
<1>4. CASE x \in BuildSamples([generatedAt |-> 1, durationMS |-> 2])
  <2>1. x.labels = {<<"version", 1>>, <<"commit", 1>>} \/ x.labels = {}
    BY <1>4 DEF BuildSamples, Sample
  <2>2. Keyed({<<"version", 1>>, <<"commit", 1>>}, {"version", "commit"})
    BY <1>3
  <2>3. {"version", "commit"} \subseteq OwnNames /\ {} \subseteq OwnNames
    BY NamesOfLabels
  <2>4. QED
    BY <1>2, <2>1, <2>2, <2>3, KeyedNone
<1>5. ASSUME NEW h \in Healths, x \in ClusterSamples(h)
      PROVE  Keyed(x.labels, OwnNames)
  <2>1. \/ x.labels = {<<"cluster", h.name>>}
        \/ x.labels = {<<"cluster", h.name>>, <<"endpoint", h.endpoint>>}
    BY <1>5 DEF ClusterSamples, Sample
  <2>2. /\ Keyed({<<"cluster", h.name>>}, {"cluster"})
        /\ Keyed({<<"cluster", h.name>>, <<"endpoint", h.endpoint>>}, {"cluster", "endpoint"})
    BY <1>3
  <2>3. {"cluster"} \subseteq OwnNames /\ {"cluster", "endpoint"} \subseteq OwnNames
    BY NamesOfLabels
  <2>4. QED
    BY <1>2, <2>1, <2>2, <2>3
<1>6. ASSUME NEW v \in ToSet(AllRows), x \in VolumeSamples(v)
      PROVE  Keyed(x.labels, OwnNames)
  <2>1. \/ x.labels = KubeletLabels(v) \/ x.labels = FullLabels(v) \/ x.labels = InfoLabels(v)
        \/ \E st : x.labels = ClaimLabels(v) \cup {<<"status", StatusRank(st)>>}
    BY <1>6, SamplesOfClaim DEF Sample
  <2>2. QED
    BY <2>1, LabelsOfVolume
<1>7. QED
  BY <1>1, <1>4, <1>5, <1>6
-----------------------------------------------------------------------------
\* What is pushed

(***************************************************************************)
(* The places of labels of different names are different; "__name__" is    *)
(* the first.                                                              *)
(***************************************************************************)
LEMMA PlacesAreApart ==
  /\ \A l : l[1] \in ToSet(LabelNames) =>
        Place(l) \in 1 .. 16 /\ LabelNames[Place(l)] = l[1]
  /\ \A l : l[1] \in ToSet(LabelNames) /\ Place(l) = 1 => l[1] = "__name__"
  /\ \A l : l[1] = "__name__" => Place(l) = 1
<1>1. DOMAIN LabelNames = 1 .. 16
  BY DEF LabelNames
<1>2. ASSUME NEW l, l[1] \in ToSet(LabelNames)
      PROVE  Place(l) \in 1 .. 16 /\ LabelNames[Place(l)] = l[1]
  <2>1. \E i \in 1 .. 16 : LabelNames[i] = l[1]
    BY <1>1, <1>2 DEF ToSet
  <2>2. Place(l) = CHOOSE i \in 1 .. 16 : LabelNames[i] = l[1]
    BY <1>1, <1>2 DEF Place, Places
  <2>3. QED
    BY <2>1, <2>2
<1>3. LabelNames[1] = "__name__"
  BY DEF LabelNames
<1>4. \A i \in 2 .. 16 : LabelNames[i] # "__name__"
  <2>1. /\ LabelNames[2] # "__name__" /\ LabelNames[3] # "__name__" /\ LabelNames[4] # "__name__"
        /\ LabelNames[5] # "__name__" /\ LabelNames[6] # "__name__" /\ LabelNames[7] # "__name__"
        /\ LabelNames[8] # "__name__" /\ LabelNames[9] # "__name__" /\ LabelNames[10] # "__name__"
        /\ LabelNames[11] # "__name__" /\ LabelNames[12] # "__name__" /\ LabelNames[13] # "__name__"
        /\ LabelNames[14] # "__name__" /\ LabelNames[15] # "__name__" /\ LabelNames[16] # "__name__"
    BY DEF LabelNames
  <2>2. \A i \in 2 .. 16 : \/ i = 2 \/ i = 3 \/ i = 4 \/ i = 5 \/ i = 6 \/ i = 7 \/ i = 8
                           \/ i = 9 \/ i = 10 \/ i = 11 \/ i = 12 \/ i = 13 \/ i = 14 \/ i = 15
                           \/ i = 16
    OBVIOUS
  <2>3. QED
    BY <2>1, <2>2
<1>5. "__name__" \in ToSet(LabelNames)
  BY NamesOfLabels
<1>6. ASSUME NEW l, l[1] = "__name__"
      PROVE  Place(l) = 1
  <2>1. Place(l) \in 1 .. 16 /\ LabelNames[Place(l)] = "__name__"
    BY <1>2, <1>5, <1>6
  <2>2. QED
    BY <1>4, <2>1
<1>7. QED
  BY <1>2, <1>3, <1>6

(***************************************************************************)
(* encodeSeries lists the labels that it is given, each once and in order. *)
(***************************************************************************)
LEMMA SortedLabels ==
  ASSUME NEW L, Keyed(L, ToSet(LabelNames))
  PROVE  LET seq == SortedByName(L)
         IN  /\ DOMAIN seq = 1 .. Cardinality(L) /\ Cardinality(L) \in Nat
             /\ ToSet(seq) = L
             /\ \A i, j \in DOMAIN seq : i < j => Place(seq[i]) < Place(seq[j])
<1> DEFINE order == {p \in L \X L : Place(p[1]) < Place(p[2])}
           seq   == Arranged(L, order)
<1>1. IsFiniteSet(L) /\ Cardinality(L) \in Nat
  BY FS_CardinalityType DEF Keyed
<1>2. \A l \in L : Place(l) \in Int
  BY PlacesAreApart DEF Keyed
<1>3. \A l, m \in L : Place(l) = Place(m) => l = m
  BY PlacesAreApart DEF Keyed
<1>4. \A l, m \in L : <<l, m>> \in order <=> Place(l) < Place(m)
  OBVIOUS
<1> HIDE DEF order
<1>5. StrictTotal(L, order)
  BY <1>2, <1>3, <1>4 DEF StrictTotal
<1>6. /\ seq \in Bijection(1 .. Cardinality(L), L)
      /\ \A i, j \in 1 .. Cardinality(L) : i < j => <<seq[i], seq[j]>> \in order
  BY <1>1, <1>5, ArrangedInOrder
<1>7. SortedByName(L) = seq
  BY DEF SortedByName, order
<1> HIDE DEF seq
<1>8. /\ seq \in [1 .. Cardinality(L) -> L]
      /\ \A l \in L : \E i \in 1 .. Cardinality(L) : seq[i] = l
  BY <1>6 DEF Bijection, Injection, Surjection
<1>9. ToSet(seq) = L
  <2>1. \A l : l \in ToSet(seq) <=> l \in L
    BY <1>8 DEF ToSet
  <2>2. QED
    BY <2>1
<1>10. QED
  BY <1>1, <1>4, <1>6, <1>7, <1>8, <1>9

\* The series that is sent for a sample.
Sent(name, labels, value, external) ==
    [labels |-> SortedByName({<<"__name__", name>>} \cup NotEmpty(labels) \cup external),
     value  |-> value]

(***************************************************************************)
(* What becomes of one sample: its name comes first, and the labels that   *)
(* are neither its name nor external are those of its line.                *)
(***************************************************************************)
LEMMA PushedSample ==
  ASSUME NEW labels, Keyed(labels, OwnNames), NEW name, NEW value,
         NEW external \in Externals
  PROVE  LET s == Sent(name, labels, value, external)
         IN  /\ \A i, j \in DOMAIN s.labels : i < j => Place(s.labels[i]) < Place(s.labels[j])
             /\ s.labels[1] = <<"__name__", name>> /\ external \subseteq ToSet(s.labels)
             /\ LineOf(s, external) = [labels |-> NotEmpty(labels), value |-> value]
<1> DEFINE E == NotEmpty(labels)
           L == {<<"__name__", name>>} \cup E \cup external
           s == Sent(name, labels, value, external)
<1>1. Keyed(E, OwnNames)
  <2>1. E \in SUBSET labels
    BY DEF NotEmpty
  <2>2. QED
    BY <2>1, KeyedPart
<1>2. \A l \in E : l[1] # "__name__" /\ l[1] # "region"
  BY <1>1 DEF Keyed, OwnNames
<1>3. Keyed(L, ToSet(LabelNames))
  <2>1. "__name__" \notin OwnNames /\ "region" \notin OwnNames \cup {"__name__"}
    BY DEF OwnNames
  <2>2. Keyed(E \cup {<<"__name__", name>>}, OwnNames \cup {"__name__"})
    BY <1>1, <2>1, KeyedAlso
  <2>3. Keyed(E \cup {<<"__name__", name>>} \cup {<<"region", 1>>},
              OwnNames \cup {"__name__"} \cup {"region"})
    BY <2>1, <2>2, KeyedAlso
  <2>4. L \in SUBSET (E \cup {<<"__name__", name>>} \cup {<<"region", 1>>})
    BY DEF Externals
  <2>5. OwnNames \cup {"__name__"} \cup {"region"} \subseteq ToSet(LabelNames)
    BY NamesOfLabels
  <2> HIDE DEF L
  <2>6. QED
    BY <2>3, <2>4, <2>5, KeyedPart
<1>4. <<"__name__", name>> \in L /\ external \subseteq L
  OBVIOUS
<1>5. {l \in L : l[1] # "__name__"} \ external = E
  <2>1. \A l \in external : l = <<"region", 1>>
    BY DEF Externals
  <2>2. \A l \in E : l \notin external
    <3>1. <<"region", 1>>[1] = "region"
      OBVIOUS
    <3>2. QED
      BY <1>2, <2>1, <3>1
  <2>3. <<"__name__", name>>[1] = "__name__"
    OBVIOUS
  <2>4. \A l : l \in {m \in L : m[1] # "__name__"} \ external <=> l \in E
    BY <1>2, <2>2, <2>3
  <2>5. QED
    BY <2>4
<1>9. s.labels = SortedByName(L) /\ s.value = value
  BY DEF Sent
<1> HIDE DEF L, E
<1>6. PICK seq : seq = SortedByName(L)
  OBVIOUS
<1>7. /\ DOMAIN seq = 1 .. Cardinality(L) /\ Cardinality(L) \in Nat
      /\ ToSet(seq) = L
      /\ \A i, j \in DOMAIN seq : i < j => Place(seq[i]) < Place(seq[j])
  BY <1>3, <1>6, SortedLabels
<1>8. seq[1] = <<"__name__", name>>
  <2>1. PICK i \in DOMAIN seq : seq[i] = <<"__name__", name>>
    BY <1>4, <1>7 DEF ToSet
  <2>2. Place(seq[i]) = 1
    BY <2>1, PlacesAreApart
  <2>3. ASSUME i # 1 PROVE FALSE
    <3>1. 1 \in DOMAIN seq /\ 1 < i
      BY <1>7, <2>1, <2>3
    <3>2. Place(seq[1]) < 1
      BY <1>7, <2>1, <2>2, <3>1
    <3>3. seq[1] \in L
      BY <1>7, <3>1 DEF ToSet
    <3>4. Place(seq[1]) \in 1 .. 16
      BY <1>3, <3>3, PlacesAreApart DEF Keyed
    <3>5. QED
      BY <3>2, <3>4
  <2>4. QED
    BY <2>1, <2>3
<1> HIDE DEF s
<1>10. LineOf(s, external) = [labels |-> E, value |-> value]
  BY <1>5, <1>6, <1>7, <1>9 DEF LineOf
<1>11. QED
  BY <1>4, <1>6, <1>7, <1>8, <1>9, <1>10 DEF s, L, E

(***************************************************************************)
(* For every fleet, a push carries what /metrics shows, line for line, and *)
(* every series has its labels in order.                                   *)
(***************************************************************************)
THEOREM PushesAreExposed == UISafeSpec => []PushedAsExposed
<1>1. ASSUME NEW external \in Externals
      PROVE  LET text   == WriteText(Samples)
                 pushed == Encoded(ToSeries(Samples), external)
                 line   == [s \in pushed |-> LineOf(s, external)]
             IN  /\ \A s \in pushed :
                       /\ \A i, j \in DOMAIN s.labels :
                             i < j => Place(s.labels[i]) < Place(s.labels[j])
                       /\ s.labels[1][1] = "__name__" /\ external \subseteq ToSet(s.labels)
                       /\ FamilyOf(s) \in DOMAIN text /\ line[s] \in text[FamilyOf(s)]
                 /\ \A family \in DOMAIN text : \A shown \in text[family] :
                       \E s \in pushed : FamilyOf(s) = family /\ line[s] = shown
                 /\ \A s, t \in pushed : FamilyOf(s) = FamilyOf(t) /\ line[s] = line[t] => s = t
  <2> DEFINE text   == WriteText(Samples)
             pushed == Encoded(ToSeries(Samples), external)
             line   == [s \in pushed |-> LineOf(s, external)]
             P(x)   == Sent(x.name, x.labels, x.value, external)
             Series(x)  == [labels |-> {<<"__name__", x.name>>} \cup NotEmpty(x.labels),
                            value  |-> x.value]
             Encode(r)  == [labels |-> SortedByName(r.labels \cup external), value |-> r.value]
  <2>1. pushed = {P(x) : x \in Samples}
    <3>1. pushed = {Encode(r) : r \in ToSeries(Samples)}
      BY DEF Encoded
    <3>2. ToSeries(Samples) = {Series(x) : x \in Samples}
      BY DEF ToSeries
    <3>3. \A x : Encode(Series(x)) = P(x)
      BY DEF Sent
    <3> HIDE DEF Encode, Series, P, pushed
    <3>4. \A r : r \in pushed <=> \E x \in Samples : r = P(x)
      BY <3>1, <3>2, <3>3
    <3>5. QED
      BY <3>4
  <2>2. ASSUME NEW x \in Samples
        PROVE  /\ \A i, j \in DOMAIN P(x).labels :
                     i < j => Place(P(x).labels[i]) < Place(P(x).labels[j])
               /\ P(x).labels[1][1] = "__name__" /\ FamilyOf(P(x)) = x.name
               /\ external \subseteq ToSet(P(x).labels)
               /\ LineOf(P(x), external) = TextLine(x)
    <3>1. Keyed(x.labels, OwnNames)
      BY LabelsOfSamples
    <3>2. /\ \A i, j \in DOMAIN P(x).labels :
                i < j => Place(P(x).labels[i]) < Place(P(x).labels[j])
          /\ P(x).labels[1] = <<"__name__", x.name>> /\ external \subseteq ToSet(P(x).labels)
          /\ LineOf(P(x), external) = [labels |-> NotEmpty(x.labels), value |-> x.value]
      BY <3>1, PushedSample
    <3> HIDE DEF P
    <3>3. QED
      BY <3>2 DEF FamilyOf, TextLine
  <2>3. DOMAIN text = {x.name : x \in Samples}
    BY DEF WriteText
  <2>4. \A family \in DOMAIN text :
           text[family] = {TextLine(x) : x \in {y \in Samples : y.name = family}}
    BY <2>3 DEF WriteText
  <2>5. ASSUME NEW x \in Samples, NEW y \in Samples, x.name = y.name, TextLine(x) = TextLine(y)
        PROVE  P(x) = P(y)
    <3>1. NotEmpty(x.labels) = NotEmpty(y.labels) /\ x.value = y.value
      BY <2>5 DEF TextLine
    <3>2. QED
      BY <2>5, <3>1 DEF Sent
  <2> HIDE DEF text, P
  <2>6. \A s \in pushed : line[s] = LineOf(s, external)
    OBVIOUS
  <2> HIDE DEF pushed, line
  <2>7. \A s \in pushed : \E x \in Samples : s = P(x)
    BY <2>1
  <2>8. \A x \in Samples : P(x) \in pushed /\ line[P(x)] = TextLine(x)
    BY <2>1, <2>2, <2>6
  <2>9. \A x \in Samples : x.name \in DOMAIN text /\ TextLine(x) \in text[x.name]
    BY <2>3, <2>4
  <2>10. ASSUME NEW s \in pushed
         PROVE  /\ \A i, j \in DOMAIN s.labels :
                      i < j => Place(s.labels[i]) < Place(s.labels[j])
                /\ s.labels[1][1] = "__name__" /\ external \subseteq ToSet(s.labels)
                /\ FamilyOf(s) \in DOMAIN text /\ line[s] \in text[FamilyOf(s)]
    <3>1. PICK x \in Samples : s = P(x)
      BY <2>7
    <3>2. QED
      BY <2>2, <2>8, <2>9, <3>1
  <2>11. ASSUME NEW family \in DOMAIN text, NEW shown \in text[family]
         PROVE  \E s \in pushed : FamilyOf(s) = family /\ line[s] = shown
    <3>1. PICK x \in Samples : x.name = family /\ shown = TextLine(x)
      BY <2>4
    <3>2. QED
      BY <2>2, <2>8, <3>1
  <2>12. ASSUME NEW s \in pushed, NEW t \in pushed,
                FamilyOf(s) = FamilyOf(t), line[s] = line[t]
         PROVE  s = t
    <3>1. PICK x \in Samples : s = P(x)
      BY <2>7
    <3>2. PICK y \in Samples : t = P(y)
      BY <2>7
    <3>3. x.name = y.name /\ TextLine(x) = TextLine(y)
      BY <2>2, <2>8, <2>12, <3>1, <3>2
    <3>4. QED
      BY <2>5, <3>1, <3>2, <3>3
  <2>13. QED
    BY <2>10, <2>11, <2>12 DEF text, pushed, line
<1>2. PushedAsExposed
  BY <1>1 DEF PushedAsExposed
<1>3. QED
  BY <1>2, PTL
=============================================================================
