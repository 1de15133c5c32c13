-------------------------------- MODULE View --------------------------------
(***************************************************************************)
(* What a page and /metrics show of one snapshot, each computed by itself  *)
(* (Query, Metrics), compared with each other and with what they mean.     *)
(***************************************************************************)
EXTENDS UI, Metrics

\* What is computed depends on the fleet alone: it is compared when the page opens.
Opening ==
    /\ data = NoData /\ ~failed /\ moves \in {0, MaxMoves}
    /\ \A i \in DOMAIN loads : loads[i].answer = NoData

AllRows == MetricsRows(volumes)

\* What a row has in a column, as a quotient, or None.
Value(v, column) ==
    IF column = "daysUntilFull" THEN DaysUntilFull(v)
    ELSE IF column = "usage" /\ ~v.hasStats THEN None
    ELSE <<v[column], 1>>

Less(x, y) == x[1] * y[2] < y[1] * x[2]

\* The columns whose small end comes first: A to Z, and the soonest.
SmallFirst == {"name", "namespace", "cluster", "storageClass", "daysUntilFull"}

IndexOf(r, s) == CHOOSE i \in DOMAIN s : s[i] = r

(***************************************************************************)
(* Every column sorts by its values, equal ones in the order of the        *)
(* snapshot, and rows without a value come last, in one order, whichever   *)
(* way the column points (the comment in sortRows, for the columns usage   *)
(* and daysUntilFull).                                                     *)
(***************************************************************************)
SortedAsPromised == Opening =>
    \A column \in Columns :
        LET Known(r) == Value(r, column) # None
            InOrder(r, s, small) ==
                LET x == Value(r, column)
                    y == Value(s, column)
                IN  \/ IF small THEN Less(x, y) ELSE Less(y, x)
                    \/ ~Less(x, y) /\ ~Less(y, x) /\ IndexOf(r, AllRows) < IndexOf(s, AllRows)
            Sorted(rows, small) ==
                /\ Len(rows) = Len(AllRows) /\ ToSet(rows) = ToSet(AllRows)
                /\ \A i, j \in DOMAIN rows :
                      i < j /\ Known(rows[j]) => Known(rows[i]) /\ InOrder(rows[i], rows[j], small)
            up   == SortRows(AllRows, column, FALSE)
            down == SortRows(AllRows, column, TRUE)
        IN  /\ Sorted(up, column \in SmallFirst) /\ Sorted(down, column \notin SmallFirst)
            /\ \A i \in DOMAIN up : ~Known(up[i]) => up[i] = down[i]

\* The totals are sums over a choice of the rows that were measured, which has
\* each row that is alone on its disk, and one of those that lie on one disk.
OfDisks(rows, totals) ==
    LET measured == {i \in DOMAIN rows : rows[i].hasStats}
        onNode   == {i \in measured : rows[i].shared}
        Disk(i)  == <<rows[i].cluster, rows[i].node, rows[i].capacity>>
        Total(chosen, field) ==
            SumOf([i \in DOMAIN rows |-> IF i \in chosen THEN rows[i][field] ELSE 0], Len(rows))
    IN  \E chosen \in SUBSET measured :
          /\ measured \ onNode \subseteq chosen
          /\ \A i \in onNode : \E j \in onNode \cap chosen : Disk(j) = Disk(i)
          /\ \A i, j \in onNode \cap chosen : Disk(i) = Disk(j) => i = j
          /\ totals.used = Total(chosen, "used") /\ totals.capacity = Total(chosen, "capacity")

(***************************************************************************)
(* Each distinct filesystem is counted exactly once (computeTotals): the   *)
(* disk of a node however many claims lie on it, a dedicated volume for    *)
(* itself, whichever of them match.                                        *)
(***************************************************************************)
DisksCountedOnce == Opening =>
    \A ns \in {{}, {1}, {2}}, b \in BOOLEAN :
        LET q == [AllQuery EXCEPT !.namespaces = ns, !.atRisk = b]
        IN  OfDisks(Rows(volumes, q), Query(volumes, q).totals)

(***************************************************************************)
(* The growth that is shown is the least-squares slope, here from the      *)
(* pairs of points, and none is shown of fewer than three points or of a   *)
(* shorter time than MinSpan; a projection is shown exactly for a measured *)
(* volume with a capacity that grows and has room for at most MaxDays, and *)
(* is the time at which the line reaches the capacity.                     *)
(***************************************************************************)
TrendIsHonest == Opening =>
    \A v \in ToSet(AllRows) :
        LET pts     == v.history
            n       == Len(pts)
            growth  == Growth(v)
            days    == DaysUntilFull(v)
            T(i, j) == pts[j].t - pts[i].t
            U(i, j) == pts[j].used - pts[i].used
            rise    == SumOf([j \in 1 .. n |-> SumOf([i \in 1 .. j |-> T(i, j) * U(i, j)], j)], n)
            run     == SumOf([j \in 1 .. n |-> SumOf([i \in 1 .. j |-> T(i, j) * T(i, j)], j)], n)
            room    == v.capacity - v.used
            far     == room * run > MaxDays * rise * Day
        IN  /\ growth # None <=> n >= 3 /\ T(1, n) >= MinSpan
            /\ growth # None =>
                  /\ growth[2] > 0
                  /\ growth[1] * run = rise * Day * growth[2]
            /\ days # None <=> /\ growth # None /\ rise > 0
                               /\ v.hasStats /\ v.capacity > 0
                               /\ far => room <= 0
            /\ days # None /\ room > 0 => days[1] * rise * Day = room * run * days[2]

(***************************************************************************)
(* The pages are the rows of the export (api.go:314) cut in pieces: every  *)
(* row is in its place on its page, and no page has rows besides, whatever *)
(* the list is sorted by, although each page is a request of its own,      *)
(* which sorts the rows anew.                                              *)
(***************************************************************************)
PagesTileTheExport == Opening =>
    \A column \in {"usage", "name", "daysUntilFull"}, desc, risk \in BOOLEAN,
       size \in PageSizes \ {0} :
        LET s      == [state EXCEPT !.sort = column, !.desc = desc, !.atRisk = risk,
                                    !.pageSize = size]
            export == ExportRows(volumes, QueryString(s))
            At(n)  == Query(volumes, PagedQuery([s EXCEPT !.offset = (n - 1) * size])).volumes
            Row(n, k) == (n - 1) * size + k
        IN  \A n \in 1 .. Len(export) + 1 :
              LET page == At(n)
              IN  /\ Len(page) <= size
                  /\ \A k \in 1 .. size : k <= Len(page) <=> Row(n, k) <= Len(export)
                  /\ \A k \in 1 .. Len(page) : page[k] = export[Row(n, k)]

\* The clusters of the fleet, the first unreachable.
Healths == {[name |-> c, endpoint |-> c - 1, reachable |-> c # 1, pvcs |-> 3, nodesScraped |-> 1,
             scrapeMillis |-> 2] : c \in {v.cluster : v \in ToSet(volumes)}}

Samples == Build([generatedAt |-> 1, durationMS |-> 2], AllRows, Healths)

SameSeries(x, y) == x.name = y.name /\ NotEmpty(x.labels) = NotEmpty(y.labels)

\* The samples of two sources.
Apart(samples, others) == \A x \in samples, y \in others : ~SameSeries(x, y)

(***************************************************************************)
(* No two samples of one collection are the same series: a second value    *)
(* for one name and label set makes the whole exposition invalid.          *)
(***************************************************************************)
SeriesAreDistinct == Opening =>
    /\ \A x, y \in Samples : SameSeries(x, y) => x = y
    /\ \A v, w \in ToSet(AllRows) : v # w => Apart(VolumeSamples(v), VolumeSamples(w))
    /\ \A g, h \in Healths : g # h => Apart(ClusterSamples(g), ClusterSamples(h))

\* The external labels of the configuration: none, or one of another name than
\* peevee's own.
Externals == {{}, {<<"region", 1>>}}

\* The line of /metrics that a pushed series belongs to, and its family.
LineOf(s, external) ==
    [labels |-> {l \in ToSet(s.labels) : l[1] # "__name__"} \ external, value |-> s.value]

FamilyOf(s) == s.labels[1][2]

(***************************************************************************)
(* A push sends the series that /metrics shows, one for each of its lines, *)
(* with the external labels; and no series has its labels out of order or  *)
(* twice, for which Mimir rejects the request outright (proto.go:73).      *)
(***************************************************************************)
PushedAsExposed == Opening =>
    LET text == WriteText(Samples)
    IN  \A external \in Externals :
          LET pushed == Encoded(ToSeries(Samples), external)
              line   == [s \in pushed |-> LineOf(s, external)]
          IN  /\ \A s \in pushed :
                    /\ \A i, j \in DOMAIN s.labels : i < j => Place(s.labels[i]) < Place(s.labels[j])
                    /\ s.labels[1][1] = "__name__" /\ external \subseteq ToSet(s.labels)
                    /\ FamilyOf(s) \in DOMAIN text /\ line[s] \in text[FamilyOf(s)]
              /\ \A family \in DOMAIN text : \A shown \in text[family] :
                    \E s \in pushed : FamilyOf(s) = family /\ line[s] = shown
              /\ \A s, t \in pushed : FamilyOf(s) = FamilyOf(t) /\ line[s] = line[t] => s = t
=============================================================================
