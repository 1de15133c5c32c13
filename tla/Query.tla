-------------------------------- MODULE Query -------------------------------
(***************************************************************************)
(* What the store computes for a request (internal/store/store.go): the    *)
(* volumes that match, each with its severity and its trend, their totals, *)
(* the facets of the whole fleet, in the order asked for, one page of it.  *)
(*                                                                         *)
(* A volume is a record; its field history holds the retained points, each *)
(* with a time t and the bytes used.  Names are naturals in alphabetical   *)
(* order, 0 being the empty name.  A quotient is a pair of integers with a *)
(* positive denominator, so that no rounding is left out by accident: the  *)
(* code's float64 may differ in the last digits.  A row of the code is a   *)
(* volume with its severity and trend; here these are operators of it.     *)
(***************************************************************************)
EXTENDS Integers, FiniteSets, SequencesExt

CONSTANTS
    WarnThreshold, CritThreshold,   \* ui.thresholds; 0 switches one off
    Day,                            \* a day, in the unit of Point.t
    MinSpan,                        \* five minutes, in the same unit
    MaxDays                         \* 3650: a longer projection is not shown

ASSUME QueryAssumption ==
    /\ WarnThreshold \in Nat /\ CritThreshold \in Nat
    /\ Day \in Nat \ {0} /\ MinSpan \in Nat \ {0} /\ MaxDays \in Nat

None == <<>>    \* a nil pointer

-----------------------------------------------------------------------------
\* Volumes

\* The statuses in alphabetical order.
Statuses == <<"block", "error", "ok", "pending", "stale", "unmounted", "unreported">>

StatusRank(status) == CHOOSE i \in DOMAIN Statuses : Statuses[i] = status

Point == [t : Nat, used : Nat]

Volume ==
    [cluster : Nat, namespace : Nat, name : Nat, storageClass : Nat, provisioner : Nat,
     volumeName : Nat, volumeMode : Nat, node : Nat, workload : Nat,
     requested : Nat, provisioned : Nat,
     hasStats : BOOLEAN, used : Nat, capacity : Nat, available : Nat,
     inodesTotal : Nat, inodesUsed : Nat, inodesFree : Nat, usage : Nat, inodes : Nat,
     shared : BOOLEAN, status : ToSet(Statuses), history : Seq(Point)]

Claim(v) == <<v.cluster, v.namespace, v.name>>

\* The volumes of a snapshot: each claim of each cluster once.
Fleets == {fleet \in Seq(Volume) :
              \A i, j \in DOMAIN fleet : i # j => Claim(fleet[i]) # Claim(fleet[j])}

-----------------------------------------------------------------------------
\* Filters and severity

\* strings.Contains over the joined names: a search finds whole names here.
Words(v) ==
    {v.name, v.namespace, v.cluster, v.storageClass, v.provisioner, v.workload, v.node, v.volumeName}

Chosen(choice, x) == choice = {} \/ x \in choice

Matches(q, v) ==
    /\ Chosen(q.clusters, v.cluster)
    /\ Chosen(q.namespaces, v.namespace)
    /\ Chosen(q.storageClass, v.storageClass)
    /\ Chosen(q.provisioner, v.provisioner)
    /\ Chosen(q.status, v.status)
    /\ q.minUsage > 0 => v.hasStats /\ v.usage >= q.minUsage
    /\ q.search # 0 => q.search \in Words(v)

Worst(v) == IF v.inodes > v.usage THEN v.inodes ELSE v.usage

Severity(v) ==
    IF ~v.hasStats THEN "unknown"
    ELSE IF CritThreshold > 0 /\ Worst(v) >= CritThreshold THEN "critical"
    ELSE IF WarnThreshold > 0 /\ Worst(v) >= WarnThreshold THEN "warning"
    ELSE "ok"

-----------------------------------------------------------------------------
\* Trend and projection

\* f[1] + ... + f[n]
SumOf(f, n) ==
    LET sum[i \in 0 .. n] == IF i = 0 THEN 0 ELSE sum[i - 1] + f[i] IN sum[n]

Products(f, g) == [i \in DOMAIN f |-> f[i] * g[i]]

\* Mutant: the slope of the line through the first and the last point.
SlopeOfEnds(pts) == <<Last(pts).used - Head(pts).used, Last(pts).t - Head(pts).t>>

\* The slope of the best line through n points, <<0, 1>> when every x is the same.
Fit(n, x, y, xy, xx) ==
    IF n * xx = x * x THEN <<0, 1>> ELSE <<n * xy - x * y, n * xx - x * x>>

\* leastSquaresSlope: bytes per unit of time.
Slope(pts) ==
    LET n == Len(pts)
        x == [i \in 1 .. n |-> pts[i].t - pts[1].t]
        y == [i \in 1 .. n |-> pts[i].used]
    IN  Fit(n, SumOf(x, n), SumOf(y, n), SumOf(Products(x, y), n), SumOf(Products(x, x), n))

PerDay(slope) == <<slope[1] * Day, slope[2]>>

Growth(v) ==
    IF Len(v.history) < 3 \/ Last(v.history).t - Head(v.history).t < MinSpan
    THEN None
    ELSE PerDay(Slope(v.history))

Projection(v, growth) ==
    LET remaining == v.capacity - v.used
        days      == <<remaining * growth[2], growth[1]>>
    IN  IF growth = None \/ ~v.hasStats \/ v.capacity <= 0 THEN None
        ELSE IF growth[1] <= 0 THEN None
        ELSE IF remaining <= 0 THEN <<0, 1>>
        ELSE IF days[1] > MaxDays * days[2] THEN None
        ELSE days

DaysUntilFull(v) == Projection(v, Growth(v))

-----------------------------------------------------------------------------
\* Totals and facets

\* Mutant: two nodes with disks of one size are taken for one.
FileSystemOfCluster(v) == <<v.cluster, v.capacity>>

\* What identifies a host filesystem.
FileSystem(v) == <<v.cluster, v.node, v.capacity>>

NoTotals == [used |-> 0, capacity |-> 0, requested |-> 0, withStats |-> 0, unmounted |-> 0,
             unreported |-> 0, warning |-> 0, critical |-> 0, sharedFS |-> {}]

One(b) == IF b THEN 1 ELSE 0

AddRow(t, v) ==
    LET added == v.hasStats /\ ~(v.shared /\ FileSystem(v) \in t.sharedFS)
    IN  [used       |-> t.used + (IF added THEN v.used ELSE 0),
         capacity   |-> t.capacity + (IF added THEN v.capacity ELSE 0),
         requested  |-> t.requested + v.requested,
         withStats  |-> t.withStats + One(v.hasStats),
         unmounted  |-> t.unmounted + One(~v.hasStats /\ v.status = "unmounted"),
         unreported |-> t.unreported + One(~v.hasStats /\ v.status = "unreported"),
         warning    |-> t.warning + One(Severity(v) = "warning"),
         critical   |-> t.critical + One(Severity(v) = "critical"),
         sharedFS   |-> IF v.hasStats /\ v.shared THEN t.sharedFS \cup {FileSystem(v)}
                        ELSE t.sharedFS]

ComputeTotals(rows) ==
    LET after[n \in 0 .. Len(rows)] == IF n = 0 THEN NoTotals ELSE AddRow(after[n - 1], rows[n])
    IN  after[Len(rows)]

\* How many volumes have each value of a field; no provisioner is not a choice.
Facet(vols, field) ==
    LET With(x)  == {i \in DOMAIN vols : vols[i][field] = x}
        values   == {vols[i][field] : i \in DOMAIN vols}
    IN  [x \in (IF field = "provisioner" THEN values \ {0} ELSE values) |-> Cardinality(With(x))]

BuildFacets(vols) ==
    [field \in {"cluster", "namespace", "storageClass", "provisioner", "status"} |->
        Facet(vols, field)]

-----------------------------------------------------------------------------
\* Order

Columns == {"usage", "name", "namespace", "cluster", "used", "capacity", "requested",
            "storageClass", "daysUntilFull"}

Str(x, y) == IF x < y THEN -1 ELSE IF x > y THEN 1 ELSE 0   \* A to Z
Num(x, y) == Str(y, x)                                      \* the big end first

\* The first comparison that makes a difference, or 0.
FirstOf(s) ==
    IF \A i \in DOMAIN s : s[i] = 0 THEN 0
    ELSE s[CHOOSE i \in DOMAIN s : s[i] # 0 /\ \A j \in 1 .. i - 1 : s[j] = 0]

CompareUnknown(v, w) ==
    FirstOf(<<Str(StatusRank(v.status), StatusRank(w.status)), Str(v.name, w.name),
              Str(v.namespace, w.namespace), Str(v.cluster, w.cluster)>>)

\* Mutant: the whole list is reversed, as a reversal after the sort would.
CompareUsageReversed(v, w, dir) ==
    IF v.hasStats # w.hasStats THEN (IF v.hasStats THEN -dir ELSE dir)
    ELSE IF ~v.hasStats THEN CompareUnknown(v, w) * dir
    ELSE Num(v.usage, w.usage) * dir

CompareUsage(v, w, dir) ==
    IF v.hasStats # w.hasStats THEN (IF v.hasStats THEN -1 ELSE 1)
    ELSE IF ~v.hasStats THEN CompareUnknown(v, w)
    ELSE Num(v.usage, w.usage) * dir

\* x and y are the projections of v and w; the soonest comes first.
CompareDays(v, w, x, y, dir) ==
    IF x = None /\ y = None THEN CompareUsage(v, w, 1)
    ELSE IF x = None THEN 1
    ELSE IF y = None THEN -1
    ELSE Str(x[1] * y[2], y[1] * x[2]) * dir

Compare(v, w, column, dir) ==
    CASE column \in {"name", "namespace", "cluster", "storageClass"} ->
            Str(v[column], w[column]) * dir
      [] column \in {"used", "capacity", "requested"} -> Num(v[column], w[column]) * dir
      [] column = "daysUntilFull" -> CompareDays(v, w, DaysUntilFull(v), DaysUntilFull(w), dir)
      [] column = "usage" -> CompareUsage(v, w, dir)

\* sort.SliceStable: equal rows keep the order they came in.
StablyBefore(c, i, j) == c < 0 \/ (c = 0 /\ i < j)

\* The elements of a finite set one after another in a strict total order, which
\* is a set of pairs: the n-th is the one with n - 1 before it.
Arranged(S, order) ==
    [n \in 1 .. Cardinality(S) |->
        CHOOSE x \in S : Cardinality({y \in S : <<y, x>> \in order}) = n - 1]

\* The positions of rows as pairs, the first of which goes before the second.
RowOrder(rows, column, desc) ==
    LET Goes(i, j) == Compare(rows[i], rows[j], column, IF desc THEN -1 ELSE 1)
    IN  {p \in (DOMAIN rows) \X (DOMAIN rows) : StablyBefore(Goes(p[1], p[2]), p[1], p[2])}

SortRows(rows, column, desc) ==
    LET placed == Arranged(DOMAIN rows, RowOrder(rows, column, desc))
    IN  [n \in DOMAIN rows |-> rows[placed[n]]]

-----------------------------------------------------------------------------
\* The answer

AtRisk(v) == Severity(v) \in {"warning", "critical"}

Selected(volumes, q) ==
    {i \in DOMAIN volumes : Matches(q, volumes[i]) /\ (q.atRisk => AtRisk(volumes[i]))}

\* The rows keep the order of the snapshot.
Rows(volumes, q) ==
    LET chosen == Selected(volumes, q)
        placed == Arranged(chosen, {p \in chosen \X chosen : p[1] < p[2]})
    IN  [n \in 1 .. Cardinality(chosen) |-> volumes[placed[n]]]

\* Mutant: the row at the end of a page is the first of the next one, too.
PageEndInclusive(n, offset, limit) ==
    IF limit > 0 /\ offset + limit < n THEN offset + limit + 1 ELSE n

\* Where a page of n rows ends.  Without a limit it runs to the end.
PageEnd(n, offset, limit) == IF limit > 0 /\ offset + limit < n THEN offset + limit ELSE n

\* A page past the end is empty.
Page(rows, offset, limit) == SubSeq(rows, offset + 1, PageEnd(Len(rows), offset, limit))

Shown(rows, q) == Page(SortRows(rows, q.sort, q.desc), q.offset, q.limit)

\* The totals are those of all the rows, the facets those of all the volumes.
Query(volumes, q) ==
    LET rows == Rows(volumes, q)
    IN  [volumes |-> Shown(rows, q), totals |-> ComputeTotals(rows),
         facets |-> BuildFacets(volumes), matched |-> Len(rows)]

-----------------------------------------------------------------------------
\* The handlers.  A request has the fields of a query, as they were sent.

\* multi: what is left of a comma separated list without its empty parts.
Multi(names) == names \ {0}

Positive(n) == IF n > 0 THEN n ELSE 0

\* What is no positive number is no limit, and the offset 0.
QueryFromRequest(r) ==
    [clusters |-> Multi(r.clusters), namespaces |-> Multi(r.namespaces),
     storageClass |-> Multi(r.storageClass), provisioner |-> Multi(r.provisioner),
     status |-> Multi(r.status), minUsage |-> r.minUsage, atRisk |-> r.atRisk,
     search |-> r.search, sort |-> r.sort, desc |-> r.desc,
     limit |-> Positive(r.limit), offset |-> Positive(r.offset)]

\* handleExportCSV: one line for every row that matches, in the order asked for.
ExportRows(volumes, r) ==
    LET q == QueryFromRequest(r)
    IN  Page(SortRows(Rows(volumes, q), q.sort, q.desc), 0, 0)
=============================================================================
