------------------------------- MODULE Metrics ------------------------------
(***************************************************************************)
(* The series that one collection publishes (internal/metrics/metrics.go), *)
(* each a name, a set of labels and a value; the text in which /metrics    *)
(* shows them and the series in which a push sends them.  A label is a     *)
(* pair of its name and its value, 0 being the empty value.                *)
(***************************************************************************)
EXTENDS Query

AllStatuses == {"ok", "unmounted", "unreported", "block", "pending", "stale", "error"}

Sample(name, labels, value) == [name |-> name, labels |-> labels, value |-> value]

Whole(n) == <<n, 1>>

\* A label that the code sets only when it has a value.
Label(key, x) == {<<key, y>> : y \in {x} \ {0}}

-----------------------------------------------------------------------------
\* Build
BuildSamples(res) ==
    {Sample("peevee_build_info", {<<"version", 1>>, <<"commit", 1>>}, Whole(1)),
     Sample("peevee_last_scrape_timestamp_seconds", {}, Whole(res.generatedAt)),
     Sample("peevee_scrape_duration_seconds", {}, <<res.durationMS, 1000>>)}

\* One health record per cluster of the pool.
ClusterSamples(h) ==
    LET base == {<<"cluster", h.name>>}
    IN  {Sample("peevee_cluster_up", base \cup {<<"endpoint", h.endpoint>>}, Whole(One(h.reachable))),
         Sample("peevee_cluster_scrape_duration_seconds", base, <<h.scrapeMillis, 1000>>),
         Sample("peevee_cluster_pvcs", base, Whole(h.pvcs)),
         Sample("peevee_cluster_nodes_scraped", base, Whole(h.nodesScraped))}

\* Mutant: claims of one name in two namespaces.
NameLabels(v) == {<<"cluster", v.cluster>>, <<"persistentvolumeclaim", v.name>>}

\* What tells one claim from another.
ClaimLabels(v) ==
    {<<"cluster", v.cluster>>, <<"namespace", v.namespace>>, <<"persistentvolumeclaim", v.name>>}

KubeletLabels(v) == ClaimLabels(v) \cup Label("node", v.node)

FullLabels(v) ==
    KubeletLabels(v) \cup {<<"storageclass", v.storageClass>>} \cup Label("provisioner", v.provisioner)

InfoLabels(v) ==
    ClaimLabels(v)
        \cup {<<"storageclass", v.storageClass>>, <<"volumemode", v.volumeMode>>,
              <<"shared_filesystem", 1 + One(v.shared)>>}
        \cup Label("provisioner", v.provisioner) \cup Label("volumename", v.volumeName)
        \cup Label("workload", v.workload)

KubeletFamilies ==
    [kubelet_volume_stats_capacity_bytes  |-> "capacity",
     kubelet_volume_stats_used_bytes      |-> "used",
     kubelet_volume_stats_available_bytes |-> "available",
     kubelet_volume_stats_inodes          |-> "inodesTotal",
     kubelet_volume_stats_inodes_used     |-> "inodesUsed",
     kubelet_volume_stats_inodes_free     |-> "inodesFree"]

\* Only a volume that was measured has any of these.
UsageSamples(v) ==
    {Sample(f, KubeletLabels(v), Whole(v[KubeletFamilies[f]])) : f \in DOMAIN KubeletFamilies}
    \cup {Sample("peevee_pvc_usage_ratio", FullLabels(v), <<v.usage, 100>>),
          Sample("peevee_pvc_inodes_ratio", FullLabels(v), <<v.inodes, 100>>)}
    \cup {Sample("peevee_pvc_growth_bytes_per_day", FullLabels(v), g) : g \in {Growth(v)} \ {None}}
    \cup {Sample("peevee_pvc_days_until_full", FullLabels(v), d) : d \in {DaysUntilFull(v)} \ {None}}

\* The state set: a series for each status, 1 for the one that holds.
StatusSamples(v) ==
    {Sample("peevee_pvc_status", ClaimLabels(v) \cup {<<"status", StatusRank(st)>>}, Whole(One(v.status = st))) :
        st \in AllStatuses}

VolumeSamples(v) ==
    (IF v.hasStats THEN UsageSamples(v) ELSE {})
    \cup {Sample("peevee_pvc_requested_bytes", FullLabels(v), Whole(v.requested)),
          Sample("peevee_pvc_provisioned_bytes", FullLabels(v), Whole(v.provisioned)),
          Sample("peevee_pvc_info", InfoLabels(v), Whole(1))}
    \cup StatusSamples(v)

\* handleMetrics and Runner.push: every volume; their order is lost in the samples.
AllQuery ==
    [clusters |-> {}, namespaces |-> {}, storageClass |-> {}, provisioner |-> {}, status |-> {},
     minUsage |-> 0, search |-> 0, atRisk |-> FALSE, sort |-> "usage", desc |-> FALSE,
     limit |-> 0, offset |-> 0]

MetricsRows(volumes) == Rows(volumes, AllQuery)

Build(res, rows, health) ==
    BuildSamples(res) \cup (UNION {VolumeSamples(v) : v \in ToSet(rows)})
                      \cup (UNION {ClusterSamples(h) : h \in health})

-----------------------------------------------------------------------------
\* WriteText and ToSeries

\* Neither writes a label whose value is empty.
NotEmpty(labels) == {l \in labels : l[2] # 0}

TextLine(x) == [labels |-> NotEmpty(x.labels), value |-> x.value]

\* Every family once, with all its lines.
WriteText(samples) ==
    [name \in {x.name : x \in samples} |-> {TextLine(x) : x \in {y \in samples : y.name = name}}]

ToSeries(samples) ==
    {[labels |-> {<<"__name__", x.name>>} \cup NotEmpty(x.labels), value |-> x.value] :
        x \in samples}

-----------------------------------------------------------------------------
\* Push and encodeSeries

\* The names of labels in the order of their bytes; region is an external one.
LabelNames ==
    <<"__name__", "cluster", "commit", "endpoint", "namespace", "node", "persistentvolumeclaim",
      "provisioner", "region", "shared_filesystem", "status", "storageclass", "version",
      "volumemode", "volumename", "workload">>

Places == [name \in ToSet(LabelNames) |-> CHOOSE i \in DOMAIN LabelNames : LabelNames[i] = name]

Place(l) == Places[l[1]]

\* Labels of different names.
SortedByName(labels) ==
    Arranged(labels, {p \in labels \X labels : Place(p[1]) < Place(p[2])})

\* Mutant: sorted before the external labels are appended.
EncodedBefore(series, external) ==
    {[labels |-> SortedByName(s.labels) \o SortedByName(external), value |-> s.value] : s \in series}

\* The labels of the series come out of a map, and the external ones are appended
\* to them as they come out of another; encodeSeries sorts them all.
Encoded(series, external) ==
    {[labels |-> SortedByName(s.labels \cup external), value |-> s.value] : s \in series}
=============================================================================
