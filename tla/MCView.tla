------------------------------- MODULE MCView -------------------------------
(***************************************************************************)
(* Model checking of View: a page is opened on each of many small fleets,  *)
(* over which the computations are compared with reference definitions,    *)
(* and used on one larger fleet that changes.                              *)
(***************************************************************************)
EXTENDS View

\* A claim nothing is known of.
Bare == [cluster |-> 1, namespace |-> 1, name |-> 1, storageClass |-> 1, provisioner |-> 0,
         status |-> "unmounted", hasStats |-> FALSE, usage |-> 0, inodes |-> 0, used |-> 0,
         capacity |-> 0, requested |-> 4, shared |-> FALSE, node |-> 0, workload |-> 0,
         volumeName |-> 5, history |-> <<>>, volumeMode |-> 1, provisioned |-> 4,
         available |-> 0, inodesTotal |-> 0, inodesUsed |-> 0, inodesFree |-> 0]

Line(a, b, c) == <<[t |-> 0, used |-> a], [t |-> 1, used |-> b], [t |-> 3, used |-> c]>>

\* A claim that was measured.
Measured(used, capacity, history) ==
    [Bare EXCEPT !.status = "ok", !.hasStats = TRUE, !.used = used, !.capacity = capacity,
                 !.usage = (used * 100) \div capacity, !.node = 1, !.provisioner = 2,
                 !.workload = 3, !.history = history]

\* The disk of a node, as each of the claims on it reports it.
OnDisk(node) ==
    [Measured(2 + node, 10, <<>>) EXCEPT !.node = node, !.shared = TRUE]

\* What one claim of a small fleet may be.
Conditions ==
    {Bare, [Bare EXCEPT !.status = "unreported", !.node = 2, !.workload = 3],
     OnDisk(1), OnDisk(2),
     Measured(4, 5, Line(2, 3, 4)),          \* soon full
     Measured(1, 5, Line(0, 0, 1)),          \* not so soon
     [Measured(1, 5, Line(4, 3, 1)) EXCEPT !.inodes = 95]}   \* shrinking, out of inodes

\* Claims of one name, in two namespaces of one cluster and in another cluster.
Named(v, i) == [v EXCEPT !.cluster = IF i = 3 THEN 2 ELSE 1, !.namespace = IF i = 2 THEN 2 ELSE 1]

SmallFleets == {[i \in 1 .. 3 |-> Named(f[i], i)] : f \in [1 .. 3 -> Conditions]}

\* Every short line of usage, at even and uneven intervals.
Times == {<<0, 1, 2>>, <<0, 1, 3>>, <<0, 2, 3>>, <<0, 1, 2, 3>>, <<0, 3>>}

Lines == {<<Measured(u[Len(t)], 3, [i \in DOMAIN t |-> [t |-> t[i], used |-> u[i]]])>> :
             t \in Times, u \in [1 .. 4 -> 0 .. 2]}

\* A fleet of three claims with names of their own, of which a collection may find fewer.
Browsed == [i \in 1 .. 3 |-> [Measured(i, 4, <<>>) EXCEPT !.name = 6 + i]]

\* A growing volume whose capacity the kubelet does not know.
Unsized == <<[Measured(4, 5, Line(2, 3, 4)) EXCEPT !.capacity = 0]>>

MCSnapshots == SmallFleets \cup Lines \cup {Browsed, Unsized}

MCChanges == {<<Browsed, SubSeq(Browsed, 1, n)>> : n \in {1, 2}}

\* The user begins with one row per page; the other fleets are only looked at,
\* all rows on one page.
MCInit ==
    /\ UIInit
    /\ IF volumes = Browsed THEN moves = MaxMoves /\ state.pageSize = 1
                            ELSE moves = 0 /\ state.pageSize = 0

MCSpec == MCInit /\ [][UINext]_uivars /\ UIFairness
=============================================================================
