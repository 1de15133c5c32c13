------------------------------ MODULE MCScrape ------------------------------
(***************************************************************************)
(* Model checking of Scrape: two claims, one of them mounted by two pods.  *)
(***************************************************************************)
EXTENDS Scrape

CONSTANTS n1, n2, n3, a, b, p,
          away      \* a node that pods name and the API server does not list

Pod(k, n, r) == [claim |-> k, node |-> n, running |-> r]

\* Claim a is mounted by two pods anywhere, the second of which may not run;
\* claim b by at most one pod, which runs on n1.  When no claim has a node all
\* three nodes are asked.
Pods ==
    {<<Pod(a, x, TRUE), Pod(a, y, r)>> \o rest :
        x \in Nodes \cup {NoNode}, y \in Nodes \cup {NoNode, away}, r \in BOOLEAN,
        rest \in {<<>>, <<Pod(b, n1, TRUE)>>}}

Lists ==
    [ready : [Nodes -> BOOLEAN],
     pods : Pods,
     kind : {[k \in Claims |-> IF k = a THEN "filesystem" ELSE s] :
                s \in {"filesystem", "block", "excluded"}},
     provisioner : {[k \in Claims |-> IF k = a THEN p ELSE r] : r \in {p, NoProvisioner}}]

\* Two claims, in use on two nodes that are Ready.
TwoNodes ==
    [ready : {[n \in Nodes |-> TRUE]},
     pods : {<<Pod(a, n1, TRUE), Pod(b, n2, TRUE)>>},
     kind : {[k \in Claims |-> "filesystem"]},
     provisioner : {[k \in Claims |-> p]}]

\* A higher reading that is old and a lower one that is not.
Readings == {[used |-> 0, fresh |-> TRUE], [used |-> 1, fresh |-> FALSE]}
=============================================================================
