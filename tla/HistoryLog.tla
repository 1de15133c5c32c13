----------------------------- MODULE HistoryLog -----------------------------
(***************************************************************************)
(* Store observed through one more variable, the list of all snapshots     *)
(* that were ever stored, against which the retained history is compared.  *)
(***************************************************************************)
EXTENDS Store, FiniteSets

VARIABLE log    \* log[i]: the volumes of the i-th snapshot

LogInit == Init /\ log = <<>>

Logged == log' = IF generatedAt' # generatedAt THEN Append(log, volumes') ELSE log

LogSpec == LogInit /\ [][Next /\ Logged]_<<vars, log>>

-----------------------------------------------------------------------------
\* The snapshots since k was last missing from one that give its usage.
Readings(k) ==
    {i \in 1 .. Len(log) :
        /\ log[i][k] = "reporting"
        /\ \A j \in i .. Len(log) : log[j][k] # "absent"}

\* The latest of some snapshots: those with fewer than HistoryDepth later ones.
Latest(taken) == {i \in taken : Cardinality({j \in taken : j > i}) < HistoryDepth}

(***************************************************************************)
(* The history of a volume is the last HistoryDepth readings since it last *)
(* was missing from a snapshot, in their order: a volume that is silent    *)
(* for a while keeps its points and gains none, a volume that comes back   *)
(* starts anew, and nothing is retained for a volume that the snapshot     *)
(* does not list.                                                          *)
(***************************************************************************)
HistoryIsRecent ==
    \A k \in Keys :
        LET points == history[k]
        IN  /\ {points[x] : x \in 1 .. Len(points)} = Latest(Readings(k))
            /\ \A x, y \in 1 .. Len(points) : x < y => points[x] < points[y]
=============================================================================
