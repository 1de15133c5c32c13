-------------------------------- MODULE Feed --------------------------------
(***************************************************************************)
(* What the snapshot stream promises a connection, apart from how the      *)
(* store keeps the promise.  Snapshots are numbered by the order in which  *)
(* they were published.  A client that has joined is told of the latest    *)
(* one that was published since; it may miss snapshots that a later one    *)
(* replaced, it is never told of one twice out of order, and it does not   *)
(* stay behind.                                                            *)
(***************************************************************************)
EXTENDS Naturals

CONSTANTS
    Clients,     \* the connections to /api/stream
    Attentive    \* those whose browser keeps reading

VARIABLES
    latest,      \* number of the latest snapshot, 0 before the first
    joined,      \* the clients that are listening
    told         \* told[c]: the latest snapshot c needs no news of

vars == <<latest, joined, told>>

Init ==
    /\ latest = 0
    /\ joined = {}
    /\ told = [c \in Clients |-> 0]

Publish ==
    /\ latest' = latest + 1
    /\ UNCHANGED <<joined, told>>

\* A client that joins is told of nothing that was published before.  Whether it
\* has the data of those snapshots is no business of the stream: the page loads
\* them before it connects, and may be behind until the next one.
Join(c) ==
    /\ c \notin joined
    /\ joined' = joined \cup {c}
    /\ told' = [told EXCEPT ![c] = latest]
    /\ UNCHANGED latest

Tell(c) ==
    /\ c \in joined
    /\ told' = [told EXCEPT ![c] = latest]
    /\ UNCHANGED <<latest, joined>>

\* Clients leave one at a time, or all at once with the process.
Leave(cs) ==
    /\ joined' = joined \ cs
    /\ UNCHANGED <<latest, told>>

Next ==
    \/ Publish
    \/ \E c \in Clients : Join(c) \/ Tell(c)
    \/ \E cs \in SUBSET Clients : Leave(cs)

SafeSpec == Init /\ [][Next]_vars

Spec == SafeSpec /\ \A c \in Attentive : WF_vars(Tell(c))
=============================================================================
