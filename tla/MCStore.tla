------------------------------- MODULE MCStore ------------------------------
(***************************************************************************)
(* Model checking of Store, HistoryMemory and HistoryLog together.         *)
(*                                                                         *)
(* Streams and queries share nothing but Put, and every step of the ones   *)
(* commutes with every step of the others, so a behaviour has either       *)
(* streams or queries.  Those with streams end sooner, and their arrays    *)
(* have no room.                                                           *)
(***************************************************************************)
EXTENDS HistoryMemory, HistoryLog

CONSTANT StreamPuts     \* bound: collections in a behaviour with streams

VARIABLE streams    \* whether the behaviour has streams, or queries

\* One unchanging volume: for the run about the channels alone.
OneVolume == {[k \in Keys |-> "reporting"]}

\* Anything a collection can find.
AnyVolumes == [Keys -> VolumeStates]

MCInit == MemoryInit /\ log = <<>> /\ streams \in BOOLEAN

StreamsOnly ==
    /\ generatedAt' <= StreamPuts
    /\ ~query'.active
    /\ \A k \in Keys : ~HasRoom(k, slice[k])'

QueriesOnly == pc' = pc /\ gone' = gone

MCNext ==
    /\ MemoryNext
    /\ Logged
    /\ IF streams THEN StreamsOnly ELSE QueriesOnly
    /\ UNCHANGED streams

MCSafeSpec == MCInit /\ [][MCNext]_<<vars, memoryVars, query, log, streams>>

MCSpec == MCSafeSpec /\ Fairness
=============================================================================
