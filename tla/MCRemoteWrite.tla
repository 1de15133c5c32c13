--------------------------- MODULE MCRemoteWrite ----------------------------
(***************************************************************************)
(* Model checking of RemoteWrite: one full batch, or two full ones and one *)
(* that is not.                                                            *)
(***************************************************************************)
EXTENDS RemoteWrite

SomeCounts == {2, 5}
=============================================================================
