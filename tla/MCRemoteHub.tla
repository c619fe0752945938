----------------------------- MODULE MCRemoteHub -----------------------------
(***************************************************************************)
(* Instance of RemoteHub: a laptop with two connections, one after or      *)
(* beside the other.                                                       *)
(***************************************************************************)
EXTENDS RemoteHub

CONSTANTS k1, k2

MCConns    == {k1, k2}
MCDeviceOf == [k \in Conns |-> "laptop"]
=============================================================================
