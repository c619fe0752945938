-------------------------- MODULE MCRemoteTransport --------------------------
(***************************************************************************)
(* Instance of RemoteTransport: two long answers and a short one.          *)
(***************************************************************************)
EXTENDS RemoteTransport

FirstTwo == {1, 2}
=============================================================================
