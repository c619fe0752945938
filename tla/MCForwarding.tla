---------------------------- MODULE MCForwarding ----------------------------
(***************************************************************************)
(* Instance of Forwarding: two requests at a time, a TCP mapping and an    *)
(* HTTP mapping that is not enabled, which compete for one socket, and a   *)
(* UDP mapping with the same port number.                                  *)
(***************************************************************************)
EXTENDS Forwarding

Draft(port, proto, device, target, enabled) ==
    [port |-> port, proto |-> proto, device |-> device, target |-> target,
     enabled |-> enabled]

MCDrafts ==
    { Draft(2000, "tcp", "laptop", 80, TRUE),
      Draft(2000, "http", "laptop", 80, FALSE),
      Draft(2000, "udp", "laptop", 53, TRUE) }

MCSockets == {SocketOf(m) : m \in MCDrafts}
=============================================================================
