---------------------------- MODULE MCEnrollment ----------------------------
(***************************************************************************)
(* Instances of Enrollment: the laptop takes over the tunnel kA, which has *)
(* address 2; kX is a peer of somebody else with address 3; the desktop    *)
(* generates keys, one for each attempt.                                   *)
(***************************************************************************)
EXTENDS Enrollment

CONSTANTS kA, kX, k1, k2

MCTunnelKey == [a \in Adopters |-> kA]
MCPrePeers ==
    [k \in Keys |-> CASE k = kA -> <<2>> [] k = kX -> <<3>> [] OTHER -> <<>>]

\* The other peer has a second address.
TwoAddresses ==
    [k \in Keys |-> CASE k = kA -> <<2>> [] k = kX -> <<3, 5>> [] OTHER -> <<>>]

\* Codes as the documentation asks for them, and an address that another
\* device has for a new one.
HandedCodes == [a \in Agents |-> IF a \in Adopters THEN {2} ELSE {2, NoIP}]
\* Adoption with an address nobody has.
WrongCodes == [a \in Agents |-> {4}]
=============================================================================
