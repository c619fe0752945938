---------------------------- MODULE MCExitPolicy ----------------------------
(***************************************************************************)
(* Instances of ExitPolicy: policies with one exit and with three, of which*)
(* the last has no time at an agent's 10 s if the others are silent; and   *)
(* with four, which leave nothing of the 20 s of a CONNECT to the fallback.*)
(***************************************************************************)
EXTENDS ExitPolicy, TLC

P(exits, onFailure) == [exits |-> exits, onFailure |-> onFailure]

SomePolicies ==
    { P(<<"e1">>, "block"), P(<<"e3", "e2", "e1">>, "direct") }

FourExits == { P(<<"e4", "e3", "e2", "e1">>, "direct") }

Symmetry == Permutations(Conns)
=============================================================================
