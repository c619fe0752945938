---------------------------- MODULE MCRemoteFiles ----------------------------
(***************************************************************************)
(* Instances of RemoteFiles: two directories with a file of the same name, *)
(* one of which fills its parts exactly; a part has two units.             *)
(***************************************************************************)
EXTENDS RemoteFiles

MCStart ==
    [p \in Paths |-> CASE p = <<"home", "n">> -> <<"h1", "h2", "h3">>
                       [] p = <<"sub", "n">>  -> <<"s1", "s2">>
                       [] OTHER               -> None]

MCUnits ==
    {"h1", "h2", "h3", "s1", "s2", "u1", "u2", "u3", "x1", "x2", "x3", "x4", "0"}

MCLocals  == {<<"u1", "u2", "u3">>}
MCTouched == {"home"} \X Names
MCForeign == {<<"x1", "x2", "x3", "x4">>}
=============================================================================
