------------------------------ MODULE MCShell -------------------------------
(* Commands "a" and "aa"; words of up to two bytes, quoted or not.          *)
EXTENDS Shell

EarlyMC == {<<"a">>}
LateMC == <<"a", "a">>
WordsMC ==
    [quoted : {FALSE}, text : {<<"a">>, <<"a", "a">>}]
        \cup [quoted : {TRUE}, text : {<<>>, <<"a">>, <<"a", " ">>, <<" ">>, <<" ", "a">>}]
=============================================================================
