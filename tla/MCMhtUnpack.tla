---------------------------- MODULE MCMhtUnpack ----------------------------
(* Two directories, names that differ by the directory only, one that is   *)
(* not safe, one of the page itself, an address that is a directory.       *)
EXTENDS MhtUnpack
MCLocations ==
    {<<>>, <<"u/">>, <<"u/", "a">>, <<"v/", "a">>, <<"b">>, <<"document.html">>}
MCSize == [p \in {"x", "y"} |-> IF p = "x" THEN 1 ELSE 2]
MCContentIds == {<<>>, <<"c1">>}
MCNumbers == <<"_1", "_2", "_3", "_4">>
=============================================================================
