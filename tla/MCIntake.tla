------------------------------ MODULE MCIntake ------------------------------
(* Archives of up to two resources under two directories, with names that  *)
(* differ by the directory only, one that is the page's, and an address    *)
(* that is a directory; pages three elements deep that nest in any way.     *)
EXTENDS Intake
MCLocations ==
    {<<>>, <<"u/">>, <<"u/", "a">>, <<"v/", "a">>, <<"b">>, <<"document.html">>}
MCSize == [p \in {"x", "y"} |-> IF p = "x" THEN 1 ELSE 2]
MCContentIds == {<<>>, <<"c1">>}
MCNumbers == <<"_1", "_2", "_3", "_4">>
MCMayHold == [t \in Tags \cup {PageTop} |-> Tags]
MCStyles ==
    {[color |-> c, weight |-> "none"] : c \in {"none", "red", "blue"}}
        \cup {[color |-> "none", weight |-> w] : w \in {"bold", "normal"}}
=============================================================================
