--------------------------- MODULE MCLegacyAttrs ---------------------------
(* Tables of cells, with at most one paragraph open in each, whose end tag *)
(* the page may leave out (the rows are left out).                         *)
EXTENDS LegacyAttrs
MCMayHold ==
    [t \in Tags \cup {PageTop} |->
        IF t = PageTop THEN {"table"} ELSE IF t = "table" THEN {"td"}
        ELSE IF t = "td" THEN {"p"} ELSE {}]
MCStyles == {[color |-> c, weight |-> "none"] : c \in {"none", "red", "blue"}}
=============================================================================
