---------------------------- MODULE MCRasterizer ----------------------------
(* Instances of Rasterizer for TLC.                                        *)
EXTENDS Rasterizer

\* With Dpi = 6, MinDpi = 2, BudgetPx = 4: an ordinary page, one that is clamped to 4 dpi,
\* and the largest there is, which the floor leaves at 6, over the budget.
Ordinary == 1
Clamped == 9
Giant == 54

\* Every mix of ordinary and giant pages up to seven, so that runs of four and more are
\* sharded with and without a rest, and some with all three.
AllDocs ==
    (UNION {[1 .. n -> {Ordinary, Giant}] : n \in 1 .. 5})
    \cup {<<Ordinary, Clamped, Clamped, Giant>>, <<Clamped, Ordinary, Giant, Ordinary>>,
          <<Clamped, Clamped, Clamped, Clamped, Clamped, Giant>>}
    \cup {[p \in 1 .. n |-> Ordinary] : n \in 6 .. 7}
    \cup {[p \in 1 .. 7 |-> IF p = 7 THEN Giant ELSE Ordinary]}

\* The larger second page of an earlier document, which a document of one page lacks.
SecondPage == {File(2, "final", "earlier", 3, Dpi)}
=============================================================================
