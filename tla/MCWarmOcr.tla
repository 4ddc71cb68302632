----------------------------- MODULE MCWarmOcr -----------------------------
(***************************************************************************)
(* Instances of WarmOcr for TLC.                                           *)
(***************************************************************************)
EXTENDS WarmOcr, TLC

CONSTANTS j1, j2

\* Two jobs of one page each: they share the helper, and have a budget each.
TwoJobs == {j1, j2}
OnePageEach == j1 :> 1 @@ j2 :> 1

=============================================================================
