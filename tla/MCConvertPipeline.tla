-------------------------- MODULE MCConvertPipeline --------------------------
(* Instances of ConvertPipeline for TLC.                                     *)
EXTENDS ConvertPipeline

\* Nothing; the whole result of two pages; what skipping a blank page 1 leaves.
EarlierResults ==
    {{}, File, {<<"page", 2>>, <<"trimmed", 2>>, <<"document", 0>>}}
=============================================================================
