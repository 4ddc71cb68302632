-------------------------- MODULE PublishedResult --------------------------
(***************************************************************************)
(* What Converter.convert promises to whoever reads its output directory:  *)
(* the result appears whole, in one step, with every file it lists there   *)
(* and as listed; from then on neither the list nor a listed file changes, *)
(* whatever ends the conversion; and the caller is told of a success if    *)
(* and only if there is a result.                                          *)
(***************************************************************************)
CONSTANTS Files, Contents

VARIABLES
    published,   \* a reader finds the result
    listed,      \* the files it names, each with the content it gives
    shown,       \* the same files, each with the content on disk
    answer       \* what the caller was told

resultVars == <<published, listed, shown>>
vars == <<resultVars, answer>>

Init ==
    /\ published = FALSE
    /\ listed = {} /\ shown = {}
    /\ answer = "none"

Pending == answer = "none"

Publish ==
    /\ Pending /\ ~published
    /\ published' = TRUE
    /\ listed' \in SUBSET (Files \X Contents)
    /\ shown' = listed'
    /\ UNCHANGED answer

Answer(told) ==
    /\ Pending
    /\ answer' = told
    /\ UNCHANGED resultVars

Succeed == published /\ Answer("success")

Fail == ~published /\ Answer("failure")

\* The process may die with its result published or not, and says nothing.
Die == Answer("killed")

Next == Publish \/ Succeed \/ Fail \/ Die

Spec == Init /\ [][Next]_vars

\* A published result is final.
ResultIsFinal == [][published => UNCHANGED resultVars]_vars

\* It is complete whenever it is read, and the answer speaks the truth about it.
ResultIsComplete ==
    /\ listed = shown
    /\ answer = "success" => published
    /\ answer = "failure" => ~published
=============================================================================
