------------------------ MODULE MCLibreOfficeRunner ------------------------
(***************************************************************************)
(* Instances of LibreOfficeRunner for TLC.                                 *)
(***************************************************************************)
EXTENDS LibreOfficeRunner

CONSTANTS j1, j2

OneJob == {j1}
TwoJobs == {j1, j2}

\* Every document, where `zip` is told apart for "xlsx" and `alt` for "docx" alone.
AllInputs == {d \in Document : /\ ~d.zip => d.label = "xlsx"
                               /\ d.alt # "none" => d.label = "docx"}

Plain(label, ext) == [label |-> label, ext |-> ext, zip |-> TRUE, alt |-> "none"]

\* A workbook under its own name and a legacy workbook under another one.
Workbooks == {Plain("xlsx", "xlsx"), Plain("xls", "odt")}
=============================================================================
