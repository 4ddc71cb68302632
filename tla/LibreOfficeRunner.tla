------------------------- MODULE LibreOfficeRunner -------------------------
(***************************************************************************)
(* LibreOfficeRunner.convert_to_pdf, called by Converter.convert for every *)
(* job of one engine: the input is staged (and unpacked, patched or        *)
(* converted to xlsx), a warm server is tried, and then soffice is run in  *)
(* a sandbox down a chain of export filters, each under up to two file     *)
(* names, within one wall-clock budget.  The jobs share the runner, so     *)
(* they share its attributes last_run_sheets and last_altchunks, which the *)
(* converter reads only after the call.                                    *)
(*                                                                         *)
(* A file is named by its extension, an extension stands for its family    *)
(* (_FAMILY).  soffice, the warm server and the archive readers are        *)
(* external: each may succeed, fail or take until its timeout.             *)
(***************************************************************************)
EXTENDS Integers, Sequences

CONSTANTS
    Jobs,         \* jobs that share one engine, hence one runner
    Inputs,       \* the documents they may bring
    Timeout,      \* limits.timeout_s: of one sandbox run, and of the fallback loop
    WarmTimeout,  \* the default timeout_s of a warm server's convert()
    Warm,         \* the warm server, as the writer of a PDF
    None

\* One label per path through convert_to_pdf: "xlsx" for xlsx and xlsm, "xls" for xls,
\* ods, fods, csv and xlsb, "pptx" for every Impress and Draw format, "docx" for the
\* four Word OOXML formats, "odt" for what else Writer opens.
Label == {"xlsx", "xls", "pptx", "docx", "mht", "odt"}
Name == Label \cup {"html"}

\* `zip`: the bytes are a zip archive; `alt`: the altChunk parts a docx refers to.
Document == [label : Label, ext : Label, zip : BOOLEAN,
             alt : {"none", "html", "mht", "unsupported", "several"}]

ASSUME RunnerAssumption ==
    /\ Inputs \subseteq Document
    /\ Timeout \in Nat \ {0} /\ WarmTimeout \in Nat
    /\ None \notin Jobs /\ None # Warm

VARIABLES
    doc,       \* the document of each job
    pc,        \* where each job is
    stage,     \* its staging directory: what each name holds
    staged,    \* staged_input
    keep,      \* preserve_rewritten_input
    attempt,   \* which filter of the chain
    trying,    \* the name soffice is given
    run,       \* seconds until the run in progress is killed
    left,      \* seconds until _fallback_deadline; negative past it
    out,       \* who wrote the PDF in the output directory
    winner,    \* the attempt whose success ended the conversion
    late,      \* a warm convert whose client gave up: still running in the server?
    sheets,    \* the runner's last_run_sheets: whose workbook they were read from
    alts,      \* the runner's last_altchunks: whose document they were found in
    seen,      \* what the converter read of the two attributes
    failure    \* why the conversion raised

docVars == <<doc, stage, staged, keep>>
vars == <<docVars, pc, attempt, trying, run, left, out, winner, late, sheets, alts, seen,
          failure>>

Try == [filter : 1 .. 3, name : Name]
Writer == Try \cup {Warm, None}
Owner == Jobs \cup {None}

Running == {"converting", "warm", "soffice"}
Looping == {"loop", "retry", "soffice"}
Exported == {"returned", "rendering", "done"}
Terminal == {"done", "failed"}

\* filters_to_try.
Filters(d) ==
    IF d.label \in {"xlsx", "xls"} THEN <<"single_page_sheets", "calc", "writer">>
    ELSE IF d.label = "pptx" THEN <<"impress", "writer">>
    ELSE <<"writer">>

RewriteActive(d) == d.label # d.ext
LastFilter(j) == Len(Filters(doc[j]))

TypeOK ==
    /\ doc \in [Jobs -> Inputs]
    /\ pc \in [Jobs -> {"new", "unpack", "altchunk", "patch", "probe"} \cup Running
                        \cup Looping \cup Exported \cup Terminal]
    /\ stage \in [Jobs -> [Name -> {"none", "raw", "patched", "html", "converted"}]]
    /\ staged \in [Jobs -> Name] /\ trying \in [Jobs -> Name]
    /\ keep \in [Jobs -> BOOLEAN]
    /\ attempt \in [Jobs -> 1 .. 4]
    /\ run \in [Jobs -> Nat] /\ left \in [Jobs -> -Timeout .. Timeout]
    /\ out \in [Jobs -> Writer] /\ winner \in [Jobs -> Writer]
    /\ late \in [Jobs -> {"never", "writing", "over"}]
    /\ sheets \in Owner /\ alts \in Owner
    /\ seen \in [Jobs -> [sheets : Owner, alts : Owner]]
    /\ failure \in [Jobs -> {"none", "no_input", "altchunk", "sandbox", "all_failed"}]

Init ==
    /\ doc \in [Jobs -> Inputs]
    /\ pc = [j \in Jobs |-> "new"]
    /\ stage = [j \in Jobs |-> [n \in Name |-> "none"]]
    /\ staged = [j \in Jobs |-> doc[j].ext] /\ trying = [j \in Jobs |-> doc[j].ext]
    /\ keep = [j \in Jobs |-> FALSE]
    /\ attempt = [j \in Jobs |-> 1]
    /\ run = [j \in Jobs |-> 0] /\ left = [j \in Jobs |-> Timeout]
    /\ out = [j \in Jobs |-> None] /\ winner = [j \in Jobs |-> None]
    /\ late = [j \in Jobs |-> "never"]
    /\ sheets = None /\ alts = None
    /\ seen = [j \in Jobs |-> [sheets |-> None, alts |-> None]]
    /\ failure = [j \in Jobs |-> "none"]

Goto(j, to) == pc' = [pc EXCEPT ![j] = to]

Fail(j, why) ==
    /\ Goto(j, "failed")
    /\ failure' = [failure EXCEPT ![j] = why]
    /\ run' = [run EXCEPT ![j] = 0]

-----------------------------------------------------------------------------
(* Staging.                                                                *)

loopVars == <<attempt, trying, left, out, winner, late, seen>>

\* A missing input raises before anything is reset.
InputMissing(j) ==
    /\ pc[j] = "new"
    /\ Fail(j, "no_input")
    /\ UNCHANGED <<docVars, loopVars, sheets, alts>>

\* The shared attributes are reset; the input is copied under its label's extension
\* and, when that differs from its own, under its own too.
Begin(j) ==
    /\ pc[j] = "new"
    /\ sheets' = None /\ alts' = None
    /\ stage' = [stage EXCEPT ![j] = [n \in Name |->
                    IF n \in {doc[j].label, doc[j].ext} THEN "raw" ELSE "none"]]
    /\ staged' = [staged EXCEPT ![j] = doc[j].label]
    /\ Goto(j, IF doc[j].label = "mht" THEN "unpack"
               ELSE IF doc[j].label = "docx" THEN "altchunk" ELSE "patch")
    /\ UNCHANGED <<doc, keep, run, loopVars, failure>>

UseHtml(j) ==
    /\ stage' = [stage EXCEPT ![j]["html"] = "html"]
    /\ staged' = [staged EXCEPT ![j] = "html"]
    /\ keep' = [keep EXCEPT ![j] = TRUE]
    /\ Goto(j, "patch")

\* An archive that cannot be unpacked is left to soffice as it is.
UnpackMht(j) ==
    /\ pc[j] = "unpack"
    /\ \/ UseHtml(j)
       \/ Goto(j, "patch") /\ UNCHANGED <<stage, staged, keep>>
    /\ UNCHANGED <<doc, run, loopVars, sheets, alts, failure>>

\* inspect_altchunks is a best effort: when it finds nothing or raises, the docx is
\* rendered as it is.
AltchunksUnseen(j) ==
    /\ pc[j] = "altchunk"
    /\ alts' \in {alts, j}
    /\ Goto(j, "patch")
    /\ UNCHANGED <<docVars, run, loopVars, sheets, failure>>

\* One renderable altChunk takes the place of the docx; any other one, two renderable
\* ones, or an MHT that cannot be unpacked, raise.
AltchunksSeen(j) ==
    /\ pc[j] = "altchunk"
    /\ doc[j].alt # "none"
    /\ alts' = j
    /\ \/ /\ doc[j].alt \in {"html", "mht"}
          /\ UseHtml(j)
          /\ UNCHANGED <<run, failure>>
       \/ /\ doc[j].alt \in {"mht", "unsupported", "several"}
          /\ Fail(j, "altchunk")
          /\ UNCHANGED <<stage, staged, keep>>
    /\ UNCHANGED <<doc, loopVars, sheets>>

StartTwoPass(j) ==
    /\ Goto(j, "converting")
    /\ run' = [run EXCEPT ![j] = Timeout]

\* patch_ooxml_for_print: rewrites a zip in place, or raises on a broken one; what is
\* not a zip is skipped without a word.  Legacy workbooks always take two passes.
PrepareSheets(j) ==
    /\ pc[j] = "patch"
    /\ \/ /\ doc[j].label = "xlsx" /\ doc[j].zip
          /\ stage' = [stage EXCEPT ![j][staged[j]] = "patched"]
          /\ Goto(j, "probe") /\ UNCHANGED run
       \/ /\ \/ doc[j].label = "xls"
             \/ doc[j].label = "xlsx" /\ doc[j].zip
          /\ StartTwoPass(j) /\ UNCHANGED stage
       \/ /\ \/ doc[j].label \notin {"xlsx", "xls"}
             \/ doc[j].label = "xlsx" /\ ~doc[j].zip
          /\ Goto(j, "probe") /\ UNCHANGED <<stage, run>>
    /\ UNCHANGED <<doc, staged, keep, loopVars, sheets, alts, failure>>

\* soffice --convert-to xlsx, then the patch: the result replaces the staged input,
\* and a file of its name in the staging directory.  Any failure keeps the input.
EndTwoPass(j) ==
    /\ pc[j] = "converting"
    /\ \/ /\ stage' = [stage EXCEPT ![j]["xlsx"] = "converted"]
          /\ staged' = [staged EXCEPT ![j] = "xlsx"]
       \/ UNCHANGED <<stage, staged>>
    /\ run' = [run EXCEPT ![j] = 0]
    /\ Goto(j, "probe")
    /\ UNCHANGED <<doc, keep, loopVars, sheets, alts, failure>>

-----------------------------------------------------------------------------
(* The warm server.                                                        *)

\* The file named .xlsx is an OOXML workbook.
IsWorkbook(j) == stage[j]["xlsx"] = "converted" \/ (doc[j].label = "xlsx" /\ doc[j].zip)

\* read_sheet_list of staged_input, when its suffix says workbook; [] when unreadable.
CaptureSheets(j) ==
    IF staged[j] = "xlsx"
    THEN \/ sheets' = None
         \/ IsWorkbook(j) /\ sheets' = j
    ELSE UNCHANGED sheets

Return(j, who) ==
    /\ Goto(j, "returned")
    /\ winner' = [winner EXCEPT ![j] = who]
    /\ run' = [run EXCEPT ![j] = 0]
    /\ CaptureSheets(j)

\* is_ready() says yes: convert() drops a stale output and starts its client.
WarmBegin(j) ==
    /\ pc[j] = "probe"
    /\ out' = [out EXCEPT ![j] = None]
    /\ run' = [run EXCEPT ![j] = WarmTimeout]
    /\ Goto(j, "warm")
    /\ UNCHANGED <<docVars, attempt, trying, left, winner, late, sheets, alts, seen, failure>>

GoCold(j) ==
    /\ left' = [left EXCEPT ![j] = Timeout]
    /\ run' = [run EXCEPT ![j] = 0]
    /\ Goto(j, "loop")

\* There is no warm server, or it is not ready.
WarmAbsent(j) ==
    /\ pc[j] = "probe"
    /\ GoCold(j)
    /\ UNCHANGED <<docVars, attempt, trying, out, winner, late, sheets, alts, seen, failure>>

WarmSucceeds(j) ==
    /\ pc[j] = "warm"
    /\ out' = [out EXCEPT ![j] = Warm]
    /\ Return(j, Warm)
    /\ UNCHANGED <<docVars, attempt, trying, left, late, alts, seen, failure>>

\* LibreOfficeError: the cold loop takes over, whatever the client left behind.
WarmFails(j) ==
    /\ pc[j] = "warm"
    /\ out' \in {out, [out EXCEPT ![j] = Warm]}
    /\ GoCold(j)
    /\ UNCHANGED <<docVars, attempt, trying, winner, late, sheets, alts, seen, failure>>

\* At its timeout the client is killed; the server it asked is not.
WarmTimesOut(j) ==
    /\ pc[j] = "warm" /\ run[j] = 0
    /\ late' = [late EXCEPT ![j] = "writing"]
    /\ GoCold(j)
    /\ UNCHANGED <<docVars, attempt, trying, out, winner, sheets, alts, seen, failure>>

\* The server finishes the export nobody waits for, into the same file, or gives up.
LateWarmEnds(j) ==
    /\ late[j] = "writing"
    /\ late' = [late EXCEPT ![j] = "over"]
    /\ \/ /\ pc[j] \notin Terminal
          /\ out' = [out EXCEPT ![j] = Warm]
       \/ UNCHANGED out
    /\ UNCHANGED <<docVars, pc, attempt, trying, run, left, winner, sheets, alts, seen, failure>>

-----------------------------------------------------------------------------
(* The cold loop: filters, and names under each filter.                    *)

\* staged_input at the head of an attempt: past the first filter a rewritten input is
\* given up for the original, unless it must be preserved.
StagedFor(j) == IF attempt[j] > 1 /\ ~keep[j] THEN doc[j].ext ELSE staged[j]

StartRun(j, name) ==
    /\ trying' = [trying EXCEPT ![j] = name]
    /\ run' = [run EXCEPT ![j] = Timeout]
    /\ Goto(j, "soffice")

StartFilterNoDeadline(j) ==
    /\ pc[j] = "loop"
    /\ attempt[j] <= LastFilter(j)
    /\ out' = [out EXCEPT ![j] = None]
    /\ staged' = [staged EXCEPT ![j] = StagedFor(j)]
    /\ StartRun(j, StagedFor(j))
    /\ UNCHANGED <<doc, stage, keep, attempt, left, winner, late, sheets, alts, seen, failure>>

StartFilterUncleaned(j) ==
    /\ pc[j] = "loop"
    /\ attempt[j] <= LastFilter(j)
    /\ attempt[j] > 1 => left[j] > 0
    /\ staged' = [staged EXCEPT ![j] = StagedFor(j)]
    /\ StartRun(j, StagedFor(j))
    /\ UNCHANGED <<doc, stage, keep, attempt, left, out, winner, late, sheets, alts, seen,
                   failure>>

\* The first filter always runs, a later one only before the deadline.  The output
\* directory is emptied first.
StartFilter(j) ==
    /\ pc[j] = "loop"
    /\ attempt[j] <= LastFilter(j)
    /\ attempt[j] > 1 => left[j] > 0
    /\ out' = [out EXCEPT ![j] = None]
    /\ staged' = [staged EXCEPT ![j] = StagedFor(j)]
    /\ StartRun(j, StagedFor(j))
    /\ UNCHANGED <<doc, stage, keep, attempt, left, winner, late, sheets, alts, seen, failure>>

\* All filters failed, or the budget is spent.
GiveUp(j) ==
    /\ pc[j] = "loop"
    /\ \/ attempt[j] > LastFilter(j)
       \/ attempt[j] > 1 /\ left[j] <= 0
    /\ Fail(j, "all_failed")
    /\ UNCHANGED <<docVars, loopVars, sheets, alts>>

NextFilterForgotten(j) ==
    /\ Goto(j, "loop")
    /\ run' = [run EXCEPT ![j] = 0]
    /\ UNCHANGED attempt

NextFilter(j) ==
    /\ attempt' = [attempt EXCEPT ![j] = @ + 1]
    /\ run' = [run EXCEPT ![j] = 0]
    /\ Goto(j, "loop")

HasOriginalNameUnpreserved(j) == RewriteActive(doc[j]) /\ staged[j] # doc[j].ext

\* name_attempts has the original name as its second entry.
HasOriginalName(j) ==
    RewriteActive(doc[j]) /\ staged[j] # doc[j].ext /\ ~keep[j]

\* Killed at its timeout, perhaps with a PDF half written.
Killed(j) ==
    /\ pc[j] = "soffice" /\ run[j] = 0
    /\ out' \in {out, [out EXCEPT ![j] = [filter |-> attempt[j], name |-> trying[j]]]}
    /\ NextFilter(j)
    /\ UNCHANGED <<docVars, trying, left, winner, late, sheets, alts, seen, failure>>

\* A non-zero exit, for another reason than an input that could not be loaded.
ExitsBadly(j) ==
    /\ pc[j] = "soffice"
    /\ out' \in {out, [out EXCEPT ![j] = [filter |-> attempt[j], name |-> trying[j]]]}
    /\ NextFilter(j)
    /\ UNCHANGED <<docVars, trying, left, winner, late, sheets, alts, seen, failure>>

\* "source file could not be loaded": nothing was written.  Under the first name the
\* original name comes next, when there is one.
NotLoaded(j) ==
    /\ pc[j] = "soffice"
    /\ IF trying[j] = staged[j] /\ HasOriginalName(j)
       THEN Goto(j, "retry") /\ run' = [run EXCEPT ![j] = 0] /\ UNCHANGED attempt
       ELSE NextFilter(j)
    /\ UNCHANGED <<docVars, trying, left, out, winner, late, sheets, alts, seen, failure>>

RetryOriginalName(j) ==
    /\ pc[j] = "retry"
    /\ left[j] > 0
    /\ StartRun(j, doc[j].ext)
    /\ UNCHANGED <<docVars, attempt, left, out, winner, late, sheets, alts, seen, failure>>

SkipOriginalName(j) ==
    /\ pc[j] = "retry"
    /\ left[j] <= 0
    /\ NextFilter(j)
    /\ UNCHANGED <<docVars, trying, left, out, winner, late, sheets, alts, seen, failure>>

\* Exit 0: the PDF that is in the output directory is returned, whoever wrote it.
ExitsWell(j) ==
    /\ pc[j] = "soffice"
    /\ LET this == [filter |-> attempt[j], name |-> trying[j]]
       IN  \/ /\ out' = [out EXCEPT ![j] = this]
              /\ Return(j, this)
              /\ UNCHANGED attempt
           \/ /\ out[j] # None
              /\ Return(j, this)
              /\ UNCHANGED <<out, attempt>>
           \/ /\ out[j] = None
              /\ NextFilter(j)
              /\ UNCHANGED <<out, winner, sheets>>
    /\ UNCHANGED <<docVars, trying, left, late, alts, seen, failure>>

\* sandbox.run raises: the sandbox binary is gone.  Only the two-pass step swallows it.
SandboxRaises(j) ==
    /\ pc[j] = "soffice"
    /\ Fail(j, "sandbox")
    /\ UNCHANGED <<docVars, loopVars, sheets, alts>>

-----------------------------------------------------------------------------
(* What Converter.convert does with the result.                            *)

\* The page count, and for a workbook the sheet inventory, off the shared runner.
ReadSheets(j) ==
    /\ pc[j] = "returned"
    /\ seen' = [seen EXCEPT ![j].sheets =
                   IF doc[j].label \in {"xlsx", "xls"} THEN sheets ELSE None]
    /\ Goto(j, "rendering")
    /\ UNCHANGED <<docVars, attempt, trying, run, left, out, winner, late, sheets, alts, failure>>

\* The pages are rendered and scanned, then last_altchunks is read for the metadata.
ReadAltchunks(j) ==
    /\ pc[j] = "rendering"
    /\ seen' = [seen EXCEPT ![j].alts = alts]
    /\ Goto(j, "done")
    /\ UNCHANGED <<docVars, attempt, trying, run, left, out, winner, late, sheets, alts, failure>>

-----------------------------------------------------------------------------
\* The deadline's overrun is counted down to -Timeout.
DeadlineLess(t) == IF t > -Timeout THEN t - 1 ELSE t

\* A second passes.  A run is killed on time.
Tick ==
    /\ \E j \in Jobs : pc[j] \in Running
    /\ \A j \in Jobs : pc[j] \in Running => run[j] > 0
    /\ run' = [j \in Jobs |-> IF pc[j] \in Running THEN run[j] - 1 ELSE run[j]]
    /\ left' = [j \in Jobs |-> IF pc[j] \in Looping THEN DeadlineLess(left[j]) ELSE left[j]]
    /\ UNCHANGED <<docVars, pc, attempt, trying, out, winner, late, sheets, alts, seen, failure>>

JobStep(j) ==
    \/ InputMissing(j) \/ Begin(j) \/ UnpackMht(j) \/ AltchunksUnseen(j)
    \/ AltchunksSeen(j) \/ PrepareSheets(j) \/ EndTwoPass(j)
    \/ WarmBegin(j) \/ WarmAbsent(j) \/ WarmSucceeds(j) \/ WarmFails(j) \/ WarmTimesOut(j)
    \/ StartFilter(j) \/ GiveUp(j) \/ Killed(j) \/ ExitsBadly(j) \/ NotLoaded(j)
    \/ RetryOriginalName(j) \/ SkipOriginalName(j) \/ ExitsWell(j) \/ SandboxRaises(j)
    \/ ReadSheets(j) \/ ReadAltchunks(j)

Next ==
    \/ \E j \in Jobs : JobStep(j) \/ LateWarmEnds(j)
    \/ Tick
    \/ (\A j \in Jobs : pc[j] \in Terminal) /\ UNCHANGED vars

\* The runner's own step, or the end of a run that has reached its timeout.
Prompt(j) == (pc[j] \in Running => run[j] = 0) /\ JobStep(j)

\* Threads are scheduled and the clock runs.  Nothing is assumed of soffice or of the
\* warm server: only the timeouts end a run for certain.
Fairness == WF_vars(Tick) /\ \A j \in Jobs : WF_vars(Prompt(j))

Spec == Init /\ [][Next]_vars
FairSpec == Spec /\ Fairness

-----------------------------------------------------------------------------
(* Safety.                                                                 *)

\* The PDF the converter reads is the one of the attempt that succeeded, never what a
\* killed or failed attempt left behind (the emptied output directory) - as long as no
\* warm export was abandoned.
PdfOfWinner ==
    \A j \in Jobs : pc[j] \in Exported /\ late[j] = "never" => out[j] = winner[j]

\* Once an MHT or an altChunk has been unpacked to HTML, no engine is ever given the
\* wrapper again, under any filter or name (preserve_rewritten_input).
UnpackedNeverRaw ==
    \A j \in Jobs :
        stage[j]["html"] = "html" =>
            /\ pc[j] = "soffice" => trying[j] = "html"
            /\ pc[j] = "warm" => staged[j] = "html"

\* A run under another filter than the first, or under a second name.
IsRetry(j) == attempt[j] > 1 \/ trying[j] # staged[j]

\* _fallback_deadline: no chain of filters and names can cost a timeout each, as every
\* retry is killed within a timeout of the deadline; and "always try to produce SOMETHING":
\* the loop gives up only after its last filter or once its budget is spent.
FallbackInTime ==
    \A j \in Jobs :
        /\ pc[j] = "soffice" /\ IsRetry(j) => run[j] <= left[j] + Timeout
        /\ failure[j] = "all_failed" => attempt[j] > LastFilter(j) \/ left[j] <= 0

(* Liveness. *)

\* Every conversion returns or raises, even when soffice hangs in every attempt and the
\* warm server never answers.
EveryConversionEnds == \A j \in Jobs : <>(pc[j] \in Terminal)

(* What comments say, and the code does not do.                            *)

\* converter.py, Converter: "convert() is reentrant ... Concurrent conversions are
\* independent".  The sheet names of a job's metadata are those of its own document.
SheetsAreOwn == \A j \in Jobs : seen[j].sheets \in {j, None}

=============================================================================
