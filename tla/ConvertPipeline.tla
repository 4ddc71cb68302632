--------------------------- MODULE ConvertPipeline ---------------------------
(***************************************************************************)
(* Converter.convert from the call to what its caller reports: the stages  *)
(* of one conversion, the pool of page threads, the error paths of each    *)
(* stage, the files of the output directory, the private directory of the  *)
(* intermediate PDF, and the metrics.                                      *)
(*                                                                         *)
(* A file's content is the conversion that wrote it, and so is its         *)
(* SHA-256 in the metadata: this one, or an earlier one that left it.  The *)
(* CLI's output directory may be reused (its default is "out"); the        *)
(* engine's host gives each job a new one.  The worker may be killed at    *)
(* any step.                                                               *)
(***************************************************************************)
EXTENDS Integers, Sequences, FiniteSets

CONSTANTS
    MaxTotal,    \* bound on the pages of a PDF
    PageLimit,   \* limits.max_pages
    MaxWorkers,  \* bound on _page_scan_workers
    Leftovers    \* the sets of files that an earlier conversion may have left

VARIABLES
    caller,      \* "cli" or "detonate"
    skipBlanks,  \* limits.skip_blanks
    pc,
    raised,      \* the exception on its way to the caller
    gauge,       \* JOBS_IN_FLIGHT
    counted,     \* the outcomes recorded in the metrics
    scratch,     \* pdf_dir exists
    hasPdf,      \* pdf_path is set
    total,       \* total_pages
    workers,     \* max_workers
    page,        \* the stage of each page
    rec,         \* the record of each page
    out,         \* the files of the output directory
    meta,        \* metadata.json
    declared,    \* the artifacts detonate declared
    verdict      \* the CLI's exit code, or detonate's answer

callVars == <<caller, skipBlanks>>
metricVars == <<gauge, counted>>
pdfVars == <<scratch, hasPdf, total>>
poolVars == <<workers, page, rec>>
endVars == <<declared, verdict>>
vars == <<callVars, pc, raised, metricVars, pdfVars, poolVars, out, meta, endVars>>

-----------------------------------------------------------------------------
Index == 1 .. PageLimit
Derivative == {"trimmed", "focused"}

Absent == "absent"   \* no such file, or a key the record lacks
Own == "own"
Earlier == "earlier"
Torn == "torn"       \* its writing broke off

File == ({"page"} \cup Derivative) \X Index \cup {<<"document", 0>>}
Document == <<"document", 0>>

\* The pages to render, and those that a thread has in work.
Pages == 1 .. (IF total < PageLimit THEN total ELSE PageLimit)
Active == {i \in Pages : page[i] \in {"hash", "trim", "focus", "scan"}}
FailedPages == {i \in Pages : page[i] = "failed"}

Blank == {i \in Pages : rec[i].blank}

Content == {Absent, Own, Earlier, Torn}
Record == [blank : BOOLEAN, page : Content, trimmed : Content, focused : Content]
EmptyRecord == [blank |-> FALSE, page |-> Absent, trimmed |-> Absent, focused |-> Absent]

Metadata == [of : {Absent, Earlier, Own}, whole : BOOLEAN, pages : SUBSET Index,
             rec : [Index -> Record]]
MetadataOf(c, complete, pages, records) ==
    [of |-> c, whole |-> complete, pages |-> pages, rec |-> records]

NoRecords == [i \in Index |-> EmptyRecord]
NoMetadata == MetadataOf(Absent, FALSE, {}, NoRecords)

ASSUME PipelineAssumption ==
    /\ {MaxTotal, PageLimit, MaxWorkers} \subseteq Nat \ {0}
    /\ \A left \in Leftovers : left \subseteq File

ClippyShotErrors == {"DetectionError", "ConversionError", "SandboxError", "LibreOfficeError"}
Exceptions == ClippyShotErrors \cup {"FileNotFoundError", "OtherError"}
None == "none"

Stages ==
    {"over", "build", "stat", "detect", "export", "read", "rasterize", "measure", "pages",
     "filter", "metadata", "writing", "copy", "remove", "count", "return"}

PageStages == {"queued", "hash", "trim", "focus", "scan", "done", "failed", "cancelled"}

Verdicts ==
    {None, "exit 0", "exit 2", "exit 3", "exit 4", "ok", "rejected", "raised", "killed"}

TypeOK ==
    /\ caller \in {"cli", "detonate"} /\ skipBlanks \in BOOLEAN
    /\ pc \in Stages /\ raised \in Exceptions \cup {None}
    /\ gauge \in Nat
    /\ counted \in Seq({"success", "failure", "rejected"})
    /\ scratch \in BOOLEAN /\ hasPdf \in BOOLEAN /\ total \in 0 .. MaxTotal
    /\ workers \in 1 .. MaxWorkers
    /\ page \in [Index -> PageStages] /\ rec \in [Index -> Record]
    /\ out \in [File -> Content] /\ meta \in Metadata
    /\ declared \subseteq File /\ verdict \in Verdicts

\* Called, with an output directory that holds nothing, or an earlier conversion's result.
Init ==
    /\ caller \in {"cli", "detonate"} /\ skipBlanks \in BOOLEAN
    /\ pc = (IF caller = "cli" THEN "build" ELSE "stat") /\ raised = None
    /\ gauge = 0 /\ counted = <<>>
    /\ scratch = FALSE /\ hasPdf = FALSE /\ total = 0
    /\ workers = 1
    /\ page = [i \in Index |-> "queued"] /\ rec = NoRecords
    /\ \E left \in (IF caller = "cli" THEN Leftovers ELSE {{}}) :
        /\ out = [f \in File |-> IF f \in left THEN Earlier ELSE Absent]
        /\ meta = IF left = {} THEN NoMetadata ELSE MetadataOf(Earlier, TRUE, {}, NoRecords)
    /\ declared = {} /\ verdict = None

Goto(from, to) == pc = from /\ pc' = to

\* An exception of one of these kinds leaves the stage `from`.
Throw(from, kinds, to) == Goto(from, to) /\ raised' \in kinds

Tally(outcome) == counted' = Append(counted, outcome)

-----------------------------------------------------------------------------
(* The call.                                                               *)

BuildConverter ==
    /\ Goto("build", "stat")
    /\ UNCHANGED <<callVars, raised, metricVars, pdfVars, poolVars, out, meta, endVars>>

SandboxUnavailable ==
    /\ Goto("build", "over")
    /\ verdict' = "exit 3"
    /\ UNCHANGED <<callVars, raised, metricVars, pdfVars, poolVars, out, meta, declared>>

\* The output directory is made and the input's size read before the job is in flight.
Stat ==
    /\ \/ Goto("stat", "detect") /\ gauge' = gauge + 1 /\ UNCHANGED raised
       \/ Throw("stat", {"FileNotFoundError", "OtherError"}, "return") /\ UNCHANGED gauge
    /\ UNCHANGED <<callVars, counted, pdfVars, poolVars, out, meta, endVars>>

\* The input is accepted, and the private directory of its PDF is made.
Detect ==
    /\ Goto("detect", "export")
    /\ scratch' = TRUE
    /\ UNCHANGED <<callVars, raised, metricVars, hasPdf, total, poolVars, out, meta, endVars>>

Reject ==
    /\ Throw("detect", {"DetectionError"}, "count")
    /\ Tally("rejected")
    /\ UNCHANGED <<callVars, gauge, pdfVars, poolVars, out, meta, endVars>>

\* The input cannot be read, or the directory cannot be made.
DetectRaises ==
    /\ Throw("detect", {"FileNotFoundError", "OtherError"}, "count")
    /\ UNCHANGED <<callVars, metricVars, pdfVars, poolVars, out, meta, endVars>>

-----------------------------------------------------------------------------
(* From here on every exit passes by "copy", the inner finally.            *)

StageErrorsBare == {"LibreOfficeError", "SandboxError", "OtherError"}

\* A LibreOfficeError or a RasterizeError is wrapped; the sandbox's own errors pass.
StageErrors == {"ConversionError", "SandboxError", "OtherError"}

Export ==
    /\ Goto("export", "read")
    /\ hasPdf' = TRUE
    /\ UNCHANGED <<callVars, raised, metricVars, scratch, total, poolVars, out, meta, endVars>>

ExportRaisesUncleaned ==
    /\ Throw("export", StageErrors, "count")
    /\ UNCHANGED <<callVars, metricVars, pdfVars, poolVars, out, meta, endVars>>

ExportRaises ==
    /\ Throw("export", StageErrors, "copy")
    /\ UNCHANGED <<callVars, metricVars, pdfVars, poolVars, out, meta, endVars>>

\* soffice exports at least one page.
ReadPdf ==
    /\ Goto("read", "rasterize")
    /\ total' \in 1 .. MaxTotal
    /\ UNCHANGED <<callVars, raised, metricVars, scratch, hasPdf, poolVars, out, meta, endVars>>

ReadPdfRaises ==
    /\ Throw("read", {"ConversionError"}, "copy")
    /\ UNCHANGED <<callVars, metricVars, pdfVars, poolVars, out, meta, endVars>>

PagesOnDisk(some) ==
    out' = [f \in File |-> IF f[1] = "page" /\ f[2] \in some THEN Own ELSE out[f]]

\* Of two files of one page the larger is kept: one that an earlier conversion left may
\* stay in the place of this one's.
Rasterize ==
    /\ Goto("rasterize", "measure")
    /\ \E some \in SUBSET Pages :
        /\ \A i \in Pages \ some : out[<<"page", i>>] # Absent
        /\ PagesOnDisk(some)
    /\ UNCHANGED <<callVars, raised, metricVars, pdfVars, poolVars, meta, endVars>>

RasterizeRaises ==
    /\ Throw("rasterize", StageErrors, "copy")
    /\ \E some \in SUBSET Pages : PagesOnDisk(some)
    /\ UNCHANGED <<callVars, metricVars, pdfVars, poolVars, meta, endVars>>

\* The pages' dimensions are within the limits; the largest sizes the pool.
Measure ==
    /\ Goto("measure", "pages")
    /\ workers' \in {w \in 1 .. MaxWorkers : w <= Cardinality(Pages)}
    /\ UNCHANGED <<callVars, raised, metricVars, pdfVars, page, rec, out, meta, endVars>>

TooLarge ==
    /\ Throw("measure", {"ConversionError"}, "copy")
    /\ UNCHANGED <<callVars, metricVars, pdfVars, poolVars, out, meta, endVars>>

-----------------------------------------------------------------------------
(* _process_page, in the threads of the pool, and the loop without one.    *)

Serial == workers = 1

PageFrame == UNCHANGED <<callVars, raised, metricVars, pdfVars, workers, meta, endVars>>

\* Pages are taken in order; the serial loop stops at the first that fails.
StartPage(i) ==
    /\ pc = "pages" /\ page[i] = "queued"
    /\ \A j \in Pages : page[j] = "queued" => i <= j
    /\ Cardinality(Active) < workers
    /\ Serial => FailedPages = {}
    /\ page' = [page EXCEPT ![i] = "hash"]
    /\ PageFrame /\ UNCHANGED <<pc, rec, out>>

\* A blank page gets no derivatives.
HashPage(i) ==
    /\ page[i] = "hash"
    /\ \E blank \in BOOLEAN :
        /\ rec' = [rec EXCEPT ![i] = [blank |-> blank, page |-> out[<<"page", i>>],
                                      trimmed |-> Absent, focused |-> Absent]]
        /\ page' = [page EXCEPT ![i] = IF blank THEN "scan" ELSE "trim"]
    /\ PageFrame /\ UNCHANGED <<pc, out>>

\* The crop is written and recorded, or there is nothing to crop.
Crop(i, kind) ==
    \/ /\ out' = [out EXCEPT ![<<kind, i>>] = Own]
       /\ rec' = [rec EXCEPT ![i][kind] = Own]
    \/ UNCHANGED <<out, rec>>

TrimPage(i) ==
    /\ page[i] = "trim" /\ page' = [page EXCEPT ![i] = "focus"]
    /\ Crop(i, "trimmed")
    /\ PageFrame /\ UNCHANGED pc

FocusPage(i) ==
    /\ page[i] = "focus" /\ page' = [page EXCEPT ![i] = "scan"]
    /\ Crop(i, "focused")
    /\ PageFrame /\ UNCHANGED pc

\* The scanners' errors end in the record.
ScanPage(i) ==
    /\ page[i] = "scan" /\ page' = [page EXCEPT ![i] = "done"]
    /\ PageFrame /\ UNCHANGED <<pc, rec, out>>

\* An image cannot be read, saved or hashed, and none of the pipeline's errors says so.
PageRaises(i) ==
    /\ page[i] \in {"hash", "trim", "focus"}
    /\ page' = [page EXCEPT ![i] = "failed"]
    /\ \/ UNCHANGED out
       \/ page[i] = "trim" /\ out' = [out EXCEPT ![<<"trimmed", i>>] = Torn]
       \/ page[i] = "focus" /\ out' = [out EXCEPT ![<<"focused", i>>] = Torn]
    /\ PageFrame /\ UNCHANGED <<pc, rec>>

\* ex.map yields in order: at the first page that failed, the pages still queued are cancelled.
CancelPages ==
    /\ pc = "pages" /\ ~Serial
    /\ \E i \in FailedPages : \A j \in Pages : j < i => page[j] = "done"
    /\ \E i \in Pages : page[i] = "queued"
    /\ page' = [i \in Index |-> IF i \in Pages /\ page[i] = "queued" THEN "cancelled" ELSE page[i]]
    /\ PageFrame /\ UNCHANGED <<pc, rec, out>>

PagesRaiseAtOnce ==
    /\ FailedPages # {}
    /\ Throw("pages", {"OtherError"}, "copy")
    /\ UNCHANGED <<callVars, metricVars, pdfVars, poolVars, out, meta, endVars>>

\* The error leaves the pool's `with` when the threads have ended.
PagesRaise ==
    /\ FailedPages # {} /\ Active = {}
    /\ Serial \/ \A i \in Pages : page[i] # "queued"
    /\ Throw("pages", {"OtherError"}, "copy")
    /\ UNCHANGED <<callVars, metricVars, pdfVars, poolVars, out, meta, endVars>>

PagesDone ==
    /\ Goto("pages", "filter")
    /\ \A i \in Pages : page[i] = "done"
    /\ UNCHANGED <<callVars, raised, metricVars, pdfVars, poolVars, out, meta, endVars>>

-----------------------------------------------------------------------------
(* The result.                                                             *)

Skipped == IF skipBlanks THEN Blank ELSE {}

\* The files that the records of these pages name.
FilesOf(pages) ==
    {<<"page", i>> : i \in pages}
    \cup {f \in Derivative \X pages : rec[f[2]][f[1]] # Absent}

Without(files) == out' = [f \in File |-> IF f \in files THEN Absent ELSE out[f]]

DeleteBlanks ==
    /\ Goto("filter", "metadata")
    /\ Without(FilesOf(Skipped))
    /\ UNCHANGED <<callVars, raised, metricVars, pdfVars, poolVars, meta, endVars>>

DeleteRaises ==
    /\ Throw("filter", {"OtherError"}, "copy") /\ Skipped # {}
    /\ \E some \in SUBSET FilesOf(Skipped) : Without(some)
    /\ UNCHANGED <<callVars, metricVars, pdfVars, poolVars, meta, endVars>>

ListedWithBlanks == Pages

\* page_records.
Listed == Pages \ Skipped

\* The input has been read once more for its hash; write_text empties the file first.
OpenMetadata ==
    /\ Goto("metadata", "writing")
    /\ meta' = MetadataOf(Own, FALSE, {}, NoRecords)
    /\ UNCHANGED <<callVars, raised, metricVars, pdfVars, poolVars, out, endVars>>

ReadInputRaises ==
    /\ Throw("metadata", {"FileNotFoundError", "OtherError"}, "copy")
    /\ UNCHANGED <<callVars, metricVars, pdfVars, poolVars, out, meta, endVars>>

WriteMetadata ==
    /\ Goto("writing", "copy")
    /\ meta' = MetadataOf(Own, TRUE, Listed, rec)
    /\ UNCHANGED <<callVars, raised, metricVars, pdfVars, poolVars, out, endVars>>

WriteRaises ==
    /\ Throw("writing", {"OtherError"}, "copy")
    /\ UNCHANGED <<callVars, metricVars, pdfVars, poolVars, out, meta, endVars>>

\* The inner finally, on every exit: a PDF that was produced is shipped.
CopyPdf ==
    /\ Goto("copy", "remove")
    /\ out' = IF hasPdf THEN [out EXCEPT ![Document] = Own] ELSE out
    /\ UNCHANGED <<callVars, raised, metricVars, pdfVars, poolVars, meta, endVars>>

CopyRaises ==
    /\ Throw("copy", {"OtherError"}, "remove") /\ hasPdf
    /\ out' = [out EXCEPT ![Document] = Torn]
    /\ UNCHANGED <<callVars, metricVars, pdfVars, poolVars, meta, endVars>>

\* pdf_copy_failed is logged, not raised.
CopyFails ==
    /\ Goto("copy", "remove") /\ hasPdf
    /\ out' = [out EXCEPT ![Document] = Torn]
    /\ UNCHANGED <<callVars, raised, metricVars, pdfVars, poolVars, meta, endVars>>

RemoveScratch ==
    /\ Goto("remove", "count")
    /\ scratch' = FALSE
    /\ UNCHANGED <<callVars, raised, metricVars, hasPdf, total, poolVars, out, meta, endVars>>

\* record_conversion for a success and for ClippyShot's own errors, not for others.
Count ==
    /\ Goto("count", "return")
    /\ gauge' = gauge - 1
    /\ \/ raised = None /\ Tally("success")
       \/ raised \in ClippyShotErrors \ {"DetectionError"} /\ Tally("failure")
       \/ raised \in (Exceptions \ ClippyShotErrors) \cup {"DetectionError"} /\ UNCHANGED counted
    /\ UNCHANGED <<callVars, raised, pdfVars, poolVars, out, meta, endVars>>

-----------------------------------------------------------------------------
(* The caller.                                                             *)

Exists(f) == out[f] # Absent

\* _convert_cmd.
ExitCode ==
    IF raised = None THEN "exit 0"
    ELSE IF raised \in {"DetectionError", "FileNotFoundError"} THEN "exit 2"
    ELSE IF raised \in {"SandboxError", "ConversionError"} THEN "exit 3"
    ELSE "exit 4"

\* detonate: only a rejection is an answer, other errors go to the host.
Status ==
    IF raised = None THEN "ok" ELSE IF raised = "DetectionError" THEN "rejected" ELSE "raised"

DeclaredOfAllPages ==
    {<<"page", i>> : i \in Pages}
    \cup {f \in Derivative \X Listed : rec[f[2]][f[1]] # Absent /\ Exists(f)}
    \cup {f \in {Document} : Exists(f)}

\* A page's own image is declared unseen, the rest if it is there.
Declared ==
    {<<"page", i>> : i \in Listed}
    \cup {f \in Derivative \X Listed : rec[f[2]][f[1]] # Absent /\ Exists(f)}
    \cup {f \in {Document} : Exists(f)}

Return ==
    /\ Goto("return", "over")
    /\ verdict' = IF caller = "cli" THEN ExitCode ELSE Status
    /\ declared' = IF caller = "detonate" /\ raised = None THEN Declared ELSE {}
    /\ UNCHANGED <<callVars, raised, metricVars, pdfVars, poolVars, out, meta>>

\* The worker dies with its threads and its counters in memory; its files stay.
Kill ==
    /\ pc # "over" /\ pc' = "over"
    /\ verdict' = "killed"
    /\ gauge' = 0
    /\ page' = [i \in Index |-> "queued"]
    /\ UNCHANGED <<callVars, raised, counted, pdfVars, workers, rec, out, meta, declared>>

PageStep(i) ==
    \/ StartPage(i) \/ HashPage(i) \/ TrimPage(i) \/ FocusPage(i) \/ ScanPage(i) \/ PageRaises(i)

Step ==
    \/ BuildConverter \/ SandboxUnavailable \/ Stat
    \/ Detect \/ Reject \/ DetectRaises
    \/ Export \/ ExportRaises \/ ReadPdf \/ ReadPdfRaises
    \/ Rasterize \/ RasterizeRaises \/ Measure \/ TooLarge
    \/ \E i \in Pages : PageStep(i)
    \/ CancelPages \/ PagesRaise \/ PagesDone
    \/ DeleteBlanks \/ DeleteRaises
    \/ OpenMetadata \/ ReadInputRaises \/ WriteMetadata \/ WriteRaises
    \/ CopyPdf \/ CopyFails \/ RemoveScratch \/ Count \/ Return

Next == Step \/ Kill

Spec == Init /\ [][Next]_vars

-----------------------------------------------------------------------------
(* Properties.                                                             *)

\* converter.py:878-900 and 1060: metadata.json is written last.  Once it is whole, whatever
\* interrupts the conversion afterwards, every page it lists and every derivative of one is
\* on disk with the content that was hashed, the page in its place; the blank pages that
\* were skipped are neither listed nor on disk.
MetadataIsTrue ==
    (meta.whole /\ meta.of = Own) =>
        /\ \A i \in meta.pages :
            /\ meta.rec[i].page # Absent /\ out[<<"page", i>>] = meta.rec[i].page
            /\ \A k \in Derivative :
                meta.rec[i][k] # Absent => out[<<k, i>>] = meta.rec[i][k]
        /\ \A i \in Pages \ meta.pages :
            skipBlanks /\ meta.rec[i].blank /\ ~Exists(<<"page", i>>)

\* converter.py:857-860: no page thread is at work once the pool was left; the blank pages'
\* files are deleted, and the directory is handed on, with nobody writing.  The pool never
\* runs more threads than its budget.
PoolIsQuiet ==
    /\ pc # "pages" => Active = {}
    /\ Cardinality(Active) <= workers

\* engine.py:721-788: what detonate declares is on disk, and none of it is another job's.
DeclaredIsOwn ==
    (pc = "over" /\ declared # {}) =>
        \A f \in declared : out[f] = Own \/ (f = Document /\ out[f] = Torn)

\* README.md:503-510, metrics.py: the exit code or the status agrees with the outcome that
\* the metrics counted, and no conversion is counted twice.
VerdictIsCounted ==
    /\ Len(counted) <= 1
    /\ verdict \in {"exit 0", "ok"} => counted = <<"success">>
    /\ verdict = "rejected" => counted = <<"rejected">>
    /\ verdict = "exit 2" => counted \in {<<"rejected">>, <<>>}
    /\ verdict \in {"exit 3", "raised"} => counted \in {<<"failure">>, <<>>}
    /\ verdict = "exit 4" => counted = <<>>

\* converter.py:589 and 1094: between conversions no job is in flight, within one exactly one.
GaugeIsExact == gauge = (IF pc \in {"build", "stat", "return", "over"} THEN 0 ELSE 1)

\* converter.py:603-609 and 1072: the intermediate PDF outlives no conversion but a killed one.
ScratchIsRemoved ==
    scratch => (pc # "over" \/ verdict = "killed")

\* What a conversion takes it gives back, on every path out of it.
NothingIsLeft == GaugeIsExact /\ ScratchIsRemoved

-----------------------------------------------------------------------------
(* What a reader of the output directory sees.                             *)

Published == meta.whole /\ meta.of = Own

\* The files that the metadata names: those of a page record are its image and its crops.
Named ==
    IF Published
    THEN {<<"page", i>> : i \in meta.pages}
         \cup {f \in Derivative \X meta.pages : meta.rec[f[2]][f[1]] # Absent}
    ELSE {}

Told ==
    IF verdict \in {None, "killed"} THEN verdict
    ELSE IF verdict \in {"exit 0", "ok"} THEN "success" ELSE "failure"

\* Each with the content that its SHA-256 is of, and with the content that is on disk.
AsListed == {<<f, meta.rec[f[2]][f[1]]>> : f \in Named}
AsShown == {<<f, out[f]>> : f \in Named}

Result == INSTANCE PublishedResult WITH
    Files <- File, Contents <- {Own, Earlier},
    published <- Published, listed <- AsListed, shown <- AsShown, answer <- Told

\* converter.py:878-1094, cli.py:46-91, engine.py:721-788: the stages, the threads, the copy
\* of the PDF after the metadata, and the callers, together publish a result once, whole and
\* for good, and answer accordingly: see PublishedResult.
ImplementsResult == Result!Spec
=============================================================================
