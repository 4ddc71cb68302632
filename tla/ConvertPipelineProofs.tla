------------------------ MODULE ConvertPipelineProofs ------------------------
(***************************************************************************)
(* Proofs about ConvertPipeline, for any page limit, any pool and any      *)
(* files left by an earlier conversion.                                    *)
(*                                                                         *)
(* The invariants lean on one another in this order.  ControlInv ties the  *)
(* stage to the exception in flight and the metrics, ScratchInv to the     *)
(* private directory.  PoolInv says when threads may be at work.  FilesInv *)
(* says what the records already promise of the output directory, at each  *)
(* stage of each page, and what the metadata promises once it is written;  *)
(* it needs PoolInv, or a thread could still write.  SuccessInv ties the   *)
(* exception to the metadata, and OwnInv the contents to the caller.       *)
(* Together they are the IInv under which every step is one of             *)
(* PublishedResult's, or a stutter.                                        *)
(***************************************************************************)
EXTENDS ConvertPipeline, TLAPS, FiniteSetTheorems

Preparing == {"build", "stat", "detect", "export", "read", "rasterize", "measure"}
Working == Preparing \cup {"pages", "filter", "metadata", "writing"}

\* What record_conversion and record_rejection leave of a conversion that ends so.
Outcome(r) ==
    IF r = None THEN <<"success">>
    ELSE IF r = "DetectionError" THEN <<"rejected">>
    ELSE IF r \in ClippyShotErrors THEN <<"failure">>
    ELSE <<>>

ControlInv ==
    /\ pc \in Working => raised = None
    /\ pc \in Working \cup {"copy", "remove"} => counted = <<>>
    /\ pc \in {"copy", "remove"} => raised # "DetectionError"
    /\ pc = "count" => counted = IF raised = "DetectionError" THEN <<"rejected">> ELSE <<>>
    /\ pc = "return" => counted = Outcome(raised)
    /\ raised # "LibreOfficeError"
    /\ pc # "over" => verdict = None
    /\ VerdictIsCounted
    /\ GaugeIsExact

\* pdf_dir is between its mkdtemp and its rmtree.
ScratchInv ==
    \/ scratch = FALSE
    \/ pc \in {"export", "read", "rasterize", "measure", "pages", "filter", "metadata",
               "writing", "copy", "remove"}
    \/ pc = "over" /\ verdict = "killed"

-----------------------------------------------------------------------------
LEMMA AppendToEmpty == \A e : Append(<<>>, e) = <<e>> /\ Len(<<e>>) = 1 /\ Len(<<>>) = 0
  OBVIOUS

LEMMA ControlInit == Init => ControlInv
  BY DEF Init, ControlInv, Preparing, Working, Outcome, VerdictIsCounted, GaugeIsExact, None

\* A page's step leaves all but its page, its record and the directory alone.
LEMMA PageStepFrame ==
  ASSUME NEW i \in Pages, PageStep(i)
  PROVE  /\ UNCHANGED <<pc, raised, caller, skipBlanks, gauge, counted, scratch, hasPdf, total>>
         /\ UNCHANGED <<workers, meta, declared, verdict>>
<1> USE DEF PageFrame, callVars, metricVars, pdfVars, endVars
<1>1. CASE StartPage(i) \/ HashPage(i) \/ ScanPage(i)
  BY <1>1 DEF StartPage, HashPage, ScanPage
<1>2. CASE TrimPage(i) \/ FocusPage(i) \/ PageRaises(i)
  BY <1>2 DEF TrimPage, FocusPage, PageRaises
<1> QED
  BY <1>1, <1>2 DEF PageStep

LEMMA ControlNext == ControlInv /\ [Next]_vars => ControlInv'
<1> SUFFICES ASSUME ControlInv, [Next]_vars PROVE ControlInv'
  OBVIOUS
<1> USE AppendToEmpty DEF ControlInv, Preparing, Working, Outcome, VerdictIsCounted,
        GaugeIsExact, None, Goto, Throw, Tally, ClippyShotErrors, callVars, metricVars, pdfVars,
        poolVars, endVars
<1>1. CASE BuildConverter \/ SandboxUnavailable
  BY <1>1 DEF BuildConverter, SandboxUnavailable
<1>2. CASE Stat
  <2>1. CASE pc' = "detect"
    <3>1. gauge' = 1
      BY <1>2, <2>1 DEF Stat
    <3> QED
      BY <1>2, <2>1, <3>1 DEF Stat
  <2>2. CASE pc' = "return"
    BY <1>2, <2>2 DEF Stat
  <2> QED
    BY <1>2, <2>1, <2>2 DEF Stat
<1>3. CASE Detect \/ DetectRaises
  BY <1>3 DEF Detect, DetectRaises
<1>4. CASE Reject
  <2>1. counted' = <<"rejected">>
    BY <1>4 DEF Reject
  <2> QED
    BY <1>4, <2>1 DEF Reject
<1>5. CASE Export \/ ExportRaises \/ ReadPdf \/ ReadPdfRaises
  BY <1>5 DEF Export, ExportRaises, ReadPdf, ReadPdfRaises, StageErrors
<1>6. CASE Rasterize \/ RasterizeRaises \/ Measure \/ TooLarge
  BY <1>6 DEF Rasterize, RasterizeRaises, Measure, TooLarge, StageErrors
<1>7. ASSUME NEW i \in Pages, PageStep(i) PROVE ControlInv'
  BY <1>7, PageStepFrame
<1>8. CASE CancelPages \/ PagesRaise \/ PagesDone
  BY <1>8 DEF CancelPages, PageFrame, PagesRaise, PagesDone
<1>9. CASE DeleteBlanks \/ DeleteRaises \/ OpenMetadata \/ ReadInputRaises
  BY <1>9 DEF DeleteBlanks, DeleteRaises, OpenMetadata, ReadInputRaises
<1>10. CASE WriteMetadata \/ WriteRaises \/ CopyPdf \/ CopyFails \/ RemoveScratch
  BY <1>10 DEF WriteMetadata, WriteRaises, CopyPdf, CopyFails, RemoveScratch
<1>11. CASE Count
  <2>1. counted' = Outcome(raised)
    BY <1>11 DEF Count, Exceptions
  <2>2. gauge' = 0
    BY <1>11 DEF Count
  <2> QED
    BY <1>11, <2>1, <2>2 DEF Count
<1>12. CASE Return
  BY <1>12 DEF Return, ExitCode, Status
<1>13. CASE Kill
  BY <1>13 DEF Kill
<1>14. CASE UNCHANGED vars
  BY <1>14 DEF vars
<1> QED
  BY <1>1, <1>2, <1>3, <1>4, <1>5, <1>6, <1>7, <1>8, <1>9, <1>10, <1>11, <1>12, <1>13, <1>14
  DEF Next, Step

\* cli.py and engine.py report what metrics.py counted: see VerdictIsCounted.
THEOREM VerdictAgrees == Spec => []VerdictIsCounted
<1>1. ControlInv => VerdictIsCounted
  BY DEF ControlInv
<1> QED
  BY <1>1, ControlInit, ControlNext, PTL DEF Spec

\* The in-flight gauge is balanced on every path out of convert: see GaugeIsExact.
THEOREM GaugeCounts == Spec => []GaugeIsExact
<1>1. ControlInv => GaugeIsExact
  BY DEF ControlInv
<1> QED
  BY <1>1, ControlInit, ControlNext, PTL DEF Spec

-----------------------------------------------------------------------------
LEMMA ScratchInit == Init => ScratchInv
  BY DEF Init, ScratchInv

LEMMA ScratchNext == ScratchInv /\ [Next]_vars => ScratchInv'
<1> SUFFICES ASSUME ScratchInv, [Next]_vars PROVE ScratchInv'
  OBVIOUS
<1> USE DEF ScratchInv, Goto, Throw, callVars, metricVars, pdfVars, poolVars, endVars
<1>1. CASE BuildConverter \/ SandboxUnavailable \/ Stat \/ Detect \/ Reject \/ DetectRaises
  BY <1>1 DEF BuildConverter, SandboxUnavailable, Stat, Detect, Reject, DetectRaises
<1>2. CASE Export \/ ExportRaises \/ ReadPdf \/ ReadPdfRaises
  BY <1>2 DEF Export, ExportRaises, ReadPdf, ReadPdfRaises
<1>3. CASE Rasterize \/ RasterizeRaises \/ Measure \/ TooLarge
  BY <1>3 DEF Rasterize, RasterizeRaises, Measure, TooLarge
<1>4. ASSUME NEW i \in Pages, PageStep(i) PROVE ScratchInv'
  BY <1>4, PageStepFrame
<1>5. CASE CancelPages \/ PagesRaise \/ PagesDone
  BY <1>5 DEF CancelPages, PageFrame, PagesRaise, PagesDone
<1>6. CASE DeleteBlanks \/ DeleteRaises \/ OpenMetadata \/ ReadInputRaises
  BY <1>6 DEF DeleteBlanks, DeleteRaises, OpenMetadata, ReadInputRaises
<1>7. CASE WriteMetadata \/ WriteRaises \/ CopyPdf \/ CopyFails \/ RemoveScratch
  BY <1>7 DEF WriteMetadata, WriteRaises, CopyPdf, CopyFails, RemoveScratch
<1>8. CASE Count \/ Return \/ Kill
  BY <1>8 DEF Count, Return, Kill
<1>9. CASE UNCHANGED vars
  BY <1>9 DEF vars
<1> QED
  BY <1>1, <1>2, <1>3, <1>4, <1>5, <1>6, <1>7, <1>8, <1>9 DEF Next, Step

\* The intermediate PDF is removed on every path but the worker's death: see ScratchIsRemoved.
THEOREM NoScratchLeft == Spec => []ScratchIsRemoved
<1>1. ScratchInv => ScratchIsRemoved
  BY DEF ScratchInv, ScratchIsRemoved
<1> QED
  BY <1>1, ScratchInit, ScratchNext, PTL DEF Spec

\* A conversion that is over is counted out and has removed its private directory, on every
\* path out of it: see NothingIsLeft.
THEOREM NothingLeft == Spec => []NothingIsLeft
<1>1. GaugeIsExact /\ ScratchIsRemoved => NothingIsLeft
  BY DEF NothingIsLeft
<1> QED
  BY <1>1, GaugeCounts, NoScratchLeft, PTL
-----------------------------------------------------------------------------
\* Until the pool is made no page was touched, and then the pool alone touches them.
PoolInv ==
    /\ total \in Nat /\ workers \in Nat \ {0} /\ page \in [Index -> PageStages]
    /\ pc \in Preparing => \A i \in Index : page[i] = "queued"
    /\ PoolIsQuiet

AtWork == {"hash", "trim", "focus", "scan"}

LEMMA PagesInIndex ==
    total \in Nat => Pages \subseteq Index /\ IsFiniteSet(Index)
  BY PipelineAssumption, FS_Interval DEF Pages, Index

LEMMA PoolInit == Init => PoolInv
<1> SUFFICES ASSUME Init PROVE PoolInv
  OBVIOUS
<1>1. Active = {}
  BY PagesInIndex DEF Init, Active
<1> QED
  BY <1>1, FS_EmptySet, PagesInIndex DEF Init, PoolInv, PoolIsQuiet, PageStages

\* A step after which the pages' stages, the pool and the PDF are as they were.
LEMMA PoolFrame ==
  ASSUME PoolInv, UNCHANGED <<page, workers, total>>,
         pc' \in Preparing => pc \in Preparing,
         pc' # "pages" => (pc # "pages" \/ Active = {})
  PROVE  PoolInv'
  BY DEF PoolInv, PoolIsQuiet, Active, Pages

\* What a step of page i does to the stages: it moves page i alone, among the stages.
LEMMA PageStepEffect ==
  ASSUME PoolInv, NEW i \in Pages, PageStep(i)
  PROVE  /\ UNCHANGED <<pc, total, workers>>
         /\ \E s \in PageStages \ {"queued", "cancelled"} : page' = [page EXCEPT ![i] = s]
         /\ pc = "pages"
         /\ page[i] \in AtWork \cup {"queued"}
         /\ page[i] = "queued" => Cardinality(Active) < workers
<1> USE DEF PageFrame, pdfVars, PageStages, AtWork
<1>1. CASE StartPage(i)
  BY <1>1 DEF StartPage
<1>2. CASE HashPage(i)
  <2>1. i \in Active
    BY <1>2 DEF HashPage, Active
  <2> QED
    BY <1>2, <2>1 DEF HashPage, PoolInv, PoolIsQuiet
<1>3. CASE TrimPage(i)
  <2>1. i \in Active
    BY <1>3 DEF TrimPage, Active
  <2> QED
    BY <1>3, <2>1 DEF TrimPage, PoolInv, PoolIsQuiet
<1>4. CASE FocusPage(i)
  <2>1. i \in Active
    BY <1>4 DEF FocusPage, Active
  <2> QED
    BY <1>4, <2>1 DEF FocusPage, PoolInv, PoolIsQuiet
<1>5. CASE ScanPage(i)
  <2>1. i \in Active
    BY <1>5 DEF ScanPage, Active
  <2> QED
    BY <1>5, <2>1 DEF ScanPage, PoolInv, PoolIsQuiet
<1>6. CASE PageRaises(i)
  <2>1. i \in Active
    BY <1>6 DEF PageRaises, Active
  <2> QED
    BY <1>6, <2>1 DEF PageRaises, PoolInv, PoolIsQuiet
<1> QED
  BY <1>1, <1>2, <1>3, <1>4, <1>5, <1>6 DEF PageStep

LEMMA PageStepKeepsPool ==
  ASSUME PoolInv, NEW i \in Pages, PageStep(i)
  PROVE  PoolInv'
<1>1. Pages' = Pages /\ i \in Index /\ IsFiniteSet(Active)
  <2>1. Pages \subseteq Index /\ IsFiniteSet(Index)
    BY PagesInIndex DEF PoolInv
  <2>2. Active \subseteq Index
    BY <2>1 DEF Active
  <2> QED
    BY <2>1, <2>2, FS_Subset, PageStepEffect DEF Pages
<1>2. PICK s \in PageStages \ {"queued", "cancelled"} : page' = [page EXCEPT ![i] = s]
  BY PageStepEffect
<1>3. page' \in [Index -> PageStages]
  BY <1>1, <1>2 DEF PoolInv
<1>4. \A j \in Pages \ {i} : page'[j] = page[j]
  BY <1>2, PagesInIndex DEF PoolInv
<1>5. page'[i] = s
  BY <1>1, <1>2 DEF PoolInv
<1>6. Cardinality(Active') <= workers
  <2>1. CASE page[i] = "queued"
    <3>1. Active' \subseteq Active \cup {i} /\ i \notin Active
      BY <1>1, <1>4, <2>1 DEF Active
    <3>2. IsFiniteSet(Active \cup {i}) /\ Cardinality(Active \cup {i}) = Cardinality(Active) + 1
      BY <1>1, <3>1, FS_AddElement
    <3>3. Cardinality(Active') <= Cardinality(Active \cup {i})
      BY <3>1, <3>2, FS_Subset
    <3> QED
      BY <2>1, <1>1, <3>1, <3>2, <3>3, FS_CardinalityType, FS_Subset, PageStepEffect DEF PoolInv
  <2>2. CASE page[i] \in AtWork
    <3>1. Active' \subseteq Active
      BY <1>1, <1>4, <2>2 DEF Active, AtWork
    <3>2. Cardinality(Active') <= Cardinality(Active)
      BY <1>1, <3>1, FS_Subset
    <3> QED
      BY <1>1, <3>1, <3>2, FS_CardinalityType, FS_Subset DEF PoolInv, PoolIsQuiet
  <2> QED
    BY <2>1, <2>2, PageStepEffect
<1> QED
  BY <1>3, <1>6, PageStepEffect DEF PoolInv, PoolIsQuiet, Preparing

LEMMA PoolNext == PoolInv /\ [Next]_vars => PoolInv'
<1> SUFFICES ASSUME PoolInv, [Next]_vars PROVE PoolInv'
  OBVIOUS
<1> USE DEF Goto, Throw, callVars, metricVars, pdfVars, poolVars, endVars, Preparing
<1>1. CASE BuildConverter \/ SandboxUnavailable \/ Stat \/ Detect \/ Reject \/ DetectRaises
  BY <1>1, PoolFrame DEF BuildConverter, SandboxUnavailable, Stat, Detect, Reject, DetectRaises
<1>2. CASE Export \/ ExportRaises \/ ReadPdfRaises \/ Rasterize \/ RasterizeRaises \/ TooLarge
  BY <1>2, PoolFrame DEF Export, ExportRaises, ReadPdfRaises, Rasterize, RasterizeRaises, TooLarge
<1>3. CASE ReadPdf \/ Measure
  <2>1. /\ pc \in Preparing /\ UNCHANGED page
        /\ total' \in Nat /\ workers' \in Nat \ {0} /\ pc' \in Stages
    BY <1>3, PipelineAssumption DEF ReadPdf, Measure, PoolInv, Stages
  <2>2. \A i \in Index : page'[i] = "queued"
    BY <2>1 DEF PoolInv
  <2>3. Active' = {}
    BY <2>1, <2>2, PipelineAssumption DEF Active, Pages, Index
  <2> QED
    BY <2>1, <2>2, <2>3, FS_EmptySet DEF PoolInv, PoolIsQuiet
<1>4. ASSUME NEW i \in Pages, PageStep(i) PROVE PoolInv'
  BY <1>4, PageStepKeepsPool
<1>5. CASE CancelPages
  <2>1. pc = "pages" /\ UNCHANGED <<pc, total, workers>> /\ page' \in [Index -> PageStages]
    BY <1>5 DEF CancelPages, PageFrame, PoolInv, PageStages
  <2>2. \A i \in Pages : page'[i] \in AtWork => page[i] \in AtWork
    BY <1>5, PagesInIndex DEF CancelPages, AtWork, PoolInv
  <2>3. \A i \in Pages : page[i] \in AtWork => page'[i] \in AtWork
    BY <1>5, PagesInIndex DEF CancelPages, AtWork, PoolInv
  <2>4. Active' = Active
    BY <2>1, <2>2, <2>3 DEF Active, Pages, AtWork
  <2> QED
    BY <2>1, <2>4 DEF PoolInv, PoolIsQuiet
<1>6. CASE PagesRaise \/ PagesDone
  <2>1. Active = {}
    BY <1>6 DEF PagesRaise, PagesDone, Active
  <2> QED
    BY <1>6, <2>1, PoolFrame DEF PagesRaise, PagesDone
<1>7. CASE DeleteBlanks \/ DeleteRaises \/ OpenMetadata \/ ReadInputRaises
  BY <1>7, PoolFrame DEF DeleteBlanks, DeleteRaises, OpenMetadata, ReadInputRaises
<1>8. CASE WriteMetadata \/ WriteRaises \/ CopyPdf \/ CopyFails \/ RemoveScratch
  BY <1>8, PoolFrame DEF WriteMetadata, WriteRaises, CopyPdf, CopyFails, RemoveScratch
<1>9. CASE Count \/ Return
  BY <1>9, PoolFrame DEF Count, Return
<1>10. CASE Kill
  <2>1. /\ UNCHANGED <<total, workers>> /\ pc' = "over"
        /\ \A i \in Index : page'[i] = "queued"
        /\ page' \in [Index -> PageStages]
    BY <1>10 DEF Kill, PageStages
  <2>2. Active' = {}
    BY <2>1, PipelineAssumption DEF Active, Pages, Index, PoolInv
  <2> QED
    BY <2>1, <2>2, FS_EmptySet DEF PoolInv, PoolIsQuiet
<1>11. CASE UNCHANGED vars
  BY <1>11, PoolFrame DEF vars
<1> QED
  BY <1>1, <1>2, <1>3, <1>4, <1>5, <1>6, <1>7, <1>8, <1>9, <1>10, <1>11 DEF Next, Step

\* The threads of the pool never outnumber its workers, nor outlive its `with`: see PoolIsQuiet.
THEOREM PoolQuiet == Spec => []PoolIsQuiet
<1>1. PoolInv => PoolIsQuiet
  BY DEF PoolInv
<1> QED
  BY <1>1, PoolInit, PoolNext, PTL DEF Spec
-----------------------------------------------------------------------------
DataTypes ==
    /\ rec \in [Index -> Record] /\ out \in [File -> Content] /\ meta \in Metadata
    /\ \A i \in Index, k \in Derivative : rec[i][k] \in {Absent, Own}

LEMMA Files ==
    /\ Document \in File
    /\ \A i \in Index : <<"page", i>> \in File
    /\ \A i \in Index, k \in Derivative : <<k, i>> \in File
  BY DEF Document, File

LEMMA EmptyRecords == NoRecords \in [Index -> Record] /\ NoMetadata \in Metadata
<1>1. EmptyRecord \in Record
  BY DEF EmptyRecord, Record, Content
<1>2. NoRecords \in [Index -> Record]
  BY <1>1 DEF NoRecords
<1> QED
  BY <1>2 DEF NoMetadata, MetadataOf, Metadata

LEMMA MetadataTyped ==
  ASSUME NEW c \in {Absent, Earlier, Own}, NEW w \in BOOLEAN, NEW S \in SUBSET Index,
         NEW R \in [Index -> Record]
  PROVE  /\ MetadataOf(c, w, S, R) \in Metadata
         /\ MetadataOf(c, w, S, R).of = c
         /\ MetadataOf(c, w, S, R).whole = w
         /\ MetadataOf(c, w, S, R).pages = S
         /\ MetadataOf(c, w, S, R).rec = R
  BY DEF MetadataOf, Metadata

LEMMA DataInit == Init => DataTypes
<1> SUFFICES ASSUME Init PROVE DataTypes
  OBVIOUS
<1>1. rec \in [Index -> Record] /\ out \in [File -> Content]
  BY EmptyRecords DEF Init, Content
<1>2. \A i \in Index, k \in Derivative : rec[i][k] \in {Absent, Own}
  BY DEF Init, NoRecords, EmptyRecord, Derivative
<1>3. meta \in Metadata
  <2>1. MetadataOf(Earlier, TRUE, {}, NoRecords) \in Metadata
    BY EmptyRecords, MetadataTyped
  <2>2. meta = NoMetadata \/ meta = MetadataOf(Earlier, TRUE, {}, NoRecords)
    BY Zenon DEF Init
  <2> QED
    BY <2>1, <2>2, EmptyRecords
<1> QED
  BY <1>1, <1>2, <1>3 DEF DataTypes

\* What a page's record says of its files is so.
RecTrue(i) ==
    /\ rec[i].page = out[<<"page", i>>]
    /\ \A k \in Derivative : rec[i][k] # Absent => out[<<k, i>>] = rec[i][k]

Hashed == {"trim", "focus", "scan", "done"}

\* A step of page i leaves the other pages alone, and its own image.
OthersKept(i) ==
    /\ \A j \in Index \ {i} :
           rec'[j] = rec[j] /\ \A k \in Derivative : out'[<<k, j>>] = out[<<k, j>>]
    /\ \A j \in Index : out'[<<"page", j>>] = out[<<"page", j>>]

LEMMA CropEffect ==
  ASSUME DataTypes, NEW i \in Index, NEW k \in Derivative, RecTrue(i), Crop(i, k),
         UNCHANGED meta
  PROVE  DataTypes' /\ OthersKept(i) /\ RecTrue(i)'
<1>1. CASE UNCHANGED <<out, rec>>
  BY <1>1 DEF DataTypes, OthersKept, RecTrue
<1>2. CASE /\ out' = [out EXCEPT ![<<k, i>>] = Own]
           /\ rec' = [rec EXCEPT ![i][k] = Own]
  <2>1. out' \in [File -> Content]
    BY <1>2, Files DEF DataTypes, Content
  <2>2. \A f \in File : out'[f] = IF f = <<k, i>> THEN Own ELSE out[f]
    BY <1>2, Files DEF DataTypes
  <2>3. rec'[i] \in Record /\ rec'[i][k] = Own /\ rec'[i].page = rec[i].page
        /\ \A d \in Derivative \ {k} : rec'[i][d] = rec[i][d]
    BY <1>2 DEF DataTypes, Record, Content, Derivative
  <2>4. \A j \in Index \ {i} : rec'[j] = rec[j]
    BY <1>2 DEF DataTypes
  <2>5. rec' \in [Index -> Record]
    BY <1>2, <2>3, <2>4 DEF DataTypes
  <2>6. \A j \in Index : <<"page", j>> # <<k, i>>
    BY DEF Derivative
  <2>7. OthersKept(i)
    BY <2>2, <2>4, <2>6, Files DEF OthersKept
  <2>8. RecTrue(i)'
    BY <2>2, <2>3, <2>6, Files DEF RecTrue
  <2> QED
    BY <2>1, <2>3, <2>4, <2>5, <2>7, <2>8 DEF DataTypes
<1> QED
  BY <1>1, <1>2 DEF Crop

\* A page's step keeps the types and the other pages; past the hash its record is true.
LEMMA PageStepData ==
  ASSUME PoolInv, DataTypes, NEW i \in Pages, PageStep(i),
         page[i] \in Hashed => RecTrue(i)
  PROVE  DataTypes' /\ UNCHANGED meta /\ OthersKept(i) /\ (page'[i] \in Hashed => RecTrue(i)')
<1>1. i \in Index /\ Index = DOMAIN page
  BY PagesInIndex DEF PoolInv
<1> USE DEF PageFrame
<1>2. CASE StartPage(i) \/ ScanPage(i)
  <2>1. UNCHANGED <<rec, out, meta>> /\ (page'[i] \in Hashed => page[i] \in Hashed)
    BY <1>1, <1>2 DEF StartPage, ScanPage, Hashed, PoolInv
  <2> QED
    BY <2>1 DEF DataTypes, OthersKept, RecTrue
<1>3. CASE HashPage(i)
  <2>1. PICK blank \in BOOLEAN :
          rec' = [rec EXCEPT ![i] = [blank |-> blank, page |-> out[<<"page", i>>],
                                     trimmed |-> Absent, focused |-> Absent]]
    BY <1>3 DEF HashPage
  <2>2. UNCHANGED <<out, meta>>
    BY <1>3 DEF HashPage
  <2>3. out[<<"page", i>>] \in Content
    BY <1>1, Files DEF DataTypes
  <2>4. [blank |-> blank, page |-> out[<<"page", i>>], trimmed |-> Absent, focused |-> Absent]
          \in Record
    BY <2>3 DEF Record, Content
  <2>5. \A j \in Index \ {i} : rec'[j] = rec[j]
    BY <2>1 DEF DataTypes
  <2>6. /\ rec'[i].page = out[<<"page", i>>]
        /\ \A k \in Derivative : rec'[i][k] = Absent
    BY <1>1, <2>1 DEF DataTypes, Derivative
  <2>7. rec' \in [Index -> Record]
    BY <2>1, <2>4 DEF DataTypes
  <2>8. DataTypes'
    BY <2>2, <2>5, <2>6, <2>7 DEF DataTypes
  <2> QED
    BY <2>2, <2>5, <2>6, <2>8 DEF OthersKept, RecTrue
<1>4. CASE TrimPage(i)
  <2>1. RecTrue(i) /\ Crop(i, "trimmed") /\ UNCHANGED meta
    BY <1>4 DEF TrimPage, Hashed
  <2> QED
    BY <1>1, <2>1, CropEffect DEF Derivative
<1>5. CASE FocusPage(i)
  <2>1. RecTrue(i) /\ Crop(i, "focused") /\ UNCHANGED meta
    BY <1>5 DEF FocusPage, Hashed
  <2> QED
    BY <1>1, <2>1, CropEffect DEF Derivative
<1>6. CASE PageRaises(i)
  <2>1. UNCHANGED <<rec, meta>> /\ page'[i] \notin Hashed
    BY <1>1, <1>6 DEF PageRaises, Hashed, PoolInv
  <2>2. UNCHANGED out \/ \E k \in Derivative : out' = [out EXCEPT ![<<k, i>>] = Torn]
    BY <1>6 DEF PageRaises, Derivative
  <2>3. out' \in [File -> Content]
    BY <1>1, <2>2, Files DEF DataTypes, Content
  <2>4. OthersKept(i)
    BY <1>1, <2>1, <2>2, Files DEF DataTypes, OthersKept, Derivative
  <2> QED
    BY <2>1, <2>3, <2>4 DEF DataTypes
<1> QED
  BY <1>2, <1>3, <1>4, <1>5, <1>6 DEF PageStep

-----------------------------------------------------------------------------
Done == meta.whole /\ meta.of = Own

Written == {"writing", "copy", "remove", "count", "return", "over"}

\* What was kept is as its records say, and what was skipped is gone.
KeptTrue ==
    /\ \A i \in Listed : RecTrue(i) /\ rec[i].page # Absent
    /\ \A i \in Skipped : out[<<"page", i>>] = Absent

FilesInv ==
    /\ pc \in {"measure", "pages", "filter"} => \A i \in Pages : out[<<"page", i>>] # Absent
    /\ pc = "pages" => \A i \in Pages : page[i] \in Hashed => RecTrue(i)
    /\ pc = "filter" => \A i \in Pages : RecTrue(i)
    /\ pc \in {"metadata", "writing"} => KeptTrue
    /\ meta.of = Own => pc \in Written
    /\ Done => pc # "writing" /\ (pc # "over" => meta.pages = Listed /\ meta.rec = rec)
    /\ MetadataIsTrue

LEMMA FilesInit == Init => FilesInv
<1> SUFFICES ASSUME Init PROVE FilesInv
  OBVIOUS
<1>1. meta.of # Own
  BY DEF Init, MetadataOf, NoMetadata, Own, Earlier, Absent
<1> QED
  BY <1>1 DEF Init, FilesInv, MetadataIsTrue, Done

\* Before the metadata: no promise is open in the stage that the step leads to.
LEMMA EarlyStep ==
  ASSUME FilesInv, pc \notin Written, UNCHANGED meta,
         pc' \notin {"measure", "pages", "filter", "metadata", "writing"}
  PROVE  FilesInv'
  BY DEF FilesInv, MetadataIsTrue, Done

LEMMA DataFrame ==
  ASSUME DataTypes, UNCHANGED <<rec, out, meta>>
  PROVE  DataTypes'
  BY DEF DataTypes

LEMMA DataOut ==
  ASSUME DataTypes, UNCHANGED <<rec, meta>>, out' \in [File -> Content]
  PROVE  DataTypes'
  BY DEF DataTypes

\* After the metadata: document.pdf alone may change.
LEMMA LateStep ==
  ASSUME FilesInv, PoolInv, pc \in {"copy", "remove", "count", "return"},
         UNCHANGED <<meta, rec, total, skipBlanks>>,
         pc' \in {"copy", "remove", "count", "return", "over"},
         \A i \in Index : /\ out'[<<"page", i>>] = out[<<"page", i>>]
                          /\ \A k \in Derivative : out'[<<k, i>>] = out[<<k, i>>]
  PROVE  FilesInv'
<1>1. Pages' = Pages /\ Pages \subseteq Index /\ Skipped' = Skipped /\ Listed' = Listed
  BY PagesInIndex DEF Pages, Skipped, Blank, Listed, PoolInv
<1>2. Done' = Done
  BY DEF Done
<1>3. MetadataIsTrue'
  <2> SUFFICES ASSUME Done' PROVE MetadataIsTrue'
    BY DEF MetadataIsTrue, Done
  <2>1. meta.pages \subseteq Index
    BY <1>1, <1>2 DEF FilesInv, Listed
  <2> QED
    BY <1>1, <1>2, <2>1 DEF FilesInv, MetadataIsTrue, Done, Exists
<1> QED
  BY <1>1, <1>2, <1>3 DEF FilesInv, Written

LEMMA RasterizeFiles ==
  ASSUME DataTypes, PoolInv, NEW some \in SUBSET Pages, PagesOnDisk(some)
  PROVE  /\ out' \in [File -> Content]
         /\ \A i \in some : out'[<<"page", i>>] = Own
         /\ \A i \in Index \ some : out'[<<"page", i>>] = out[<<"page", i>>]
<1>1. some \subseteq Index
  BY PagesInIndex DEF PoolInv
<1> QED
  BY <1>1, Files DEF PagesOnDisk, DataTypes, Content

LEMMA DeletedFiles ==
  ASSUME DataTypes, NEW files, Without(files)
  PROVE  /\ out' \in [File -> Content]
         /\ \A f \in File : out'[f] = IF f \in files THEN Absent ELSE out[f]
  BY DEF Without, DataTypes, Content

LEMMA DeleteBlanksKeeps ==
  ASSUME DataTypes, PoolInv, FilesInv, DeleteBlanks
  PROVE  FilesInv'
<1> USE DEF Goto, pdfVars, poolVars, callVars
<1>1. /\ pc = "filter" /\ pc' = "metadata" /\ UNCHANGED <<meta, rec, total, skipBlanks>>
      /\ Without(FilesOf(Skipped))
  BY DEF DeleteBlanks
<1>2. Pages \subseteq Index /\ Skipped \subseteq Pages /\ Listed \subseteq Pages
  BY PagesInIndex DEF PoolInv, Skipped, Blank, Listed
<1>3. Skipped' = Skipped /\ Listed' = Listed
  BY <1>1 DEF Skipped, Blank, Listed, Pages
<1>4. ASSUME NEW i \in Listed
      PROVE  /\ out'[<<"page", i>>] = out[<<"page", i>>]
             /\ \A k \in Derivative : out'[<<k, i>>] = out[<<k, i>>]
  <2>1. i \in Index /\ i \notin Skipped
    BY <1>2 DEF Listed
  <2>2. <<"page", i>> \notin FilesOf(Skipped)
        /\ \A k \in Derivative : <<k, i>> \notin FilesOf(Skipped)
    BY <2>1 DEF FilesOf, Derivative
  <2> QED
    BY <1>1, <2>1, <2>2, DeletedFiles, Files
<1>5. ASSUME NEW i \in Skipped PROVE out'[<<"page", i>>] = Absent
  <2>1. <<"page", i>> \in FilesOf(Skipped)
    BY DEF FilesOf
  <2> QED
    BY <1>1, <1>2, <2>1, DeletedFiles, Files
<1>6. \A i \in Listed : RecTrue(i) /\ rec[i].page # Absent
  BY <1>1, <1>2 DEF FilesInv, RecTrue
<1>7. KeptTrue'
  BY <1>1, <1>3, <1>4, <1>5, <1>6 DEF KeptTrue, RecTrue
<1> QED
  BY <1>1, <1>7 DEF FilesInv, MetadataIsTrue, Done, Written

LEMMA WriteMetadataKeeps ==
  ASSUME DataTypes, PoolInv, FilesInv, WriteMetadata
  PROVE  FilesInv' /\ meta' \in Metadata /\ Done' /\ UNCHANGED <<rec, out>>
<1> USE DEF Goto, pdfVars, poolVars, callVars
<1>1. /\ pc = "writing" /\ pc' = "copy" /\ UNCHANGED <<rec, out, total, skipBlanks>>
      /\ meta' = MetadataOf(Own, TRUE, Listed, rec)
  BY DEF WriteMetadata
<1>2. Pages \subseteq Index /\ Skipped \subseteq Pages /\ Listed \subseteq Pages
  BY PagesInIndex DEF PoolInv, Skipped, Blank, Listed
<1>3. /\ meta' \in Metadata
      /\ meta'.of = Own /\ meta'.whole /\ meta'.pages = Listed /\ meta'.rec = rec
  <2>1. Listed \in SUBSET Index /\ rec \in [Index -> Record]
    BY <1>2 DEF DataTypes
  <2>2. MetadataOf(Own, TRUE, Listed, rec).whole
    BY DEF MetadataOf
  <2> QED
    BY <1>1, <2>1, <2>2 DEF MetadataOf, Metadata
<1>4. Pages' = Pages /\ Listed' = Listed
  BY <1>1 DEF Skipped, Blank, Listed, Pages
<1>5. KeptTrue
  BY <1>1 DEF FilesInv
<1>6. \A i \in Pages \ Listed : skipBlanks /\ rec[i].blank /\ ~Exists(<<"page", i>>)
  <2> SUFFICES ASSUME NEW i \in Skipped
               PROVE  skipBlanks /\ rec[i].blank /\ ~Exists(<<"page", i>>)
    BY <1>2 DEF Listed
  <2>1. skipBlanks /\ i \in Blank
    BY DEF Skipped
  <2> QED
    BY <2>1, <1>5 DEF Blank, KeptTrue, Exists
<1>7. MetadataIsTrue'
  <2>1. \A i \in Listed :
          /\ rec[i].page # Absent /\ out[<<"page", i>>] = rec[i].page
          /\ \A k \in Derivative : rec[i][k] # Absent => out[<<k, i>>] = rec[i][k]
    BY <1>5 DEF KeptTrue, RecTrue
  <2>2. ASSUME NEW i \in meta'.pages
        PROVE  /\ meta'.rec[i].page # Absent /\ out'[<<"page", i>>] = meta'.rec[i].page
               /\ \A k \in Derivative :
                    meta'.rec[i][k] # Absent => out'[<<k, i>>] = meta'.rec[i][k]
    <3>1. i \in Listed /\ meta'.rec = rec /\ out' = out
      BY <1>1, <1>3
    <3> HIDE DEF Goto, pdfVars, poolVars, callVars
    <3> QED
      BY <2>1, <3>1, Zenon
  <2>3. \A i \in Pages' \ meta'.pages : skipBlanks' /\ meta'.rec[i].blank /\ ~Exists(<<"page", i>>)'
    BY <1>1, <1>3, <1>4, <1>6, Zenon DEF Exists
  <2> QED
    BY <2>2, <2>3, Zenon DEF MetadataIsTrue
<1>8. Done'
  BY <1>3 DEF Done
<1> QED
  BY <1>1, <1>3, <1>4, <1>7, <1>8 DEF FilesInv, Written

LEMMA OpenMetadataKeeps ==
  ASSUME DataTypes, FilesInv, OpenMetadata
  PROVE  FilesInv' /\ DataTypes'
<1> USE DEF Goto, pdfVars, poolVars, callVars
<1>1. /\ pc = "metadata" /\ pc' = "writing" /\ UNCHANGED <<rec, out, total, skipBlanks>>
      /\ meta' = MetadataOf(Own, FALSE, {}, NoRecords)
  BY DEF OpenMetadata
<1>2. meta' \in Metadata /\ ~meta'.whole
  <2>1. MetadataOf(Own, FALSE, {}, NoRecords) \in Metadata
    BY EmptyRecords, MetadataTyped
  <2>2. ~MetadataOf(Own, FALSE, {}, NoRecords).whole
    BY DEF MetadataOf
  <2> QED
    BY <1>1, <2>1, <2>2
<1>3. KeptTrue'
  BY <1>1 DEF FilesInv, KeptTrue, RecTrue, Listed, Skipped, Blank, Pages
<1>4. ~Done' /\ MetadataIsTrue'
  BY <1>2 DEF Done, MetadataIsTrue
<1>5. DataTypes'
  BY <1>1, <1>2 DEF DataTypes
<1> QED
  BY <1>1, <1>3, <1>4, <1>5 DEF FilesInv, Written

LEMMA PageStepKeepsFiles ==
  ASSUME DataTypes, PoolInv, FilesInv, NEW i \in Pages, PageStep(i)
  PROVE  FilesInv' /\ DataTypes'
<1>1. /\ pc = "pages" /\ UNCHANGED <<pc, total>> /\ Pages \subseteq Index
      /\ \A j \in Pages \ {i} : page'[j] = page[j]
  BY PageStepEffect, PagesInIndex DEF PoolInv
<1>2. page[i] \in Hashed => RecTrue(i)
  BY <1>1 DEF FilesInv
<1>3. DataTypes' /\ UNCHANGED meta /\ OthersKept(i) /\ (page'[i] \in Hashed => RecTrue(i)')
  BY <1>2, PageStepData
<1>4. ASSUME NEW j \in Pages PROVE out'[<<"page", j>>] # Absent
  BY <1>1, <1>3 DEF OthersKept, FilesInv
<1>5. ASSUME NEW j \in Pages, page'[j] \in Hashed PROVE RecTrue(j)'
  <2>1. CASE j = i
    BY <1>3, <1>5, <2>1
  <2>2. CASE j # i
    <3>1. RecTrue(j)
      BY <1>1, <1>5, <2>2 DEF FilesInv
    <3> QED
      BY <1>1, <1>3, <2>2, <3>1 DEF OthersKept, RecTrue
  <2> QED
    BY <2>1, <2>2
<1>6. Pages' = Pages
  BY <1>1 DEF Pages
<1>7. meta.of # Own /\ ~Done' /\ MetadataIsTrue'
  BY <1>1, <1>3 DEF FilesInv, Written, Done, MetadataIsTrue
<1> QED
  BY <1>1, <1>3, <1>4, <1>5, <1>6, <1>7 DEF FilesInv

LEMMA FilesNext == PoolInv /\ DataTypes /\ FilesInv /\ [Next]_vars => FilesInv' /\ DataTypes'
<1> SUFFICES ASSUME PoolInv, DataTypes, FilesInv, [Next]_vars PROVE FilesInv' /\ DataTypes'
  OBVIOUS
<1> USE DEF Goto, Throw, callVars, metricVars, pdfVars, poolVars, endVars
<1>1. CASE BuildConverter \/ SandboxUnavailable \/ Stat \/ Detect \/ Reject \/ DetectRaises
  BY <1>1, EarlyStep, DataFrame DEF BuildConverter, SandboxUnavailable, Stat, Detect, Reject,
     DetectRaises, Written
<1>2. CASE Export \/ ExportRaises \/ ReadPdf \/ ReadPdfRaises \/ TooLarge
  BY <1>2, EarlyStep, DataFrame DEF Export, ExportRaises, ReadPdf, ReadPdfRaises, TooLarge, Written
<1>3. CASE Rasterize
  <2>1. PICK some \in SUBSET Pages :
          /\ \A i \in Pages \ some : out[<<"page", i>>] # Absent
          /\ PagesOnDisk(some)
    BY <1>3 DEF Rasterize
  <2>2. /\ pc = "rasterize" /\ pc' = "measure" /\ UNCHANGED <<rec, meta, total>>
        /\ Pages' = Pages /\ Pages \subseteq Index
    BY <1>3, PagesInIndex DEF Rasterize, Pages, PoolInv
  <2>3. \A i \in Pages : out'[<<"page", i>>] # Absent
    BY <2>1, <2>2, RasterizeFiles DEF Own, Absent
  <2>4. meta.of # Own
    BY <2>2 DEF FilesInv, Written
  <2>5. FilesInv'
    BY <2>2, <2>3, <2>4 DEF FilesInv, MetadataIsTrue, Done
  <2> QED
    BY <2>1, <2>2, <2>5, RasterizeFiles, DataOut
<1>4. CASE RasterizeRaises
  <2>1. PICK some \in SUBSET Pages : PagesOnDisk(some)
    BY <1>4 DEF RasterizeRaises
  <2> QED
    BY <1>4, <2>1, RasterizeFiles, DataOut, EarlyStep DEF RasterizeRaises, Written
<1>5. CASE Measure
  <2>1. /\ pc = "measure" /\ pc' = "pages" /\ UNCHANGED <<rec, meta, total, page, out>>
        /\ Pages' = Pages /\ Pages \subseteq Index
    BY <1>5, PagesInIndex DEF Measure, Pages, PoolInv
  <2>2. \A i \in Pages : page[i] \notin Hashed
    BY <2>1 DEF PoolInv, Preparing, Hashed
  <2> QED
    BY <2>1, <2>2, DataFrame DEF FilesInv, MetadataIsTrue, Done, Written
<1>6. ASSUME NEW i \in Pages, PageStep(i) PROVE FilesInv' /\ DataTypes'
  BY <1>6, PageStepKeepsFiles
<1>7. CASE CancelPages
  <2>1. /\ pc = "pages" /\ UNCHANGED <<pc, rec, meta, total, out>>
        /\ Pages' = Pages /\ Pages \subseteq Index
    BY <1>7, PagesInIndex DEF CancelPages, PageFrame, Pages, PoolInv
  <2>2. \A i \in Pages : page'[i] \in Hashed => page[i] \in Hashed
    BY <1>7, <2>1 DEF CancelPages, Hashed
  <2>3. \A i \in Pages : RecTrue(i) => RecTrue(i)'
    BY <2>1 DEF RecTrue
  <2> QED
    BY <2>1, <2>2, <2>3, DataFrame DEF FilesInv, MetadataIsTrue, Done, Written
<1>8. CASE PagesRaise \/ ReadInputRaises
  BY <1>8, EarlyStep, DataFrame DEF PagesRaise, ReadInputRaises, Written
<1>9. CASE PagesDone
  <2>1. /\ pc = "pages" /\ pc' = "filter" /\ UNCHANGED <<rec, meta, total, out>>
        /\ Pages' = Pages /\ \A i \in Pages : page[i] \in Hashed
    BY <1>9 DEF PagesDone, Pages, Hashed
  <2>2. \A i \in Pages : RecTrue(i)'
    BY <2>1 DEF FilesInv, RecTrue
  <2> QED
    BY <2>1, <2>2, DataFrame DEF FilesInv, MetadataIsTrue, Done, Written
<1>10. CASE DeleteBlanks
  BY <1>10, DeleteBlanksKeeps, DeletedFiles, DataOut DEF DeleteBlanks
<1>11. CASE DeleteRaises
  <2>1. PICK some \in SUBSET FilesOf(Skipped) : Without(some)
    BY <1>11 DEF DeleteRaises
  <2> QED
    BY <1>11, <2>1, DeletedFiles, DataOut, EarlyStep DEF DeleteRaises, Written
<1>12. CASE OpenMetadata
  BY <1>12, OpenMetadataKeeps
<1>13. CASE WriteMetadata
  BY <1>13, WriteMetadataKeeps DEF DataTypes
<1>14. CASE WriteRaises
  BY <1>14, DataFrame DEF WriteRaises, FilesInv, MetadataIsTrue, Done, Written
<1>15. CASE CopyPdf \/ CopyFails
  <2>1. \E c \in Content : out' = [out EXCEPT ![Document] = c]
    <3>1. CASE CopyPdf
      BY <3>1, Files DEF CopyPdf, DataTypes, Content
    <3>2. CASE CopyFails
      BY <3>2 DEF CopyFails, Content
    <3> QED
      BY <1>15, <3>1, <3>2
  <2>2. PICK c \in Content : out' = [out EXCEPT ![Document] = c]
    BY <2>1
  <2>3. out' \in [File -> Content]
    BY <2>2, Files DEF DataTypes
  <2>4. \A i \in Index : /\ out'[<<"page", i>>] = out[<<"page", i>>]
                         /\ \A k \in Derivative : out'[<<k, i>>] = out[<<k, i>>]
    BY <2>2, Files DEF DataTypes, Document, Derivative
  <2> QED
    BY <1>15, <2>3, <2>4, DataOut, LateStep DEF CopyPdf, CopyFails
<1>16. CASE RemoveScratch \/ Count \/ Return
  BY <1>16, LateStep, DataFrame DEF RemoveScratch, Count, Return
<1>17. CASE Kill
  BY <1>17, DataFrame DEF Kill, FilesInv, MetadataIsTrue, Done, Written, Pages, Exists
<1>18. CASE UNCHANGED vars
  BY <1>18, DataFrame DEF vars, FilesInv, MetadataIsTrue, Done, Written, Pages, Exists, KeptTrue,
     RecTrue, Listed, Skipped, Blank
<1> QED
  BY <1>1, <1>2, <1>3, <1>4, <1>5, <1>6, <1>7, <1>8, <1>9, <1>10, <1>11, <1>12, <1>13, <1>14,
     <1>15, <1>16, <1>17, <1>18 DEF Next, Step

\* Whole metadata describes the directory from the moment it is whole: see MetadataIsTrue.
THEOREM MetadataTrue == Spec => []MetadataIsTrue
<1>1. FilesInv => MetadataIsTrue
  BY DEF FilesInv
<1> QED
  BY <1>1, PoolInit, PoolNext, DataInit, FilesInit, FilesNext, PTL DEF Spec

-----------------------------------------------------------------------------
\* converter.py:1061-1094: a conversion that was reported as failed left no whole metadata,
\* and one that was reported as successful left its own.
MetadataOfSuccess == (pc = "over" /\ verdict # "killed") => (Done <=> verdict \in {"exit 0", "ok"})

\* Past the result, an exception is in flight unless the metadata is whole.
SuccessInv ==
    /\ pc \in {"copy", "remove", "count", "return"} => (Done <=> raised = None)
    /\ MetadataOfSuccess

LEMMA SuccessInit == Init => SuccessInv
  BY DEF Init, SuccessInv, MetadataOfSuccess

\* The result is not there yet, and the step does not report one.
LEMMA NotDoneYet ==
  ASSUME FilesInv, pc \in Working, UNCHANGED meta
  PROVE  ~Done' /\ ~(meta.whole /\ meta.of = Own)'
  BY DEF FilesInv, Working, Preparing, Written, Done

LEMMA SuccessNext ==
  PoolInv /\ DataTypes /\ FilesInv /\ ControlInv /\ SuccessInv /\ [Next]_vars => SuccessInv'
<1> SUFFICES ASSUME PoolInv, DataTypes, FilesInv, ControlInv, SuccessInv, [Next]_vars
             PROVE  SuccessInv'
  OBVIOUS
<1> USE DEF Goto, Throw, callVars, metricVars, pdfVars, poolVars, endVars, None
<1>1. CASE BuildConverter \/ SandboxUnavailable \/ Stat \/ Detect \/ Reject \/ DetectRaises
  BY <1>1, NotDoneYet DEF BuildConverter, SandboxUnavailable, Stat, Detect, Reject, DetectRaises,
     SuccessInv, MetadataOfSuccess, Working, Preparing
<1>2. CASE Export \/ ExportRaises \/ ReadPdf \/ ReadPdfRaises
  BY <1>2, NotDoneYet DEF Export, ExportRaises, ReadPdf, ReadPdfRaises, StageErrors,
     SuccessInv, MetadataOfSuccess, Working, Preparing
<1>3. CASE Rasterize \/ RasterizeRaises \/ Measure \/ TooLarge
  BY <1>3, NotDoneYet DEF Rasterize, RasterizeRaises, Measure, TooLarge, StageErrors,
     SuccessInv, MetadataOfSuccess, Working, Preparing
<1>4. ASSUME NEW i \in Pages, PageStep(i) PROVE SuccessInv'
  BY <1>4, PageStepEffect DEF SuccessInv, MetadataOfSuccess
<1>5. CASE CancelPages \/ PagesRaise \/ PagesDone
  BY <1>5, NotDoneYet DEF CancelPages, PageFrame, PagesRaise, PagesDone,
     SuccessInv, MetadataOfSuccess, Working, Preparing
<1>6. CASE DeleteBlanks \/ DeleteRaises \/ OpenMetadata \/ ReadInputRaises \/ WriteRaises
  BY <1>6, NotDoneYet DEF DeleteBlanks, DeleteRaises, OpenMetadata, ReadInputRaises, WriteRaises,
     SuccessInv, MetadataOfSuccess, Working, Preparing
<1>7. CASE WriteMetadata
  <2>1. Done' /\ raised' = None /\ pc' = "copy"
    BY <1>7, WriteMetadataKeeps DEF WriteMetadata, ControlInv, Working, Preparing
  <2> QED
    BY <2>1 DEF SuccessInv, MetadataOfSuccess
<1>8. CASE CopyPdf \/ CopyFails \/ RemoveScratch \/ Count
  BY <1>8 DEF CopyPdf, CopyFails, RemoveScratch, Count, SuccessInv, MetadataOfSuccess, Done
<1>9. CASE Return
  BY <1>9 DEF Return, ExitCode, Status, SuccessInv, MetadataOfSuccess, Done
<1>10. CASE Kill
  BY <1>10 DEF Kill, SuccessInv, MetadataOfSuccess
<1>11. CASE UNCHANGED vars
  BY <1>11 DEF vars, SuccessInv, MetadataOfSuccess, Done
<1> QED
  BY <1>1, <1>2, <1>3, <1>4, <1>5, <1>6, <1>7, <1>8, <1>9, <1>10, <1>11 DEF Next, Step

\* Success is reported if and only if its metadata was written whole: see MetadataOfSuccess.
THEOREM SuccessHasMetadata == Spec => []MetadataOfSuccess
<1>1. SuccessInv => MetadataOfSuccess
  BY DEF SuccessInv
<1> QED
  BY <1>1, ControlInit, ControlNext, PoolInit, PoolNext, DataInit, FilesInit, FilesNext,
     SuccessInit, SuccessNext, PTL DEF Spec

-----------------------------------------------------------------------------
\* The engine's directory is new, a page's image is never torn, and the answer comes last.
OwnInv ==
    /\ caller = "detonate" => \A f \in File : out[f] # Earlier
    /\ \A i \in Index : out[<<"page", i>>] # Torn
    /\ declared \subseteq File
    /\ pc # "over" => declared = {}
    /\ caller # "detonate" => declared = {}
    /\ DeclaredIsOwn

LEMMA OwnInit == Init => OwnInv
<1> SUFFICES ASSUME Init PROVE OwnInv
  OBVIOUS
<1>1. PICK left \in (IF caller = "cli" THEN Leftovers ELSE {{}}) :
        out = [f \in File |-> IF f \in left THEN Earlier ELSE Absent]
  BY DEF Init
<1> QED
  BY <1>1, Files DEF Init, OwnInv, DeclaredIsOwn, Earlier, Absent, Torn

\* Nothing that a step writes is another conversion's, and no image of a page is torn.
LEMMA OwnFrame ==
  ASSUME OwnInv, UNCHANGED <<caller, declared>>, pc # "over",
         \A f \in File : out'[f] \in {out[f], Own, Torn, Absent},
         \A i \in Index : out'[<<"page", i>>] \in {out[<<"page", i>>], Own, Absent}
  PROVE  OwnInv'
  BY Files DEF OwnInv, DeclaredIsOwn, Own, Torn, Absent, Earlier

LEMMA PageStepOwn ==
  ASSUME PoolInv, DataTypes, NEW i \in Pages, PageStep(i), NEW f \in File
  PROVE  out'[f] \in {out[f], Own, Torn}
<1>1. i \in Index
  BY PagesInIndex DEF PoolInv
<1>2. CASE StartPage(i) \/ HashPage(i) \/ ScanPage(i)
  BY <1>2 DEF StartPage, HashPage, ScanPage
<1>3. CASE TrimPage(i) \/ FocusPage(i)
  BY <1>1, <1>3 DEF TrimPage, FocusPage, Crop, DataTypes
<1>4. CASE PageRaises(i)
  BY <1>1, <1>4 DEF PageRaises, DataTypes
<1> QED
  BY <1>2, <1>3, <1>4 DEF PageStep

LEMMA DeclaredFiles ==
  ASSUME DataTypes, PoolInv, FilesInv, OwnInv, caller = "detonate", Done, pc = "return"
  PROVE  \A f \in Declared : f \in File /\ (out[f] = Own \/ (f = Document /\ out[f] = Torn))
<1>1. Listed \subseteq Index /\ meta.pages = Listed /\ meta.rec = rec /\ MetadataIsTrue
  BY PagesInIndex DEF PoolInv, FilesInv, Listed
<1>2. ASSUME NEW i \in Listed PROVE <<"page", i>> \in File /\ out[<<"page", i>>] = Own
  <2>1. <<"page", i>> \in File /\ out[<<"page", i>>] \in Content
    BY <1>1, Files DEF DataTypes
  <2>2. out[<<"page", i>>] # Absent
    BY <1>1 DEF MetadataIsTrue, Done
  <2>3. out[<<"page", i>>] # Earlier /\ out[<<"page", i>>] # Torn
    BY <1>1, <2>1 DEF OwnInv
  <2> QED
    BY <2>1, <2>2, <2>3 DEF Content
<1>3. ASSUME NEW i \in Listed, NEW k \in Derivative, rec[i][k] # Absent
      PROVE  <<k, i>> \in File /\ out[<<k, i>>] = Own
  <2>1. rec[i][k] = Own
    BY <1>1, <1>3 DEF DataTypes
  <2>2. out[<<k, i>>] = rec[i][k]
    BY <1>1, <1>3 DEF MetadataIsTrue, Done
  <2> QED
    BY <1>1, <2>1, <2>2, Files
<1>4. ASSUME Exists(Document) PROVE Document \in File /\ out[Document] \in {Own, Torn}
  BY <1>4, Files DEF Exists, DataTypes, OwnInv, Content
<1>5. ASSUME NEW f \in Derivative \X Listed, rec[f[2]][f[1]] # Absent
      PROVE  f \in File /\ out[f] = Own
  <2>1. PICK k \in Derivative, i \in Listed : f = <<k, i>>
    OBVIOUS
  <2> QED
    BY <1>3, <1>5, <2>1
<1> QED
  BY <1>2, <1>4, <1>5 DEF Declared

LEMMA OwnNext ==
  /\ PoolInv /\ DataTypes /\ FilesInv /\ ControlInv /\ SuccessInv /\ OwnInv /\ [Next]_vars
  => OwnInv'
<1> SUFFICES ASSUME PoolInv, DataTypes, FilesInv, ControlInv, SuccessInv, OwnInv, [Next]_vars
             PROVE  OwnInv'
  OBVIOUS
<1> USE DEF Goto, Throw, callVars, metricVars, pdfVars, poolVars, endVars
<1>1. CASE BuildConverter \/ Stat \/ Detect \/ Reject \/ DetectRaises \/ Export \/ ExportRaises
  BY <1>1, OwnFrame DEF BuildConverter, Stat, Detect, Reject, DetectRaises, Export, ExportRaises
<1>2. CASE SandboxUnavailable
  BY <1>2 DEF SandboxUnavailable, OwnInv, DeclaredIsOwn
<1>3. CASE ReadPdf \/ ReadPdfRaises \/ Measure \/ TooLarge
  BY <1>3, OwnFrame DEF ReadPdf, ReadPdfRaises, Measure, TooLarge
<1>4. CASE Rasterize \/ RasterizeRaises
  <2>1. PICK some \in SUBSET Pages : PagesOnDisk(some)
    BY <1>4 DEF Rasterize, RasterizeRaises
  <2>2. \A f \in File : out'[f] \in {out[f], Own}
    BY <2>1 DEF PagesOnDisk
  <2> QED
    BY <1>4, <2>2, OwnFrame, Files DEF Rasterize, RasterizeRaises
<1>5. ASSUME NEW i \in Pages, PageStep(i) PROVE OwnInv'
  <2>1. pc = "pages" /\ UNCHANGED <<caller, declared>>
    BY <1>5, PageStepEffect, PageStepFrame
  <2>2. \A j \in Index : out'[<<"page", j>>] = out[<<"page", j>>]
    <3>1. page[i] \in Hashed => RecTrue(i)
      BY <2>1 DEF FilesInv
    <3> QED
      BY <1>5, <3>1, PageStepData DEF OthersKept
  <2> QED
    BY <1>5, <2>1, <2>2, PageStepOwn, OwnFrame
<1>6. CASE CancelPages \/ PagesRaise \/ PagesDone
  BY <1>6, OwnFrame DEF CancelPages, PageFrame, PagesRaise, PagesDone
<1>7. CASE DeleteBlanks \/ DeleteRaises
  <2>1. PICK files : Without(files)
    BY <1>7 DEF DeleteBlanks, DeleteRaises
  <2>2. \A f \in File : out'[f] \in {out[f], Absent}
    BY <2>1, DeletedFiles
  <2> QED
    BY <1>7, <2>2, OwnFrame, Files DEF DeleteBlanks, DeleteRaises
<1>8. CASE OpenMetadata \/ ReadInputRaises \/ WriteMetadata \/ WriteRaises
  BY <1>8, OwnFrame DEF OpenMetadata, ReadInputRaises, WriteMetadata, WriteRaises
<1>9. CASE CopyPdf \/ CopyFails
  <2>1. \A f \in File : out'[f] \in {out[f], Own, Torn} /\ (f # Document => out'[f] = out[f])
    BY <1>9, Files DEF CopyPdf, CopyFails, DataTypes
  <2>2. \A i \in Index : <<"page", i>> \in File /\ <<"page", i>> # Document
    BY Files DEF Document
  <2> QED
    BY <1>9, <2>1, <2>2, OwnFrame DEF CopyPdf, CopyFails
<1>10. CASE RemoveScratch \/ Count
  BY <1>10, OwnFrame DEF RemoveScratch, Count
<1>11. CASE Return
  <2>1. pc = "return" /\ UNCHANGED <<caller, out>>
        /\ declared' = IF caller = "detonate" /\ raised = None THEN Declared ELSE {}
    BY <1>11 DEF Return
  <2>2. CASE caller = "detonate" /\ raised = None
    <3>1. Done
      BY <2>1, <2>2 DEF SuccessInv
    <3> QED
      BY <2>1, <2>2, <3>1, <1>11, DeclaredFiles DEF OwnInv, DeclaredIsOwn, Return
  <2>3. CASE ~(caller = "detonate" /\ raised = None)
    BY <1>11, <2>1, <2>3 DEF OwnInv, DeclaredIsOwn, Return
  <2> QED
    BY <2>2, <2>3
<1>12. CASE Kill
  BY <1>12 DEF Kill, OwnInv, DeclaredIsOwn
<1>13. CASE UNCHANGED vars
  BY <1>13 DEF vars, OwnInv, DeclaredIsOwn
<1> QED
  BY <1>1, <1>2, <1>3, <1>4, <1>5, <1>6, <1>7, <1>8, <1>9, <1>10, <1>11, <1>12, <1>13
  DEF Next, Step

\* What detonate hands to its host to be sealed is there, and this conversion's: see DeclaredIsOwn.
THEOREM DeclaredOwn == Spec => []DeclaredIsOwn
<1>1. OwnInv => DeclaredIsOwn
  BY DEF OwnInv
<1> QED
  BY <1>1, ControlInit, ControlNext, PoolInit, PoolNext, DataInit, FilesInit, FilesNext,
     SuccessInit, SuccessNext, OwnInit, OwnNext, PTL DEF Spec

-----------------------------------------------------------------------------
\* The types that the invariants above do not state.
OtherTypes ==
    /\ caller \in {"cli", "detonate"} /\ pc \in Stages /\ raised \in Exceptions \cup {None}
    /\ total \in 0 .. MaxTotal /\ workers \in 1 .. MaxWorkers
    /\ verdict \in Verdicts

Flags == skipBlanks \in BOOLEAN /\ scratch \in BOOLEAN /\ hasPdf \in BOOLEAN

Outcomes == {"success", "failure", "rejected"}

LEMMA TypesInit == Init => OtherTypes
  BY PipelineAssumption DEF Init, OtherTypes, Stages, None, Verdicts

LEMMA SomePages == 1 .. MaxTotal \subseteq 0 .. MaxTotal
  BY PipelineAssumption

LEMMA TypesNext == PoolInv /\ DataTypes /\ OtherTypes /\ [Next]_vars => OtherTypes'
<1> SUFFICES ASSUME PoolInv, DataTypes, OtherTypes, [Next]_vars PROVE OtherTypes'
  OBVIOUS
<1> USE DEF OtherTypes, Stages, Exceptions, ClippyShotErrors, StageErrors, Verdicts, None,
        Goto, Throw, Tally, callVars, metricVars, pdfVars, poolVars, endVars
<1>1. CASE BuildConverter \/ SandboxUnavailable \/ Stat \/ Detect \/ Reject \/ DetectRaises
  BY <1>1 DEF BuildConverter, SandboxUnavailable, Stat, Detect, Reject, DetectRaises
<1>2. CASE Export \/ ExportRaises \/ ReadPdfRaises
  BY <1>2 DEF Export, ExportRaises, ReadPdfRaises
<1>3. CASE ReadPdf
  <2>1. total' \in 0 .. MaxTotal
    BY <1>3, SomePages DEF ReadPdf
  <2> QED
    BY <1>3, <2>1 DEF ReadPdf
<1>4. CASE Rasterize \/ RasterizeRaises \/ Measure \/ TooLarge
  BY <1>4 DEF Rasterize, RasterizeRaises, Measure, TooLarge
<1>5. ASSUME NEW i \in Pages, PageStep(i) PROVE OtherTypes'
  BY <1>5, PageStepFrame
<1>6. CASE CancelPages \/ PagesRaise \/ PagesDone
  BY <1>6 DEF CancelPages, PageFrame, PagesRaise, PagesDone
<1>7. CASE DeleteBlanks \/ DeleteRaises \/ OpenMetadata \/ ReadInputRaises
  BY <1>7 DEF DeleteBlanks, DeleteRaises, OpenMetadata, ReadInputRaises
<1>8. CASE WriteMetadata \/ WriteRaises \/ CopyPdf \/ CopyFails \/ RemoveScratch
  BY <1>8 DEF WriteMetadata, WriteRaises, CopyPdf, CopyFails, RemoveScratch
<1>9. CASE Count
  BY <1>9 DEF Count
<1>10. CASE Return
  BY <1>10 DEF Return, ExitCode, Status
<1>11. CASE Kill
  BY <1>11 DEF Kill
<1>12. CASE UNCHANGED vars
  <2>1. UNCHANGED <<caller, pc, raised, total, workers, verdict>>
    BY <1>12 DEF vars
  <2> QED
    BY <2>1
<1> QED
  BY <1>1, <1>2, <1>3, <1>4, <1>5, <1>6, <1>7, <1>8, <1>9, <1>10, <1>11, <1>12 DEF Next, Step

LEMMA FlagsInit == Init => Flags
  BY DEF Init, Flags

LEMMA FlagsNext == Flags /\ [Next]_vars => Flags'
<1> SUFFICES ASSUME Flags, [Next]_vars PROVE Flags'
  OBVIOUS
<1> USE DEF callVars, metricVars, pdfVars, poolVars, endVars
<1>1. /\ skipBlanks' = skipBlanks
      /\ scratch' = TRUE \/ scratch' = FALSE \/ scratch' = scratch
      /\ hasPdf' = TRUE \/ hasPdf' = hasPdf
  <2>1. CASE BuildConverter \/ SandboxUnavailable \/ Stat \/ Detect \/ Reject \/ DetectRaises
    BY <2>1 DEF BuildConverter, SandboxUnavailable, Stat, Detect, Reject, DetectRaises
  <2>2. CASE Export \/ ExportRaises \/ ReadPdf \/ ReadPdfRaises
    BY <2>2 DEF Export, ExportRaises, ReadPdf, ReadPdfRaises
  <2>3. CASE Rasterize \/ RasterizeRaises \/ Measure \/ TooLarge
    BY <2>3 DEF Rasterize, RasterizeRaises, Measure, TooLarge
  <2>4. ASSUME NEW i \in Pages, PageStep(i) PROVE UNCHANGED <<skipBlanks, scratch, hasPdf>>
    BY <2>4, PageStepFrame
  <2>5. CASE CancelPages \/ PagesRaise \/ PagesDone
    BY <2>5 DEF CancelPages, PageFrame, PagesRaise, PagesDone
  <2>6. CASE DeleteBlanks \/ DeleteRaises \/ OpenMetadata \/ ReadInputRaises
    BY <2>6 DEF DeleteBlanks, DeleteRaises, OpenMetadata, ReadInputRaises
  <2>7. CASE WriteMetadata \/ WriteRaises \/ CopyPdf \/ CopyFails \/ RemoveScratch
    BY <2>7 DEF WriteMetadata, WriteRaises, CopyPdf, CopyFails, RemoveScratch
  <2>8. CASE Count \/ Return \/ Kill
    BY <2>8 DEF Count, Return, Kill
  <2>9. CASE UNCHANGED vars
    BY <2>9 DEF vars
  <2> QED
    BY <2>1, <2>2, <2>3, <2>4, <2>5, <2>6, <2>7, <2>8, <2>9 DEF Next, Step
<1> QED
  BY <1>1, Zenon DEF Flags

LEMMA OutcomesInit == Init => counted \in Seq(Outcomes)
  BY DEF Init

LEMMA OutcomesNext == counted \in Seq(Outcomes) /\ [Next]_vars => counted' \in Seq(Outcomes)
<1> SUFFICES ASSUME counted \in Seq(Outcomes), [Next]_vars PROVE counted' \in Seq(Outcomes)
  OBVIOUS
<1> USE DEF callVars, metricVars, pdfVars, poolVars, endVars
<1>1. counted' = counted \/ \E o \in Outcomes : Tally(o)
  <2>1. CASE BuildConverter \/ SandboxUnavailable \/ Stat \/ Detect \/ Reject \/ DetectRaises
    BY <2>1 DEF BuildConverter, SandboxUnavailable, Stat, Detect, Reject, DetectRaises, Outcomes
  <2>2. CASE Export \/ ExportRaises \/ ReadPdf \/ ReadPdfRaises
    BY <2>2 DEF Export, ExportRaises, ReadPdf, ReadPdfRaises
  <2>3. CASE Rasterize \/ RasterizeRaises \/ Measure \/ TooLarge
    BY <2>3 DEF Rasterize, RasterizeRaises, Measure, TooLarge
  <2>4. ASSUME NEW i \in Pages, PageStep(i) PROVE UNCHANGED counted
    BY <2>4, PageStepFrame
  <2>5. CASE CancelPages \/ PagesRaise \/ PagesDone
    BY <2>5 DEF CancelPages, PageFrame, PagesRaise, PagesDone
  <2>6. CASE DeleteBlanks \/ DeleteRaises \/ OpenMetadata \/ ReadInputRaises
    BY <2>6 DEF DeleteBlanks, DeleteRaises, OpenMetadata, ReadInputRaises
  <2>7. CASE WriteMetadata \/ WriteRaises \/ CopyPdf \/ CopyFails \/ RemoveScratch
    BY <2>7 DEF WriteMetadata, WriteRaises, CopyPdf, CopyFails, RemoveScratch
  <2>8. CASE Count \/ Return \/ Kill
    BY <2>8 DEF Count, Return, Kill, Outcomes
  <2>9. CASE UNCHANGED vars
    BY <2>9 DEF vars
  <2> QED
    BY <2>1, <2>2, <2>3, <2>4, <2>5, <2>6, <2>7, <2>8, <2>9 DEF Next, Step
<1> QED
  BY <1>1 DEF Tally

\* The types, for every value of the constants: see TypeOK.
THEOREM TypeCorrect == Spec => []TypeOK
<1> DEFINE Inv == /\ ControlInv /\ PoolInv /\ DataTypes /\ FilesInv /\ SuccessInv /\ OwnInv
                  /\ OtherTypes /\ Flags /\ counted \in Seq(Outcomes)
<1>1. Init => Inv
  BY ControlInit, PoolInit, DataInit, FilesInit, SuccessInit, OwnInit, TypesInit, FlagsInit,
     OutcomesInit
<1>2. Inv /\ [Next]_vars => Inv'
  BY ControlNext, PoolNext, FilesNext, SuccessNext, OwnNext, TypesNext, FlagsNext, OutcomesNext
<1>3. Inv => TypeOK
  <2> SUFFICES ASSUME Inv PROVE TypeOK
    OBVIOUS
  <2>1. gauge \in Nat
    BY DEF ControlInv, GaugeIsExact
  <2> QED
    BY <2>1, Zenon DEF TypeOK, PoolInv, DataTypes, OtherTypes, Flags, Outcomes, OwnInv
<1> QED
  BY <1>1, <1>2, <1>3, PTL DEF Spec
-----------------------------------------------------------------------------
(* The refinement of PublishedResult.                                      *)

IInv == PoolInv /\ DataTypes /\ FilesInv /\ ControlInv /\ SuccessInv /\ OwnInv

LEMMA Inductive == Spec => []IInv
<1>1. Init => IInv
  BY ControlInit, PoolInit, DataInit, FilesInit, SuccessInit, OwnInit DEF IInv
<1>2. IInv /\ [Next]_vars => IInv'
  BY ControlNext, PoolNext, FilesNext, SuccessNext, OwnNext DEF IInv
<1> QED
  BY <1>1, <1>2, PTL DEF Spec

\* The names of a result are files of the directory, and its records' contents are kept.
LEMMA NamedFiles ==
  ASSUME DataTypes, NEW f \in Named
  PROVE  /\ Published
         /\ \/ \E i \in meta.pages : i \in Index /\ f = <<"page", i>>
            \/ \E i \in meta.pages, k \in Derivative :
                  i \in Index /\ f = <<k, i>> /\ meta.rec[i][k] # Absent
         /\ f \in File
<1>1. Published /\ meta.pages \subseteq Index
  BY DEF Named, DataTypes, Metadata
<1>2. CASE f \in {<<"page", i>> : i \in meta.pages}
  BY <1>1, <1>2, Files
<1>3. CASE f \in {g \in Derivative \X meta.pages : meta.rec[g[2]][g[1]] # Absent}
  <2>1. PICK k \in Derivative, i \in meta.pages : f = <<k, i>> /\ meta.rec[i][k] # Absent
    BY <1>3
  <2> QED
    BY <1>1, <2>1, Files
<1> QED
  BY <1>1, <1>2, <1>3 DEF Named

\* Before the metadata is whole a reader sees no result.
LEMMA Unpublished ==
  ASSUME ~Published
  PROVE  Published = FALSE /\ AsListed = {} /\ AsShown = {}
  BY DEF Published, Named, AsListed, AsShown

\* A step that leaves the metadata, and what it names, as they are leaves the result.
LEMMA ResultKept ==
  ASSUME DataTypes, UNCHANGED meta,
         Published => \A i \in Index :
             /\ out'[<<"page", i>>] = out[<<"page", i>>]
             /\ \A k \in Derivative : out'[<<k, i>>] = out[<<k, i>>]
  PROVE  UNCHANGED <<Published, AsListed, AsShown>>
<1>1. Published' = Published /\ Named' = Named
  BY DEF Published, Named
<1>2. AsListed' = AsListed
  BY <1>1 DEF AsListed
<1>3. \A f \in Named : out'[f] = out[f]
  BY NamedFiles
<1>4. AsShown' = AsShown
  BY <1>1, <1>3 DEF AsShown
<1> QED
  BY <1>1, <1>2, <1>4

\* Until the caller answers, nobody was told anything.
LEMMA StillPending ==
  ASSUME ControlInv, pc # "over"
  PROVE  verdict = None /\ Told = "none"
  BY DEF ControlInv, Told, None

\* A step within the conversion that does not touch the result is a stutter.
LEMMA ResultStutters ==
  ASSUME DataTypes, UNCHANGED <<meta, verdict>>,
         Published => \A i \in Index :
             /\ out'[<<"page", i>>] = out[<<"page", i>>]
             /\ \A k \in Derivative : out'[<<k, i>>] = out[<<k, i>>]
  PROVE  UNCHANGED Result!vars
  BY ResultKept DEF Result!vars, Result!resultVars, Told

\* WriteMetadata is the step that publishes: what it lists is kept on disk, and never torn.
LEMMA WritePublishes ==
  ASSUME IInv, WriteMetadata
  PROVE  Result!Publish
<1>1. /\ pc = "writing" /\ UNCHANGED <<rec, out, verdict>>
      /\ meta' = MetadataOf(Own, TRUE, Listed, rec)
  BY DEF WriteMetadata, Goto, poolVars, endVars
<1>2. ~Published /\ verdict = None /\ Told = "none" /\ KeptTrue /\ Listed \subseteq Index
  BY <1>1, StillPending, PagesInIndex
  DEF IInv, FilesInv, Published, Done, PoolInv, Listed
<1>3. Listed \in SUBSET Index /\ rec \in [Index -> Record]
  BY <1>2 DEF IInv, DataTypes
<1>4. meta'.of = Own /\ meta'.whole = TRUE /\ meta'.pages = Listed /\ meta'.rec = rec
  <2>1. MetadataOf(Own, TRUE, Listed, rec).whole = TRUE
    BY DEF MetadataOf
  <2> QED
    BY <1>1, <1>3, <2>1 DEF MetadataOf, Metadata
<1>5. Published' = TRUE
  BY <1>4 DEF Published
<1>6. DataTypes'
  BY <1>1, WriteMetadataKeeps DEF IInv, DataTypes
<1>7. ASSUME NEW f \in Named'
      PROVE  f \in File /\ rec[f[2]][f[1]] = out[f] /\ out[f] \in {Own, Earlier}
  <2>1. \/ \E i \in Listed : f = <<"page", i>>
        \/ \E i \in Listed, k \in Derivative : f = <<k, i>> /\ rec[i][k] # Absent
    BY <1>4, <1>5 DEF Named
  <2>2. CASE \E i \in Listed : f = <<"page", i>>
    <3>1. PICK i \in Listed : f = <<"page", i>>
      BY <2>2
    <3>2. i \in Index /\ f \in File /\ out[f] \in Content /\ out[f] # Torn
      BY <1>2, <3>1, Files DEF IInv, DataTypes, OwnInv
    <3>3. rec[i].page = out[f] /\ rec[i].page # Absent
      BY <1>2, <3>1 DEF KeptTrue, RecTrue
    <3> QED
      BY <3>1, <3>2, <3>3 DEF Content
  <2>3. CASE \E i \in Listed, k \in Derivative : f = <<k, i>> /\ rec[i][k] # Absent
    <3>1. PICK i \in Listed, k \in Derivative : f = <<k, i>> /\ rec[i][k] # Absent
      BY <2>3
    <3>2. i \in Index /\ f \in File /\ rec[i][k] = Own
      BY <1>2, <3>1, Files DEF IInv, DataTypes
    <3>3. out[f] = rec[i][k]
      BY <1>2, <3>1 DEF KeptTrue, RecTrue
    <3> QED
      BY <3>1, <3>2, <3>3
  <2> QED
    BY <2>1, <2>2, <2>3
<1>8. AsListed' = {<<f, rec[f[2]][f[1]]>> : f \in Named'} /\ AsShown' = {<<f, out[f]>> : f \in Named'}
  BY <1>1, <1>4 DEF AsListed, AsShown
<1>9. AsListed' = AsShown' /\ AsShown' \in SUBSET (File \X {Own, Earlier})
  BY <1>7, <1>8
<1>10. UNCHANGED Told
  BY <1>1 DEF Told
<1> QED
  BY <1>2, <1>5, <1>9, <1>10, Unpublished DEF Result!Publish, Result!Pending

LEMMA StepImplementsResult == IInv /\ IInv' /\ [Next]_vars => [Result!Next]_(Result!vars)
<1> SUFFICES ASSUME IInv, IInv', [Next]_vars PROVE Result!Next \/ UNCHANGED Result!vars
  OBVIOUS
<1>a. DataTypes /\ ControlInv /\ PoolInv /\ FilesInv /\ SuccessInv
  BY DEF IInv
<1>b. pc \notin Written => ~Published
  BY <1>a DEF FilesInv, Published
<1>c. pc \in {"metadata", "writing"} => ~Published
  BY <1>a DEF FilesInv, Published, Done, Written
<1> USE DEF Goto, Throw, callVars, metricVars, pdfVars, poolVars, endVars
<1>1. CASE BuildConverter \/ Stat \/ Detect \/ Reject \/ DetectRaises
  BY <1>1, <1>a, ResultStutters
  DEF BuildConverter, Stat, Detect, Reject, DetectRaises
<1>2. CASE Export \/ ExportRaises \/ ReadPdf \/ ReadPdfRaises \/ Measure \/ TooLarge
  BY <1>2, <1>a, ResultStutters
  DEF Export, ExportRaises, ReadPdf, ReadPdfRaises, Measure, TooLarge
<1>3. CASE Rasterize \/ RasterizeRaises
  BY <1>3, <1>a, <1>b, ResultStutters DEF Rasterize, RasterizeRaises, Written
<1>4. ASSUME NEW i \in Pages, PageStep(i) PROVE UNCHANGED Result!vars
  BY <1>4, <1>a, <1>b, PageStepFrame, PageStepEffect, ResultStutters DEF Written
<1>5. CASE CancelPages \/ PagesRaise \/ PagesDone
  BY <1>5, <1>a, ResultStutters DEF CancelPages, PageFrame, PagesRaise, PagesDone
<1>6. CASE DeleteBlanks \/ DeleteRaises \/ ReadInputRaises \/ WriteRaises
  BY <1>6, <1>a, <1>b, ResultStutters
  DEF DeleteBlanks, DeleteRaises, ReadInputRaises, WriteRaises, Written
<1>7. CASE OpenMetadata
  <2>1. ~Published /\ UNCHANGED verdict /\ meta' = MetadataOf(Own, FALSE, {}, NoRecords)
    BY <1>7, <1>c DEF OpenMetadata
  <2>2. ~Published'
    BY <2>1, EmptyRecords, MetadataTyped DEF Published
  <2>3. Published' = FALSE /\ AsListed' = {} /\ AsShown' = {}
    BY <2>2 DEF Published, Named, AsListed, AsShown
  <2>4. UNCHANGED Told
    BY <2>1 DEF Told
  <2> QED
    BY <2>1, <2>3, <2>4, Unpublished DEF Result!vars, Result!resultVars
<1>8. CASE WriteMetadata
  BY <1>8, WritePublishes DEF Result!Next
<1>9. CASE CopyPdf \/ CopyFails
  <2>1. \A f \in File : f # Document => out'[f] = out[f]
    BY <1>9, <1>a, Files DEF CopyPdf, CopyFails, DataTypes
  <2>2. \A i \in Index : <<"page", i>> # Document /\ \A k \in Derivative : <<k, i>> # Document
    BY DEF Document, Derivative
  <2> QED
    BY <1>9, <1>a, <2>1, <2>2, Files, ResultStutters DEF CopyPdf, CopyFails
<1>10. CASE RemoveScratch \/ Count
  BY <1>10, <1>a, ResultStutters DEF RemoveScratch, Count
<1>11. CASE SandboxUnavailable \/ Return \/ Kill
  <2>1. pc # "over" /\ UNCHANGED <<meta, out>>
    <3>1. CASE SandboxUnavailable
      BY <3>1 DEF SandboxUnavailable
    <3>2. CASE Return
      BY <3>2 DEF Return
    <3>3. CASE Kill
      BY <3>3 DEF Kill
    <3> QED
      BY <1>11, <3>1, <3>2, <3>3
  <2>2. UNCHANGED Result!resultVars
    BY <1>a, <2>1, ResultKept DEF Result!resultVars
  <2>3. Told = "none"
    BY <1>a, <2>1, StillPending
  <2>4. CASE SandboxUnavailable
    <3>1. ~Published /\ Told' = "failure"
      BY <1>b, <2>4 DEF SandboxUnavailable, Written, Told, None
    <3> QED
      BY <2>2, <2>3, <3>1 DEF Result!Next, Result!Fail, Result!Answer, Result!Pending
  <2>5. CASE Return
    <3>1. /\ Published <=> raised = None
          /\ verdict' = IF caller = "cli" THEN ExitCode ELSE Status
      <4>1. pc = "return" /\ verdict' = IF caller = "cli" THEN ExitCode ELSE Status
        BY <2>5, Zenon DEF Return
      <4> QED
        BY <1>a, <4>1 DEF SuccessInv, Done, Published
    <3>2. Told' = IF raised = None THEN "success" ELSE "failure"
      BY <3>1 DEF ExitCode, Status, Told, None
    <3> QED
      BY <2>2, <2>3, <3>1, <3>2
      DEF Result!Next, Result!Succeed, Result!Fail, Result!Answer, Result!Pending
  <2>6. CASE Kill
    <3>1. Told' = "killed"
      BY <2>6 DEF Kill, Told, None
    <3> QED
      BY <2>2, <2>3, <3>1 DEF Result!Next, Result!Die, Result!Answer, Result!Pending
  <2> QED
    BY <1>11, <2>4, <2>5, <2>6
<1>12. CASE UNCHANGED vars
  BY <1>12, <1>a, ResultStutters DEF vars
<1> QED
  BY <1>1, <1>2, <1>3, <1>4, <1>5, <1>6, <1>7, <1>8, <1>9, <1>10, <1>11, <1>12 DEF Next, Step

\* A conversion, with its threads, its error paths and its death at any step, shows its reader
\* and tells its caller what PublishedResult promises: see ImplementsResult.
THEOREM PipelineImplementsResult == Spec => ImplementsResult
<1>1. Init => Result!Init
  <2> SUFFICES ASSUME Init PROVE Result!Init
    OBVIOUS
  <2>1. ~Published /\ Told = "none"
    BY FilesInit DEF Init, FilesInv, Published, Written, Told, None
  <2> QED
    BY <2>1, Unpublished DEF Result!Init
<1> QED
  BY <1>1, Inductive, StepImplementsResult, PTL DEF Spec, ImplementsResult, Result!Spec

-----------------------------------------------------------------------------
\* What follows of the abstract specification alone, for every conversion: a result that was
\* published stays as it is, whatever else the stages do before the conversion ends.
THEOREM ResultStaysFinal == Spec => Result!ResultIsFinal
<1>1. [Result!Next]_(Result!vars) => [Published => UNCHANGED Result!resultVars]_(Result!vars)
  BY DEF Result!Next, Result!Publish, Result!Succeed, Result!Fail, Result!Die, Result!Answer,
     Result!vars
<1> QED
  BY <1>1, PipelineImplementsResult, PTL DEF ImplementsResult, Result!Spec, Result!ResultIsFinal

\* At every moment what is listed is on disk as it is listed, and the answer is true of it.
THEOREM ResultStaysComplete == Spec => []Result!ResultIsComplete
<1>1. Result!Init => Result!ResultIsComplete
  BY DEF Result!Init, Result!ResultIsComplete
<1>2. Result!ResultIsComplete /\ [Result!Next]_(Result!vars) => Result!ResultIsComplete'
  BY DEF Result!Next, Result!Publish, Result!Succeed, Result!Fail, Result!Die, Result!Answer,
     Result!Pending, Result!vars, Result!resultVars, Result!ResultIsComplete
<1> QED
  BY <1>1, <1>2, PipelineImplementsResult, PTL DEF ImplementsResult, Result!Spec
=============================================================================
