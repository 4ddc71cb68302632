----------------------------- MODULE Rasterizer -----------------------------
(***************************************************************************)
(* ShardingRasterizer.rasterize: the pages of a PDF are split into runs    *)
(* that clamp to the same dpi, each run into shards, and the shards are    *)
(* rendered by sandboxed processes in one bounded pool, all of which write *)
(* into the output directory.  What they left there is then collected.     *)
(*                                                                         *)
(* Areas are pixel counts at the requested dpi; memory is counted in the   *)
(* same unit (4 bytes each).  The render processes are external: one may   *)
(* be killed or fail after any of its pages, and may leave a partial file  *)
(* under another zero-padding.  The engine's own padding differs from the  *)
(* final page-NNN.png (documents of fewer than 100 pages).                 *)
(***************************************************************************)
EXTENDS Integers, Sequences, FiniteSetsExt

CONSTANTS
    Docs,          \* the documents: the area of each page, in order
    Dpi, MinDpi,   \* the requested dpi, _MIN_DPI
    BudgetPx,      \* max_page_px()
    CpuBudgets,    \* half the CPUs of the hosts considered
    UsablePx,      \* half the worker's memory
    DefaultPeak,   \* _PER_PAGE_PEAK_MB
    Ceiling,       \* _ABSOLUTE_PAGE_OP_CEILING
    MaxStrays,     \* bound on partial files
    Earlier        \* page files an earlier run may have left in the directory

MinPagesForSharding == 4
Largest(d) == Max({d[p] : p \in DOMAIN d})

Padding == {"engine", "other", "final"}

\* A page is at most 14400 pt a side (pdfium), 198 MB at 36 dpi: below DefaultPeak.
\* An earlier page may be a smaller file than this run's, as large (2) or larger.
ASSUME RasterizerAssumption ==
    /\ Dpi \in Nat /\ MinDpi \in 1 .. Dpi
    /\ \A c \in {BudgetPx, UsablePx, DefaultPeak, Ceiling} \cup CpuBudgets : c \in Nat \ {0}
    /\ MaxStrays \in Nat
    /\ \A d \in Docs : d \in Seq(Nat \ {0}) /\ d # <<>>
    /\ \A d \in Docs : Largest(d) * MinDpi * MinDpi <= DefaultPeak * Dpi * Dpi
    /\ \A f \in Earlier : f \in [page : Nat, padding : Padding, of : {"earlier"},
                                size : 1 .. 3, dpi : Nat]

VARIABLES
    doc, cpuBudget,
    pc,
    ranges,    \* the page ranges planned
    workers,   \* how many of them the pool renders at once
    todo,      \* the ranges submitted and not begun
    active,    \* the ranges being rendered
    written,   \* the last page each range has written
    failed,    \* the ranges whose render raised
    dir,       \* the page files in the output directory
    strays,    \* how many partial files were left
    result     \* what rasterize returned

planVars == <<doc, cpuBudget, ranges, workers>>
vars == <<planVars, pc, todo, active, written, failed, dir, strays, result>>

Pages == DOMAIN doc

-----------------------------------------------------------------------------
(* The plan.                                                               *)

\* The largest dpi at which `area` stays within the budget: int(dpi * sqrt(budget / area)).
ClampedDpi(area) ==
    IF area <= BudgetPx THEN Dpi
    ELSE Max({MinDpi} \cup {d \in 1 .. Dpi : d * d * area <= Dpi * Dpi * BudgetPx})

\* _effective_dpi, of the range's largest page.
EffectiveDpi(first, last) == ClampedDpi(Max({doc[p] : p \in first .. last}))

\* _max_page_peak_mb.
PagePeak(first, last) == Min({BudgetPx, Max({doc[p] : p \in first .. last})})

\* max_concurrent_page_ops.
MaxConcurrentPageOps(peak) == Max({1, Min({Ceiling, UsablePx \div Max({DefaultPeak, peak})})})

\* _dpi_runs: the maximal runs of pages with one clamped dpi.
DpiRuns ==
    {r \in Pages \X Pages :
        /\ r[1] <= r[2]
        /\ \A p \in r[1] .. r[2] : ClampedDpi(doc[p]) = ClampedDpi(doc[r[1]])
        /\ r[1] > 1 => ClampedDpi(doc[r[1] - 1]) # ClampedDpi(doc[r[1]])
        /\ r[2] < Len(doc) => ClampedDpi(doc[r[2] + 1]) # ClampedDpi(doc[r[1]])}

ShardRunDroppingRest(first, last) ==
    LET pages == last - first + 1
        count == Min({cpuBudget, MaxConcurrentPageOps(PagePeak(first, last)), pages})
        each  == pages \div count
    IN  IF pages < MinPagesForSharding \/ count <= 1 THEN {<<first, last>>}
        ELSE {<<first + i * each, first + (i + 1) * each - 1>> : i \in 0 .. count - 1}

\* _shard_run: even shards, the last of which takes the rest.
ShardRun(first, last) ==
    LET pages == last - first + 1
        count == Min({cpuBudget, MaxConcurrentPageOps(PagePeak(first, last)), pages})
        each  == pages \div count
    IN  IF pages < MinPagesForSharding \/ count <= 1 THEN {<<first, last>>}
        ELSE {<<first + i * each,
                IF i = count - 1 THEN last ELSE first + (i + 1) * each - 1>> :
                    i \in 0 .. count - 1}

Ranges == UNION {ShardRun(r[1], r[2]) : r \in DpiRuns}

WorkersOfCpus(rs) == Min({cpuBudget, Cardinality(rs)})

\* One bound for the whole document: renders of different runs go on at the same time.
Workers(rs) ==
    Min({cpuBudget, MaxConcurrentPageOps(PagePeak(1, Len(doc))), Cardinality(rs)})

-----------------------------------------------------------------------------
(* The output directory.  A file is named by its page and its padding.     *)

\* `of`: this run's complete render, a partial one, or a page of an earlier run.
File(p, padding, of, size, dpi) ==
    [page |-> p, padding |-> padding, of |-> of, size |-> size, dpi |-> dpi]

Put(f) == {g \in dir : <<g.page, g.padding>> # <<f.page, f.padding>>} \cup {f}

\* Of the files that parse to page p, the largest.
Kept(p) ==
    LET files == {f \in dir : f.page = p}
    IN  CHOOSE f \in files : \A g \in files : g.size <= f.size

TypeOK ==
    /\ doc \in Docs /\ cpuBudget \in CpuBudgets
    /\ pc \in {"plan", "rendering", "done", "raised"}
    /\ \A r \in ranges : r \in Pages \X Pages /\ r[1] <= r[2]
    /\ workers \in Nat
    /\ todo \cup active \cup failed \subseteq ranges
    /\ todo \cap active = {} /\ active \cap failed = {}
    /\ \A r \in active : r \in DOMAIN written /\ written[r] \in r[1] - 1 .. r[2]
    /\ \A f \in dir : f.page \in Nat /\ f.padding \in Padding
    /\ strays \in 0 .. MaxStrays

Init ==
    /\ doc \in Docs /\ cpuBudget \in CpuBudgets
    /\ pc = "plan"
    /\ ranges = {} /\ workers = 0
    /\ todo = {} /\ active = {} /\ failed = {}
    /\ written = <<>>
    /\ dir \in SUBSET Earlier
    /\ strays = 0
    /\ result = {}

-----------------------------------------------------------------------------
Plan ==
    /\ pc = "plan" /\ pc' = "rendering"
    /\ ranges' = Ranges /\ workers' = Workers(ranges')
    /\ todo' = ranges'
    /\ written' = [r \in ranges' |-> r[1] - 1]
    /\ UNCHANGED <<doc, cpuBudget, active, failed, dir, strays, result>>

Serial == workers <= 1

\* The pool takes the ranges in the order they were submitted.
Start(r) ==
    /\ pc = "rendering"
    /\ r \in todo /\ \A q \in todo : r[1] <= q[1]
    /\ Cardinality(active) < Max({1, workers})
    /\ Serial => failed = {}
    /\ todo' = todo \ {r} /\ active' = active \cup {r}
    /\ UNCHANGED <<planVars, pc, written, failed, dir, strays, result>>

\* The render process writes its next page.
WritePage(r) ==
    /\ r \in active /\ written[r] < r[2]
    /\ LET p == written[r] + 1
       IN  dir' = Put(File(p, "engine", "this", 2, EffectiveDpi(r[1], r[2])))
    /\ written' = [written EXCEPT ![r] = @ + 1]
    /\ UNCHANGED <<planVars, pc, todo, active, failed, strays, result>>

LeaveStray(r) ==
    /\ r \in active /\ strays < MaxStrays
    /\ \E p \in r[1] .. r[2] : dir' = Put(File(p, "other", "partial", 1, EffectiveDpi(r[1], r[2])))
    /\ strays' = strays + 1
    /\ UNCHANGED <<planVars, pc, todo, active, written, failed, result>>

Finish(r) ==
    /\ r \in active /\ written[r] = r[2]
    /\ active' = active \ {r}
    /\ UNCHANGED <<planVars, pc, todo, written, failed, dir, strays, result>>

\* Killed at its timeout, or a non-zero exit.
RenderFails(r) ==
    /\ r \in active
    /\ active' = active \ {r} /\ failed' = failed \cup {r}
    /\ UNCHANGED <<planVars, pc, todo, written, dir, strays, result>>

RaiseAfterAll ==
    /\ pc = "rendering" /\ failed # {} /\ active = {}
    /\ todo = {}
    /\ pc' = "raised"
    /\ UNCHANGED <<planVars, todo, active, written, failed, dir, strays, result>>

RaiseAtOnce ==
    /\ pc = "rendering" /\ failed # {}
    /\ pc' = "raised"
    /\ UNCHANGED <<planVars, todo, active, written, failed, dir, strays, result>>

\* The pool reports the first error once every range has ended; the serial loop stops there.
Raise ==
    /\ pc = "rendering" /\ failed # {} /\ active = {}
    /\ Serial \/ todo = {}
    /\ pc' = "raised"
    /\ UNCHANGED <<planVars, todo, active, written, failed, dir, strays, result>>

\* One file is kept for each page and renamed, the others are deleted; the renamed files
\* are the pages, whatever the directory held before.
Collect ==
    /\ pc = "rendering" /\ todo = {} /\ active = {} /\ failed = {}
    /\ result' = {[Kept(p) EXCEPT !.padding = "final"] : p \in {f.page : f \in dir}}
    /\ dir' = result'
    /\ pc' = "done"
    /\ UNCHANGED <<planVars, todo, active, written, failed, strays>>

-----------------------------------------------------------------------------
RangeStep(r) == Start(r) \/ WritePage(r) \/ Finish(r) \/ RenderFails(r)

Step ==
    \/ Plan \/ Raise \/ Collect
    \/ \E r \in ranges : RangeStep(r)

Next == Step \/ \E r \in ranges : LeaveStray(r)

Spec == Init /\ [][Next]_vars

\* The pool's threads run, and every render process ends, at the latest at its timeout.
FairSpec == Spec /\ WF_vars(Step)

-----------------------------------------------------------------------------
(* Properties.                                                             *)

\* base.py:394-404 and 40-46: every page of the document is returned exactly once, complete,
\* and at the dpi its own size allows, however the ranges were cut and whatever partial file
\* was left - or it is the page of an earlier run that a reused directory still held, which
\* is kept when it is the larger file.  Nothing else is returned.
ResultIsDocument ==
    pc = "done" =>
        /\ \A p \in Pages : \E f \in result : f.page = p
        /\ \A f, g \in result : f.page = g.page => f = g
        /\ \A f \in result :
            \/ f.of = "earlier"
            \/ f.page \in Pages /\ f = File(f.page, "final", "this", 2, ClampedDpi(doc[f.page]))

Rendered(r) ==
    LET d == EffectiveDpi(r[1], r[2])
    IN  (Max({doc[p] : p \in r[1] .. r[2]}) * d * d) \div (Dpi * Dpi)

\* base.py:349-355: "the memory ceiling has to hold across all of" the concurrent renders,
\* including pages that the floor on the dpi leaves over the pixel budget.
RendersFitMemory ==
    Cardinality(active) > 1 => MapThenSumSet(Rendered, active) <= UsablePx

\* base.py:365-377: when rasterize returns or raises, no render process is still writing
\* into the directory that its caller now reads or reuses.
QuietWhenOver == pc \in {"done", "raised"} => active = {}

\* Whatever fails, rasterize returns or raises.
RasterizeEnds == <>(pc \in {"done", "raised"})

=============================================================================
