# A TLA+ development of clippyshot

clippyshot turns an untrusted office document into page images. A job goes through
detection, an export to PDF by LibreOffice in a sandbox, rasterization by sandboxed
processes, and a pool of page threads that hash, crop and scan each page (QR codes, OCR);
the result is a directory of images and a `metadata.json`. A command line (`cli.py`) runs
one job; an engine (`engine.py`), driven by an external host, runs many on one shared
converter with warm helper processes (a soffice server, a tesserocr helper).

This directory models the parts of that program where steps can meet in an order nobody
wrote a test for: shared helpers, pools, budgets, error paths and files that outlive a step.
Paths below are relative to `src/src/clippyshot/`.

- `tlc -workers 2 -config X.cfg MCY.tla` model-checks an instance (the table below).
- `tlapm YProofs.tla` checks the proofs of `Y`; `WarmOcrProofs` also has those of `OcrHelper`.
- `PROJECT.json` lists the runs, which lines each definition models, for every property a
  plausible bug that violates it, the hazards of the code, and the theorems.

## 1. Inventory

| component | state it keeps | operations | what is hard | what makes it correct |
|---|---|---|---|---|
| **Conversion pipeline** `converter.py`, `cli.py`, `errors.py`, `observability/metrics.py` | the stage, the exception in flight, the page pool and each page's record, the output directory, `pdf_dir`, the metrics | `convert`: detect, export, read, rasterize, measure, process pages, drop blanks, write metadata, copy the PDF, clean up, count; `_convert_cmd`; `detonate`'s answer | a failure in any stage with threads running; a kill; a reused output directory; errors of two kinds (ClippyShot's own, and others) with different exits | whole metadata describes what is on disk; success means its metadata is whole; no thread outlives the pool; exit code, metrics and gauge agree; no intermediate PDF is left |
| **Warm OCR tier** `ocr_warm.py`, `ocr.py`, and the OCR branch of `converter.py` | `_proc`, the pipe, `_lock`, the OCR budget of each job | `start`, `is_ready`, `ocr`, `stop`; `_ocr_time_left`, `_ocr_cold`; inside the helper `_serve`, `_build_api_cache` | one pipe shared by every page thread of every job; late answers, hangs, crashes; a budget that runs while threads queue for the lock; writes without a deadline; a cache at its limit | a page's text is its own; the pipe is quiet between calls; calls are over within the grace past the budget, but for blocked writes; a stopped helper is gone; a warm failure gets a cold attempt; the models kept are the ones used last |
| **LibreOffice runner** `libreoffice/runner.py` | the staging directory of each job; `last_run_sheets`, `last_altchunks`, shared by the jobs | `convert_to_pdf`: rewrites, warm attempt, filter chain with two names each, one deadline | which attempt produced the PDF; a warm export that ends late; attributes read after the call | the PDF is the successful attempt's; an unpacked archive never reaches soffice raw; the fallback is bounded and does not stop early |
| **Warm soffice servers** `libreoffice/uno.py`, `uno_pipe.py`, `_pipe_convert.py` | the process, or nothing for an adopted one | `start`, `is_ready`, `convert`, `stop` | a server somebody else started; a worker killed before its atexit; SIGTERM ignored; an export abandoned by its client | no server is lost; only one's own is signalled; `start` ends |
| **Engine** `engine.py` | `_converter` and its lock, the helpers, the atexit list | `warmup`, `detonate`, `_get_converter`, `_reject_...`, `stop` | concurrent first jobs; a sandbox selection that answers differently each time; a failing build | one converter; at most one process of each helper; no helper outside the sandbox beside a converter that sandboxes each call; all are reaped |
| **Sandbox selection** `sandbox/detect.py`, `nono_wrap.py`, `base.py` | none (a smoketest each time) | `select_sandbox`, `sandboxes_each_call`, `per_call_sandbox_possible` | its answer may flake | in Engine |
| **Rasterizer** `rasterizer/*.py` | the ranges, the pool of renders, the page files | `rasterize`: plan, render, collect | shard arithmetic; concurrent renders in one directory; partial files; memory | the result is the document, page by page, each at its own dpi; renders fit the memory; nothing writes once it is over |
| **Resource limits** `limits.py` | none | parsing, `max_concurrent_page_ops` | zero, limits of the host | in Rasterizer |
| **Page derivatives** `trimmer.py`, `hasher.py` | none | `hash_png_bytes`, `trim_bottom_solid`, `focus_content_solid_bg` | pixel arithmetic | their outcomes are in ConvertPipeline |
| **Detector** `detector.py` | none | `detect` | four corrections of one label, three ways to accept it, gates that must hold whichever way was taken | a package passes its gate under every label; the content decides over the name |
| **Document preparation** `libreoffice/sheet_prep.py`, `mht_unpack.py`, `altchunk.py`, `_safe*.py`, `profile.py` | within a call: the maps of names and addresses, the stacks of inherited style | `unpack_mht`, `_boost_legacy_attrs`; `patch_ooxml_for_print`, `read_sheet_list`, `inspect_altchunks` | names that collide; rewriting what was just rewritten; tags that nothing closes | resources survive; references reach their part; the injected markup keeps style and structure |
| **Sandbox backends** `sandbox/bwrap.py`, `nsjail.py`, `container.py`, `seccomp_denylist.py` | the process tree of a run | `run`, `spawn`, `smoketest` | a deadline with descendants that hold the pipes | what a run says it killed is gone, and it ends |
| **QR scanner** `qr.py` and the QR branch of `converter.py` | a cached probe, `_zxing_json_support_cache` | `scan_qr` | a deadline that must not look like a crash; a probe that fails | a deadline is a clean skip; every scan ends |
| **Host limits and environment, web page, deployment** | none between calls | | | not modelled |

How they interact: `detonate` (Engine) calls `Converter.convert` (ConvertPipeline), which
calls `convert_to_pdf` (LibreOfficeRunner), `rasterize` (Rasterizer) and, per page and from
the threads of a pool, the OCR helper (WarmOcr). The engine hands the same converter, runner
and helpers to every job. Everything else is a return value or an exception; shared memory
is the runner's two attributes, the helper's pipe and lock, and the engine's fields; shared
files are the output directory (pool threads, render processes, an earlier conversion) and a
soffice server's export target.

The hazards this code is exposed to are in `PROJECT.json`, each at its line. Those that no
property covers yet carry the reason.

## 2. Modules

| module | models | variables and the code | actions |
|---|---|---|---|
| `WarmOcr` | the warm tier and the OCR branch | `proc` is `_proc`, `lock` is `_lock`, `reqs`/`resps` are the two pipes, `left[j]` is what is left of the job's OCR deadline, negative past it (`_ocr_time_left()` is its positive part), `blocked[p]` the seconds a call has spent in a write, `pc[p]` is where page thread `p` is in `_process_page_scanners` | the helper's start, take, reply, hang, freeze and exit; a thread's way through pricing, `is_ready()` (two reads), the lock, the timeout priced under it, the write of the request, the answer or its timeout, the quit line and the grace of `stop()`, the cold call; `Tick`, which passes in the writes too |
| `OcrHelper` | `_serve` and `_build_api_cache`, one call at a time | `apis` is the OrderedDict, `inMemory` counts the models in memory, `unended` those of them whose `End()` raised, `usedAt` is history, `toWrite`/`inPipe`/`unread` the chunks of a request before, in and behind the pipe | write a chunk, read one, hit, load on a miss and then each eviction, a language that does not load, the answer; `_readline`'s timeout, then `stop()`'s quit line; hang, stall, death |
| `LibreOfficeRunner` | `convert_to_pdf` for several jobs | `stage` is the staging directory, `attempt`/`trying` the filter and the name, `left` the fallback deadline, `out` who wrote the PDF, `sheets`/`alts` the shared attributes | one per rewrite, per outcome of the warm server and of soffice, per step of the loop, and the converter's reads afterwards |
| `SofficeServer` | `UnoServer` and `SofficePipeServer` under engines that come one after the other | `own` is `_proc`, `victim` the local of `stop()`, `server`/`spawner` the processes of the host, `socketFile` what `_default_socket_check` looks for | boot, adopt, spawn, the three ways out of `_wait_ready`, `stop()` with its grace, rejection, atexit, `Kill`; the servers' own listening, crash and end |
| `SharedConverter` | *abstract*: what `_get_converter` promises | `value`, `got` | build once, take, be refused |
| `Engine` | warmup, first jobs, exit | named after the fields of `ClippyShotEngine`; `running` counts live processes, `reap` is the atexit list | warmup of each helper, `Acquire`, the cold helper, rejection, build, convert, exit |
| `Rasterizer` | `ShardingRasterizer.rasterize` | `ranges`, `todo`, `active`: the plan and the pool; `dir` the page files with name, content, size and dpi | plan, start, write a page, leave a partial file, finish, fail, raise, collect |
| `ConvertPipeline` | `Converter.convert` and its two callers | `pc` the stage, `raised` the exception in flight, `page`/`rec` each page's stage and record, `out` the directory, `meta` the metadata, `gauge`/`counted` the metrics | one per stage and one per way it fails; one per step of `_process_page`; `Kill` |
| `PublishedResult` | *abstract*: what a conversion promises to the reader of its directory | `published`, `listed`, `shown`, `answer` | publish, succeed, fail, die |
| `Detector` | `detect()` | `raw` is `raw_magika_label`, `label` is `magika_label`, `file` what can be read from the file, `verdict` the `DetectedType` | one per correction, in the order of the code, then one per branch of the decision |
| `MhtUnpack` | `unpack_mht` | `usedNames`, `cidMap`, `urlMap`, `rootFound`, `bytesWritten` after the locals; `files` the directory, `links` the references of the page | a part skipped, taken as the page, stored, not writable, or past the caps; the rewriting; the page written |
| `LegacyAttrs` | `_LegacyAttrInjector` | `frames` is the seven parallel stacks, `element` the open elements of the page, `output` those a reader of the result sees; `MayHold` which tag may stand in which | a start tag, an end tag, the style block |
| `Intake` | the three above, composed | | from a file, through the label, to the page of an archive |
| `SandboxRun` | `run()` of the three backends | `alive` the process tree, which holds the pipes; `status` and `result` the return code and the `SandboxResult` | launch, drain, deadline and kill, the second `communicate`; forks and exits |
| `QrScanner` | `scan_qr` in the page threads, on `SandboxRun` | `cache` is `_zxing_json_support_cache`, `record` the page's QR entry | look up, probe, scan, record |

`MC*` modules hold the sets of inputs for TLC, `*Proofs` modules the theorems.
There are two refinements. `ImplementsShared`: `Engine` implements `SharedConverter` under
`value <- converter, got <- got`. `ImplementsResult`: `ConvertPipeline` implements
`PublishedResult`, where a result is published when this conversion's metadata is whole, `listed`
pairs each file it names with the content recorded, `shown` with the content in the directory,
and `answer` is the verdict, of either caller, as success, failure or killed.

A file's content is abstracted to who wrote it (which page, which job, which conversion, which
attempt), a file name or an address to a sequence of tokens, and the resolved style of a tag to
two properties: one of those that end in a `<font>`, and one of those with a tag of their own.
Time is a countdown advanced by `Tick`, which never passes a deadline that is due; where only
the order matters (`OcrHelper`, `SandboxRun`, the warm export) a timeout may fire at any step.

## 3. Runs

| run | instance | distinct states | question |
|---|---|---|---|
| `warm_ocr` | two jobs of one page, two threads each, budget 3 s, grace 1 s | 271,278 | Does text stay paired with its page, is a call over within the grace past its budget but for blocked writes, and is every page recorded unless a write is blocked for ever, when the helper may answer late, hang, freeze, crash or exit at any step? |
| `ocr_helper` | four models, a cache of two, requests of up to three chunks, a pipe of one, five calls | 73,519 | Are the models kept the ones used last, are those in memory bounded, and does a call end unless it is stuck in a write? |
| `runner` | one job, every kind of document, timeout 2 s, warm timeout 1 s | 41,812 | Is the PDF the right attempt's, and is the fallback in time, persistent, and finite? |
| `soffice_server` | two engines in turn, three processes, both transports, ready timeout 2, grace 1 | 18,252 | Is any server lost, or signalled by an engine that did not spawn it, across kills of the engine? |
| `engine` | two jobs, 58 deployments | 60,948 | Are helpers single, boxed and reaped; is the converter shared? |
| `rasterizer` | every mix of page sizes to 5 pages, some to 7; 1–3 CPUs; a page of an earlier run or none | 505,960 | Is the result the document, within memory, and quiet when over? |
| `pipeline` | up to 3 pages of which 2 are rendered, two threads, three leftovers, both callers | 181,621 | Does the metadata tell the truth after any error or kill, do all reports agree, is nothing left, and is a result published once and for good? |
| `intake` | ten labels of Magika, four opinions of libmagic, nine kinds of file, six extensions; archives of up to four parts, two of them stored; pages three elements deep | 174,996 | Does every package pass its gate, do the parts of an archive reach its page, and does the injected markup keep style and structure? |
| `qr` | two threads, three pages, three backends, three readers | 178,054 | Is what was killed gone, and is a deadline recorded as one? |
| `runner_reentrant` | two jobs with workbooks | | *violation*: sheet names of another job |
| `mht_references` | as in `intake` | | *violation*: a reference that is rewritten twice |
| `markup_siblings` | tables whose cells leave out `</p>` | | *violation*: style of one cell in the next |

Bounds, and why they suffice:

- *Jobs, threads, engines*: two of each are enough for the races considered, which are all
  between two parties (a holder and a waiter, a writer and a reader, a killed engine and its
  successor). Three server processes let both engines spawn beside one that was there before.
- *Pages*: one for each of two jobs in `WarmOcr` meet at the lock with a budget each. In
  `Rasterizer`, sharding begins at four pages; five and seven leave a rest. In
  `ConvertPipeline`, two pages give a blank beside an inked one and a page that fails beside
  one in work; a third that is not rendered exercises the page limit. In `QrScanner`, three
  pages let one thread return for a second page while the other still probes.
- *The helper's cache*: with a cache of two, four keys and five calls a hit can fall between
  two evictions in every order. A request of three chunks blocks on a pipe of one.
- *Archives*: two stored parts can collide in name, in location, in the last segment, and with
  the page; a third is stopped by the cap. `ShortArchive` explores tag streams for archives of
  one part only, because the injector reads nothing of the others.
- *Tags*: three open elements hold a container, a decorated one and a tag that is neither. In
  `intake` any tag may stand in any other, which is more than HTML allows; `markup_siblings`
  allows a table of cells with a paragraph each, the least page in which a frame is left over.
- *Time*: budgets of two or three ticks separate "not yet", "due" and "past" for a budget
  and a call's own timeout. The negative part of the fallback deadline is cut at `-Timeout`.
  In `WarmOcr` the seconds past an OCR deadline, and those in a write, are counted to
  `Overtime`, 2: one more than the grace, so that a call past it is told from one within it.
- *Stray files*: `MaxStrays` of one; each stray adds one file that competes with one page.
- The theorems of section 5 hold without these bounds.

The violation runs are disagreements between the code and what its comments say; each finding
quotes the line in `PROJECT.json`:

1. `last_run_sheets` is a shared attribute, read after the call: not reentrant.
2. `_rewrite_html_resource_urls` goes on replacing in what it has just replaced: with two
   locations that end alike, a reference ends as a name nobody wrote (`img.png_1_1`).
3. `handle_endtag` pops the innermost frame whatever it belongs to, so that an end tag left out
   (`<td style="color:red"><p>one</td><td>two</td>`) gives one cell's style to the next.

Further disagreements met while reading or modelling, with no run of their own:

- `is_ready()` reads `_proc` twice without the lock; another thread's `stop()` in between
  raises an `AttributeError` that ends in a scanner error with no cold attempt, where
  `converter.py:439-440` says "never fail the page on a warm error". `WarmOcr` reaches it.
- `_ocr_cold` grants at least one second when the budget is used up. `WarmOcr` reaches it.
- Sheet names are mapped to pages under fallback filters that do not lay out one page per
  sheet. `LibreOfficeRunner` reaches it.
- `CLIPPYSHOT_OCR=on` wants OCR but starts no cold helper. `Engine` reaches it.
- `rasterize` returns page files that an earlier run left, when they are larger.
  `Rasterizer` reaches it; `ResultIsDocument` allows it.
- `ocr_warm.py:287-298` writes the request with no deadline, under the lock: a helper that
  freezes before it has read the line blocks every page. So does `stop()`'s quit line
  (325-330), behind a request that was written but not read, although its docstring (317-320)
  says that "the small quit write can't fill the pipe". `WarmOcr` and `OcrHelper` reach both;
  `EveryPageRecorded` and `CallEndsUnlessStalled` leave out exactly these two writes, and say
  that nothing else keeps a page or a call from ending.
- The timeout priced at `ocr_warm.py:263` is given whole to the read at 301, after the write:
  a slow write takes the call past the deadline by as much, and a read that times out adds the
  grace of `stop()`. `WarmOcr` reaches it; `WarmCallWithinBudget` says that this is all.
- The cache holds `MAX_CACHED_APIS` + 1 models from the load (`ocr_warm.py:366`) to the
  eviction (370), and a model whose `End()` raised is dropped without being freed.
  `OcrHelper` reaches it; `ModelsAreBounded` counts both.
- `_zxing_supports_json` caches a probe that failed, and every later page is scanned in the
  old mode. `QrScanner` reaches it.
- On nsjail a scan's deadline has the exit code 109 or 137, which `qr.py:411` does not know:
  the page is recorded as a scanner error. `DeadlineIsCleanSkip` leaves that backend out.
- `SofficePipeServer` takes the existence of a socket file for readiness: one that a crashed
  server left is adopted. `SofficeServer` reaches it.
- `stop()` of an adopted server does nothing, so a rejected adopted soffice goes on running;
  a server whose engine was killed is not reaped. `SofficeServer` states both as what
  `StopsOnlyItsOwn` and `RunningServerIsHeld` leave open.
- `unpack_mht` ends its walk at a resource past the caps, so a page that comes after is not
  seen and the archive goes to soffice raw. `MhtUnpack` has the step (`CapReached`).
- The comments at `runner.py:587-592`, `converter.py:734-736` and `detector.py:50-53` describe
  older code; `per_call_sandbox_possible` looks on `PATH` only while the backends also try
  default locations; `ocr_timeout_s` below 30 means OCR never runs.

## 4. Fairness

- `WarmOcr`: weak fairness of the engine's start, of each job's begin, of each page thread's
  step (`Prompt`) and of `Tick`. Threads are scheduled by the OS. There is *none* for the
  helper, which may hang or freeze for ever. `Prompt` leaves out a cold process's own exit:
  only its timeout is certain; and a write that may block (`MayBlock`): the request to a frozen
  helper, or the quit line behind a request that was not read. Such a write may end, or last
  for ever, and `EveryPageRecorded` is about the behaviours in which none lasts for ever.
- `OcrHelper`: weak fairness of the client's thread, which includes its timeout, and of the
  helper while it is neither hung nor stalled; none of these failures, and no call, has to
  happen. A write is enabled only while the pipe has room: the call that is stuck there with a
  stalled helper (`Stuck`) is the exception of `CallEndsUnlessStalled`.
- `LibreOfficeRunner`: each job and `Tick`; soffice and the warm server need never end, their
  timeouts end them.
- `SofficeServer`: each engine's thread in `start()` and `stop()`, and `Tick`. A server need
  never listen, nor obey SIGTERM.
- `Engine`: weak fairness of each job's thread. The lock is taken once per job, so weak
  fairness suffices: a waiter cannot be overtaken for ever by finitely many others.
- `Rasterizer`: weak fairness of the whole step; each render has a timeout in the code, and
  stray files are not fair.
- `QrScanner`: each page thread, and each of its runs: time passes, and the kernel ends a
  namespace with its first process. No program has to exit or to stop forking.
- `ConvertPipeline` and `Intake` are checked for safety only: they are sequential but for the
  page pool, which `list(ex.map(...))` joins.

No specification assumes that an external program answers. `CHECK_DEADLOCK FALSE` is set only
where the program ends (a conversion that is over, an engine that exited, a finished run).

## 5. Proofs

Checked by TLAPS for all values of the constants under the named assumptions
(`WarmOcrAssumption`, `OcrHelperAssumption`, `RunnerAssumption`, `SofficeServerAssumption`,
`EngineAssumption`, `RasterizerAssumption`, `PipelineAssumption`, `QrAssumption`,
`SandboxAssumption`; for `Intake`, `DetectorAssumption`, `OpinionAssumption`, `MhtAssumption`,
`TokenAssumption`, `LegacyAttrsAssumption`). Each module but `IntakeProofs` proves its type
invariant with the rest.

**WarmOcr.** `OwnText`, `PipeQuietBetweenCalls`, `WarmCallWithinBudget`, `NoOrphanHelper`,
`ColdAfterWarmFailure`. The text of a page is its own because requests and answers are both
quiet whenever nobody holds the lock, so the first answer read after a request is the answer
to it; that in turn holds because a call that ends without its answer ends by killing the
helper. The inductive invariant states this link for every stage of the holder: what may be in
each pipe, which page the helper works on, and (`BudgetInv`) that the time a call may still
take, the priced timeout while it writes and `timer` while it waits, is within `left` of its
job plus the seconds it was `blocked`, and plus the grace once it stops the helper.

**OcrHelper.** `LeastRecentlyUsed`, `ModelsAreBounded`, and that the model asked for survives
its own eviction. The models in memory are those in the cache and those not ended
(`CacheInv`), and the cache is over its size only between a load and its eviction.
"Least recently used" is not inductive: the cache must be *sorted* by last use, and the call
in flight later than every use so far until its model is taken, so that moving a key to the
end, or appending one, keeps the order, and what falls off the front is the oldest.
`LineInv` says that the line in the pipe is the one the helper waits for.

**LibreOfficeRunner.** `PdfOfWinner`, `UnpackedNeverRaw`, `FallbackInTime`. The invariant is
per job (`JobInv`), and a job's step leaves that of the others alone: which documents take
which path through staging (`Path`), where the chain of filters is (`Chain`), that an unpacked
document is staged under its new name for good (`Unpacked`), that the output directory is
empty while soffice runs (`Output`), and what is left of the deadline when a retry begins
(`Deadline`). The two steps that belong to no job, a late warm export and the clock, are
treated apart.

**SofficeServer.** `RunningServerIsHeld`, `StopsOnlyItsOwn`. The invariant follows the handles:
`_proc` is set only where the engine may have spawned, the local of `stop()` only while it
stops, and both name processes this engine spawned; that a server is never lost follows
because every step that clears a handle either passes it on or ends the process.

**Engine.** `NoBareHelperBesideSandbox`, `OneProcessPerHelper`, `HeldHelpersRun`,
`NoProcessOutlivesEngine`, and the refinement `ImplementsShared`, from which
`JobsShareConverter` follows. The invariant has named parts: who holds the lock and in which
stages (`LockInv`), what exists in each phase of the warmup (`PhaseInv`), what a job was
given (`GotInv`), which processes run for which field (`ProcessInv`), what a built converter
holds (`ConverterInv`). None is inductive alone: a converter is shared because only the
holder of the lock builds, and only where it saw none.

**Rasterizer.** `ResultIsDocument`, `RendersFitMemory` and `QuietWhenOver`, for documents of
any length. The
arithmetic of the shards comes first: the ranges of a plan partition the pages, and each lies
in one run of equal dpi. The invariant then says that a page is written once, by the range it
lies in, at that dpi, and that a range which ended without failing has written all of it; the
collection keeps the larger of two files of one page. That renders fit the memory is a bound on
the pool: the peak of a range is that of its largest page, the workers are at most the memory
divided by the largest peak, so the sum over the ranges at work is at most the quotient times
that peak; a pool of one is the exception the property states.

**ConvertPipeline.** All five safety properties of the run, and the refinement. The invariants, each needing those
before it:

1. `ControlInv`: which exception may be in flight at a stage, and what the metrics have
   counted by then. Gives `VerdictIsCounted` and the gauge's half of `NothingIsLeft`.
2. `ScratchInv`: the stages in which `pdf_dir` may exist. Gives the other half.
3. `PoolInv`: before the pool every page is queued, outside it no page is at work, and the
   count is within the workers (a cardinality argument). Gives `PoolIsQuiet`.
4. `FilesInv`: from the hash on, a page's record agrees with its files; once the blanks are
   gone, the kept records agree and the skipped pages are gone; once the metadata is whole
   it says what the records say. Needs 3, because a thread could otherwise still write.
   Gives `MetadataIsTrue`.
5. `SuccessInv`: past the result, an exception is in flight exactly if the metadata is not
   whole. Gives `MetadataOfSuccess` (stated with the proofs: the run checks it as a part of
   `ImplementsResult`).
6. `OwnInv`: in a new directory every content is this conversion's, and no page image is
   torn. With 4 and 5 gives `DeclaredIsOwn`.

Their conjunction carries `ImplementsResult`: `WriteMetadata` alone publishes (by 4 what it
lists is on disk, by 6 no page of it is torn), no step before it shows a reader anything, the copy of the
PDF after it touches none of the files listed, and the callers' answers follow 5. Two theorems then use
`PublishedResult` alone: a published result is final (`ResultStaysFinal`), and what is listed is
on disk at every moment, with an answer that is true of it (`ResultStaysComplete`).

**QrScanner.** `KilledIsGone` and `DeadlineIsCleanSkip`, for any number of threads. A killed
tree must be known before `run()` returns (`TreesEnd`), and a late run before its exit code is
read (`LateIsKilled`), which needs that a thread's run is where the thread is (`Engaged`).

**Intake.** All six safety properties. The three stages keep an invariant each.

- *Detection* (`DetInv`): what the corrections have established when `detect()` reaches each of
  them (`LabelInv`): the label is Magika's own while it is one only the extension can refine,
  a sniffed web page stays one, and one that begins like RTF has a supported label when the
  decision is taken. Gives `PackagesPassTheGate` and `ContentOverName`.
- *Extraction* (`StoreInv`): no more names are taken than parts walked past, so that a number is
  left for the next (a pigeonhole argument over `Numbers`); each part has its own name, the
  directory holds it there, and `bytesWritten` is the sum of the sizes. Gives `ResourcesSurvive`.
- *References* (`MapsInv`): each map has one entry per key, leads from an address, bare name or id
  to the name of a part that has it, and misses none. From it, with plain names: a key without
  a directory leads to itself, because a number put behind a safe name never gives back the name
  that was asked for (`NumberShows`). The keys before a reference's own are no shorter and stand
  nowhere in it; its own becomes the name; of those after it, the ones that stand in the name
  lead to themselves. Gives `PlainLinksResolve`.
- *Injection* (`AttrInv`): two functions give for every open element where it ends in the output
  and how many frames there are up to it (`Layout`), so that the k-th frame is the k-th open
  container's and the output is the elements with their wrappers between them. Gives
  `TextKeepsItsStyle` and `StructureIsKept`.

What a recursive function of the model computes (`Total`, `ReaderAfter`, `RewriteUrl`) is proved
by exhibiting the function and showing by a least counterexample that it is the only one.

**Only model-checked**: liveness under fairness (`EveryPageRecorded`, `CallEndsUnlessStalled`,
`EveryConversionEnds`, `StartEnds`, `EveryJobEnds`, `RasterizeEnds`, `EveryScanEnds`): the prover
has no rule for it here, nor for ENABLED. Every safety property of a passing run is proved. No
module declares a RECURSIVE operator.

## 6. What is not modelled, and assumptions

*WarmOcr*: the QR branch (independent of it, see `QrScanner`); `stop()` from atexit or a
rejection while pages are in flight; the reader thread that a timed-out call leaves behind on
a dead pipe. A request is written whole or not at all (`OcrHelper` has its chunks), and only a
frozen helper makes a write block for ever. *OcrHelper*: the budget and the lock, which are
`WarmOcr`'s; the images; a helper that obeys SIGTERM late, since the kill follows in any case.

*LibreOfficeRunner*: a label stands for a family of formats; errors of the staging directory's
file system. soffice is taken to leave no PDF when it says a document "could not be loaded". A
warm export may end after its client gave up and overwrite the cold PDF: `PdfOfWinner` speaks
of jobs without such an export. Failures after the PDF are in `ConvertPipeline`.

*SofficeServer*: one address, which is the deployment's default; at most one engine alive at a
time (a worker holds one). The priming conversion changes no state here.

*Engine*: a backend's smoketest may flake at any selection, so the order of candidates shows
only in which may be answered; bwrap and nsjail are alike here; a construction that fails
after the rejection is excluded because the limits are read before; exit only between jobs.

*Rasterizer*: fewer than 100 pages, so that the engine's own zero-padding differs from the
final one; areas in pixels; a page of at most 14400 pt a side; rounding of floats is
ignored; a render that exits 0 has written all its pages.

*ConvertPipeline*: one conversion at a time, in a directory that is empty or holds an earlier
result (`detonate` gets a new one from the host: external). A content is its own hash.
soffice exports at least one page. `rmtree(ignore_errors=True)` is taken to work.
`KeyboardInterrupt`, the pages' warnings, and the flags that make a page worth OCR are left
out. Page files beyond the document's pages are returned by a stale `rasterize` but cut off
by the `zip` with the dimensions. Three behaviours the model shows and the properties allow:
errors that are not ClippyShot's own give exit 4 and no metrics record; after a failed run
in a reused directory the old `metadata.json` stays; a copy of the PDF that fails may leave
a torn `document.pdf`, which `detonate` declares in a result with status ok.

*Detector*: what Magika and libmagic say of a file is free, within the labels of the run; what
a file contains is one of nine kinds, enough to tell each gate and correction apart. A file
does not change while it is read. *MhtUnpack*: tokens are of equal width, no reference has a
key twice, and `cid:` stands at the beginning of a reference. *LegacyAttrs*: attributes that
are not inherited (`bgcolor`) and the parsing of style rules are left out; a reader is taken
to close elements as HTML readers do, the innermost of the name with all that is inside it; a
start tag that would end an open element (a `<p>` in a `<p>`) is kept out by `MayHold`.

*SandboxRun*: the programs; the argument lists, the smoketests and the seccomp program of the
backends. A namespace is taken to end with the process that was started. An OOM kill is not
at the deadline (`_is_deadline_kill` would take it for one).

Left out altogether: image arithmetic (`trimmer.py`, `hasher.py`), whose outcomes are in
`ConvertPipeline`; the rewriting of ZIP and XML (`sheet_prep.py`, `altchunk.py`), whose outcomes
are in `LibreOfficeRunner` and whose correctness is soffice's to judge; host checks, output
formats, the parsers of scanner output, the web page and the deployment files, which keep no
state between calls.

## 7. Plan

Written, in this order: `WarmOcr`, `LibreOfficeRunner`, `Engine` with `SharedConverter`,
`Rasterizer`, `ConvertPipeline` with `PublishedResult`; then `SofficeServer`, `OcrHelper`, `Intake` with its three parts,
`SandboxRun` with `QrScanner`, and the proofs of all of them. To come:

1. An abstract specification of a page's OCR (own text, or a reason), implemented by `WarmOcr`.
2. `LibreOfficeRunner` with its sandbox runs replaced by `SandboxRun`, for the kill of soffice's
   own children.
3. The arithmetic and parsing of `limits.py` as operators checked against reference definitions.
