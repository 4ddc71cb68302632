------------------------------ MODULE WarmOcr ------------------------------
(***************************************************************************)
(* The warm OCR tier: one persistent tesserocr helper process, the client  *)
(* WarmOCR that every page thread of every running job shares, and the OCR *)
(* branch of _process_page_scanners, which tries the helper first and the  *)
(* tesseract command line ("cold") after it.                               *)
(*                                                                         *)
(* The helper is an independent process: it may answer, report an error,   *)
(* hang, exit, or freeze with a request in its stdin.  Time is a countdown *)
(* in whole seconds: each job owns `left`, the seconds to its OCR deadline *)
(* and negative past it, each bounded wait owns `timer`, what is left of   *)
(* its timeout, and each warm call owns `blocked`, the seconds it has      *)
(* spent in a write to the helper, which has no timeout.                   *)
(***************************************************************************)
EXTENDS Integers, Sequences, FiniteSets

CONSTANTS
    Jobs,         \* jobs that share one engine, hence one helper
    PagesOf,      \* how many pages each job renders
    Workers,      \* page threads of one job (_page_scan_workers)
    Budget,       \* options.ocr_timeout_s
    MinCall,      \* _MIN_OCR_CALL_S
    Grace,        \* seconds stop() waits between SIGTERM and SIGKILL
    Overtime,     \* bound: seconds past a deadline, or in a write, that are counted
    NoPage

Page == UNION {{j} \X (1 .. PagesOf[j]) : j \in Jobs}
JobOf(p) == p[1]

ASSUME WarmOcrAssumption ==
    /\ PagesOf \in [Jobs -> Nat] /\ Workers \in Nat \ {0}
    /\ Budget \in Nat /\ MinCall \in Nat \ {0}
    /\ Grace \in Nat /\ Overtime \in Nat
    /\ NoPage \notin Page

VARIABLES
    tier,      \* what the engine made of the helper: it is used iff "warm"
    proc,      \* WarmOCR._proc is not None
    helper,    \* the helper process itself
    working,   \* the page the helper is recognising
    reqs,      \* requests written to the helper's stdin and not yet read
    resps,     \* replies in the helper's stdout and not yet read
    lock,      \* holder of WarmOCR._lock
    begun,     \* jobs whose page pool is running
    left,      \* seconds to each job's OCR deadline, negative past it
    pc,        \* where each page thread is in the OCR branch
    perCall,   \* per_call_timeout; timeout_s once it is priced under the lock
    timer,     \* seconds until the read, the grace or the command line expires
    blocked,   \* seconds the warm call in flight has spent in a write
    text,      \* the page whose text was recorded for this page
    skipped,   \* the "skipped" reason recorded for this page
    fellBack,  \* an ocr_warm_fallback warning was recorded
    coldTried  \* the command line was launched

helperVars == <<tier, proc, helper, working, reqs, resps>>
recordVars == <<text, skipped, fellBack, coldTried>>
vars == <<helperVars, lock, begun, left, pc, perCall, timer, blocked, recordVars>>

HelperAlive == helper \in {"loading", "idle", "busy", "hung", "frozen"}
Timed == {"reading", "stopping", "cli"}
Writing == {"writing", "quitting"}
Calling == {"writing", "reading", "quitting", "stopping"}
Holding == {"locked"} \cup Calling
Active(j) == {p \in Page : JobOf(p) = j /\ pc[p] \notin {"queued", "done"}}
MinOf(a, b) == IF a <= b THEN a ELSE b
AtLeastOne(t) == IF t < 1 THEN 1 ELSE t

HelperTypeOK ==
    /\ tier \in {"unstarted", "starting", "warm", "none"}
    /\ proc \in BOOLEAN
    /\ helper \in {"absent", "loading", "idle", "busy", "hung", "frozen", "exited"}
    /\ working \in Page \cup {NoPage}
    /\ reqs \in Seq(Page)
    /\ resps \in Seq([page : Page, ok : BOOLEAN])

ClockTypeOK ==
    /\ lock \in Page \cup {NoPage}
    /\ begun \in SUBSET Jobs
    /\ left \in [Jobs -> -Overtime .. Budget]
    /\ perCall \in [Page -> 0 .. Budget]
    /\ timer \in [Page -> Nat]
    /\ blocked \in [Page -> 0 .. Overtime]

PageTypeOK ==
    /\ pc \in [Page -> {"queued", "scan", "probe", "poll", "enter", "locked",
                        "writing", "reading", "quitting", "stopping",
                        "cold", "cli", "done"}]
    /\ text \in [Page -> Page \cup {NoPage}]
    /\ skipped \in [Page -> {"none", "not_wanted", "timeout_budget", "no_png",
                             "timeout", "error"}]
    /\ fellBack \in [Page -> BOOLEAN]
    /\ coldTried \in [Page -> BOOLEAN]

TypeOK == HelperTypeOK /\ ClockTypeOK /\ PageTypeOK

Init ==
    /\ tier = "unstarted" /\ proc = FALSE /\ helper = "absent"
    /\ working = NoPage /\ reqs = <<>> /\ resps = <<>>
    /\ lock = NoPage /\ begun = {}
    /\ left = [j \in Jobs |-> Budget]
    /\ pc = [p \in Page |-> "queued"]
    /\ perCall = [p \in Page |-> 0]
    /\ timer = [p \in Page |-> 0]
    /\ blocked = [p \in Page |-> 0]
    /\ text = [p \in Page |-> NoPage]
    /\ skipped = [p \in Page |-> "none"]
    /\ fellBack = [p \in Page |-> FALSE]
    /\ coldTried = [p \in Page |-> FALSE]

-----------------------------------------------------------------------------
(* The engine starts the helper before any job, or goes without one.       *)

\* start(): spawn, then wait for the ready line.
StartHelper ==
    /\ tier = "unstarted"
    /\ tier' = "starting" /\ proc' = TRUE /\ helper' = "loading"
    /\ UNCHANGED <<working, reqs, resps, lock, begun, left, pc, perCall, timer,
                   blocked, recordVars>>

HelperReady ==
    /\ tier = "starting" /\ helper = "loading"
    /\ tier' = "warm" /\ helper' = "idle"
    /\ UNCHANGED <<proc, working, reqs, resps, lock, begun, left, pc, perCall, timer,
                   blocked, recordVars>>

\* No ready line, a bad one, end of file or the ready timeout: stop() and OCRError,
\* and the engine keeps no helper.
StartFails ==
    /\ tier = "starting"
    /\ tier' = "none" /\ proc' = FALSE /\ helper' = "exited"
    /\ UNCHANGED <<working, reqs, resps, lock, begun, left, pc, perCall, timer,
                   blocked, recordVars>>

\* The warm tier is switched off or declined.
DeclineHelper ==
    /\ tier = "unstarted"
    /\ tier' = "none"
    /\ UNCHANGED <<proc, helper, working, reqs, resps, lock, begun, left, pc, perCall,
                   timer, blocked, recordVars>>

-----------------------------------------------------------------------------
(* The helper process (_serve).                                            *)

HelperTake ==
    /\ helper = "idle" /\ reqs # <<>>
    /\ helper' = "busy" /\ working' = Head(reqs) /\ reqs' = Tail(reqs)
    /\ UNCHANGED <<tier, proc, resps, lock, begun, left, pc, perCall, timer, blocked, recordVars>>

HelperReply ==
    /\ helper = "busy"
    /\ \E ok \in BOOLEAN : resps' = Append(resps, [page |-> working, ok |-> ok])
    /\ helper' = "idle" /\ working' = NoPage
    /\ UNCHANGED <<tier, proc, reqs, lock, begun, left, pc, perCall, timer, blocked, recordVars>>

HelperHang ==
    /\ helper = "busy"
    /\ helper' = "hung"
    /\ UNCHANGED <<tier, proc, working, reqs, resps, lock, begun, left, pc, perCall,
                   timer, blocked, recordVars>>

\* Stopped or starved before it has read the request: from now on it only exits.
HelperFreeze ==
    /\ helper = "idle"
    /\ helper' = "frozen"
    /\ UNCHANGED <<tier, proc, working, reqs, resps, lock, begun, left, pc, perCall,
                   timer, blocked, recordVars>>

\* A crash, an OOM kill, or obedience to stop()'s quit and SIGTERM.
HelperExit ==
    /\ HelperAlive
    /\ helper' = "exited"
    /\ UNCHANGED <<tier, proc, working, reqs, resps, lock, begun, left, pc, perCall,
                   timer, blocked, recordVars>>

-----------------------------------------------------------------------------
(* One page thread.                                                        *)

Goto(p, to) == pc' = [pc EXCEPT ![p] = to]

\* The call's local values, which nothing reads once the call is over.
EndCall(p) ==
    /\ perCall' = [perCall EXCEPT ![p] = 0]
    /\ timer' = [timer EXCEPT ![p] = 0]
    /\ blocked' = [blocked EXCEPT ![p] = 0]

Finish(p, t, why) ==
    /\ Goto(p, "done")
    /\ text' = [text EXCEPT ![p] = t]
    /\ skipped' = [skipped EXCEPT ![p] = why]
    /\ EndCall(p)
    /\ UNCHANGED <<fellBack, coldTried>>

FallBackKeepingLock(p) ==
    /\ Goto(p, "cold")
    /\ fellBack' = [fellBack EXCEPT ![p] = TRUE]
    /\ EndCall(p)
    /\ UNCHANGED <<lock, text, skipped, coldTried>>

FallBackAsError(p) ==
    /\ lock' = NoPage
    /\ Goto(p, "done")
    /\ skipped' = [skipped EXCEPT ![p] = "error"]
    /\ fellBack' = [fellBack EXCEPT ![p] = TRUE]
    /\ EndCall(p)
    /\ UNCHANGED <<text, coldTried>>

\* Leaving the `with self._lock` block by an OCRError, caught as a warm fallback.
FallBack(p) ==
    /\ lock' = NoPage
    /\ Goto(p, "cold")
    /\ fellBack' = [fellBack EXCEPT ![p] = TRUE]
    /\ EndCall(p)
    /\ UNCHANGED <<text, skipped, coldTried>>

\* The pool is created and the job's deadline fixed.
BeginJob(j) ==
    /\ tier \in {"warm", "none"}
    /\ j \notin begun
    /\ begun' = begun \cup {j}
    /\ UNCHANGED <<helperVars, lock, left, pc, perCall, timer, blocked, recordVars>>

\* ThreadPoolExecutor.map hands out pages in order, Workers at a time.
StartPage(p) ==
    /\ JobOf(p) \in begun
    /\ pc[p] = "queued"
    /\ \A i \in 1 .. p[2] - 1 : pc[<<JobOf(p), i>>] # "queued"
    /\ Cardinality(Active(JobOf(p))) < Workers
    /\ Goto(p, "scan")
    /\ UNCHANGED <<helperVars, lock, begun, left, perCall, timer, blocked, recordVars>>

\* OCR disabled, a blank page, or a page with nothing but a text layer.
SkipUnwanted(p) ==
    /\ pc[p] = "scan"
    /\ Finish(p, NoPage, "not_wanted")
    /\ UNCHANGED <<helperVars, lock, begun, left>>

SkipBudget(p) ==
    /\ pc[p] = "scan"
    /\ left[JobOf(p)] < MinCall
    /\ Finish(p, NoPage, "timeout_budget")
    /\ UNCHANGED <<helperVars, lock, begun, left>>

NoScanImage(p) ==
    /\ pc[p] = "scan"
    /\ left[JobOf(p)] >= MinCall
    /\ Finish(p, NoPage, "no_png")
    /\ UNCHANGED <<helperVars, lock, begun, left>>

PriceCall(p) ==
    /\ pc[p] = "scan"
    /\ left[JobOf(p)] >= MinCall
    /\ perCall' = [perCall EXCEPT ![p] = left[JobOf(p)]]
    /\ Goto(p, IF tier = "warm" THEN "probe" ELSE "cold")
    /\ UNCHANGED <<helperVars, lock, begun, left, timer, blocked, recordVars>>

\* is_ready() reads _proc twice, without the lock: first `is not None` ...
ProbeProc(p) ==
    /\ pc[p] = "probe"
    /\ Goto(p, IF proc THEN "poll" ELSE "cold")
    /\ UNCHANGED <<helperVars, lock, begun, left, perCall, timer, blocked, recordVars>>

\* ... then `.poll()`, which raises AttributeError on None.  is_ready() is called
\* outside the inner try, so the page is recorded as a scanner error.
ProbePoll(p) ==
    /\ pc[p] = "poll"
    /\ \/ /\ proc
          /\ Goto(p, IF HelperAlive THEN "enter" ELSE "cold")
          /\ UNCHANGED <<perCall, timer, blocked, recordVars>>
       \/ /\ ~proc
          /\ Finish(p, NoPage, "error")
    /\ UNCHANGED <<helperVars, lock, begun, left>>

AcquireUnguarded(p) ==
    /\ pc[p] = "enter"
    /\ lock' = p
    /\ Goto(p, "locked")
    /\ UNCHANGED <<helperVars, begun, left, perCall, timer, blocked, recordVars>>

Acquire(p) ==
    /\ pc[p] = "enter"
    /\ lock = NoPage
    /\ lock' = p
    /\ Goto(p, "locked")
    /\ UNCHANGED <<helperVars, begun, left, perCall, timer, blocked, recordVars>>

PricedBeforeWait(p) == AtLeastOne(perCall[p])

\* timeout_s after the wait: what is left of the deadline, never more than perCall.
\* The deadline was fixed as now + _ocr_time_left(), so what is left of it is `left`.
PricedTimeout(p) == MinOf(AtLeastOne(perCall[p]), left[JobOf(p)])

\* "budget exhausted while queued" or "not ready".
RefuseCall(p) ==
    /\ pc[p] = "locked"
    /\ PricedTimeout(p) <= 0 \/ ~proc \/ ~HelperAlive
    /\ FallBack(p)
    /\ UNCHANGED <<helperVars, begun, left>>

\* The timeout is priced here, and the read will be given all of it.
BeginRequest(p) ==
    /\ pc[p] = "locked"
    /\ PricedTimeout(p) > 0
    /\ proc /\ HelperAlive
    /\ perCall' = [perCall EXCEPT ![p] = PricedTimeout(p)]
    /\ Goto(p, "writing")
    /\ UNCHANGED <<helperVars, lock, begun, left, timer, blocked, recordVars>>

\* An unreadable or oversized PNG, or a broken pipe: nothing was sent.
RequestFails(p) ==
    /\ pc[p] = "writing"
    /\ FallBack(p)
    /\ UNCHANGED <<helperVars, begun, left>>

\* The page has been read, encoded, and written to the helper's stdin.
WriteRequest(p) ==
    /\ pc[p] = "writing"
    /\ HelperAlive
    /\ reqs' = Append(reqs, p)
    /\ timer' = [timer EXCEPT ![p] = perCall[p]]
    /\ Goto(p, "reading")
    /\ UNCHANGED <<tier, proc, helper, working, resps, lock, begun, left, perCall, blocked,
                   recordVars>>

\* A line arrived: the text, or an error reply, which is a warm failure.
ReadReply(p) ==
    /\ pc[p] = "reading"
    /\ resps # <<>>
    /\ resps' = Tail(resps)
    /\ \/ /\ Head(resps).ok
          /\ lock' = NoPage
          /\ Finish(p, Head(resps).page, "none")
       \/ /\ ~Head(resps).ok
          /\ FallBack(p)
    /\ UNCHANGED <<tier, proc, helper, working, reqs, begun, left>>

\* readline() returned "" because the helper is gone.
ReadEof(p) ==
    /\ pc[p] = "reading"
    /\ resps = <<>> /\ ~HelperAlive
    /\ FallBack(p)
    /\ UNCHANGED <<helperVars, begun, left>>

ReadTimeoutNoStop(p) ==
    /\ pc[p] = "reading" /\ timer[p] = 0
    /\ FallBack(p)
    /\ UNCHANGED <<helperVars, begun, left>>

\* queue.Empty: stop() clears _proc, then asks the helper to quit.  A reply that
\* arrives at the same moment is lost with the helper.
ReadTimeout(p) ==
    /\ pc[p] = "reading" /\ timer[p] = 0
    /\ proc' = FALSE
    /\ Goto(p, "quitting")
    /\ UNCHANGED <<tier, helper, working, reqs, resps, lock, begun, left, perCall, timer,
                   blocked, recordVars>>

\* The quit line is in the pipe, or the pipe is broken; SIGTERM follows at once.
QuitWritten(p) ==
    /\ pc[p] = "quitting"
    /\ timer' = [timer EXCEPT ![p] = Grace]
    /\ Goto(p, "stopping")
    /\ UNCHANGED <<helperVars, lock, begun, left, perCall, blocked, recordVars>>

StopDoneNoKill(p) ==
    /\ pc[p] = "stopping"
    /\ ~HelperAlive \/ timer[p] = 0
    /\ FallBack(p)
    /\ UNCHANGED <<helperVars, begun, left>>

\* The helper left within the grace, or is SIGKILLed when it ends.
StopDone(p) ==
    /\ pc[p] = "stopping"
    /\ ~HelperAlive \/ timer[p] = 0
    /\ helper' = "exited"
    /\ FallBack(p)
    /\ UNCHANGED <<tier, proc, working, reqs, resps, begun, left>>

\* _ocr_cold(): the budget is read again, and at least one second is granted.
LaunchCold(p) ==
    /\ pc[p] = "cold"
    /\ timer' = [timer EXCEPT ![p] = AtLeastOne(left[JobOf(p)])]
    /\ coldTried' = [coldTried EXCEPT ![p] = TRUE]
    /\ Goto(p, "cli")
    /\ UNCHANGED <<helperVars, lock, begun, left, perCall, blocked, text, skipped, fellBack>>

\* The command line printed the text, failed, or was killed at its timeout.
ColdEnds(p) ==
    /\ pc[p] = "cli"
    /\ \/ Finish(p, p, "none")
       \/ Finish(p, NoPage, "error")
       \/ timer[p] = 0 /\ Finish(p, NoPage, "timeout")
    /\ UNCHANGED <<helperVars, lock, begun, left>>

-----------------------------------------------------------------------------
\* A second passes.  A timeout fires on time: no second passes over an expired one.
Tick ==
    /\ \A p \in Page : pc[p] \in Timed => timer[p] > 0
    /\ left' = [j \in Jobs |->
                   IF j \in begun /\ left[j] > -Overtime THEN left[j] - 1 ELSE left[j]]
    /\ timer' = [p \in Page |-> IF pc[p] \in Timed THEN timer[p] - 1 ELSE timer[p]]
    /\ blocked' = [p \in Page |->
                      IF pc[p] \in Writing THEN MinOf(blocked[p] + 1, Overtime) ELSE blocked[p]]
    /\ UNCHANGED <<helperVars, lock, begun, pc, perCall, recordVars>>

Engine == StartHelper \/ HelperReady \/ StartFails \/ DeclineHelper
Helper == HelperTake \/ HelperReply \/ HelperHang \/ HelperFreeze \/ HelperExit
PageStep(p) ==
    \/ StartPage(p) \/ SkipUnwanted(p) \/ SkipBudget(p) \/ NoScanImage(p)
    \/ PriceCall(p) \/ ProbeProc(p) \/ ProbePoll(p) \/ Acquire(p)
    \/ RefuseCall(p) \/ BeginRequest(p) \/ RequestFails(p) \/ WriteRequest(p)
    \/ ReadReply(p) \/ ReadEof(p) \/ ReadTimeout(p) \/ QuitWritten(p) \/ StopDone(p)
    \/ LaunchCold(p) \/ ColdEnds(p)

\* All pages are recorded: the system rests.
AllDone == \A p \in Page : pc[p] = "done"
Rest == AllDone /\ UNCHANGED vars

Next ==
    \/ Engine
    \/ Helper
    \/ \E j \in Jobs : BeginJob(j)
    \/ \E p \in Page : PageStep(p)
    \/ Tick
    \/ Rest

\* A write to a frozen helper blocks once the pipe is full: the request, or the quit line
\* behind a request that was never taken.  It may fit, but need not.
MayBlock(p) ==
    /\ helper = "frozen"
    /\ pc[p] = "writing" \/ (pc[p] = "quitting" /\ reqs # <<>>)

\* The thread's own step, or the end of a command line that has reached its timeout.
Prompt(p) == (pc[p] = "cli" => timer[p] = 0) /\ ~MayBlock(p) /\ PageStep(p)

\* Threads are scheduled, the clock runs, start() is bounded by its own timeout and
\* the host submits its jobs.  Nothing is assumed of the helper or of the command line:
\* either may hang forever, and a frozen helper may hold its writer forever.
Fairness ==
    /\ WF_vars(Engine)
    /\ \A j \in Jobs : WF_vars(BeginJob(j))
    /\ \A p \in Page : WF_vars(Prompt(p))
    /\ WF_vars(Tick)

Spec == Init /\ [][Next]_vars
FairSpec == Spec /\ Fairness

-----------------------------------------------------------------------------
(* Safety.                                                                 *)

\* No page is ever given the text of another page: request and reply stay paired on
\* the one pipe whatever times out, crashes or answers late (ocr, _readline, stop).
OwnText == \A p \in Page : text[p] \in {p, NoPage}

\* Between two calls a helper that can still be called has nothing pending: no request
\* unread, no reply unclaimed, no page in work (the lock, and the kill on timeout).
PipeQuietBetweenCalls ==
    (proc /\ HelperAlive /\ \A p \in Page : pc[p] \notin {"writing", "reading"})
        => (reqs = <<>> /\ resps = <<>> /\ helper \in {"loading", "idle", "frozen"})

\* However long its page queued for the lock, a warm call is over at most Grace seconds
\* past its job's OCR deadline, not counting the seconds it was blocked in a write: the
\* timeout is priced after the wait but before the write of the request, which has no
\* deadline of its own, and a timed out read still has stop()'s quit line to write and its
\* grace to wait.
WarmCallWithinBudget ==
    \A p \in Page : pc[p] \in Calling => left[JobOf(p)] + blocked[p] + Grace >= 0

\* A helper given up on does not stay behind as a process: once the thread that
\* stopped it has moved on, it has exited (stop() escalates to SIGKILL).
NoOrphanHelper ==
    (tier = "warm" /\ ~proc /\ \A p \in Page : pc[p] \notin {"quitting", "stopping"})
        => ~HelperAlive

\* A page whose warm attempt failed is never recorded without a cold attempt.
ColdAfterWarmFailure ==
    \A p \in Page : fellBack[p] /\ pc[p] = "done" => coldTried[p]

(* Liveness. *)

\* Every page of a job is eventually recorded, even if the helper hangs on each page
\* it is given: no hang holds the lock, and no page waits for it for ever.  The exception
\* is a helper frozen for ever with its writer blocked: the write has no deadline, the
\* writer keeps the lock, and the pages behind it are never recorded.
EveryPageRecorded ==
    []<>(\A p \in Page : ~MayBlock(p))
        => \A p \in Page : JobOf(p) \in begun ~> pc[p] = "done"

=============================================================================
