----------------------------- MODULE QrScanner -----------------------------
(***************************************************************************)
(* scan_qr in the page threads of one conversion, each scan and each probe *)
(* of the reader's options a run of the sandbox, and what _scan_page       *)
(* records of it.  The answer of the probe is kept for the process.        *)
(***************************************************************************)
EXTENDS SandboxRun, Naturals

CONSTANT Pages   \* how many pages the document has

ASSUME QrAssumption == Pages \in Nat

VARIABLES
    reader,    \* the installed ZXingReader: "none", "json" (>= 2.3) or "plain"
    cache,     \* _zxing_json_support_cache: "absent", "yes" or "no"
    pc,        \* where each thread stands
    useJson,   \* its use_json
    record,    \* what it recorded of its page
    queued     \* pages no thread has taken yet

qrVars == <<reader, cache, pc, useJson, record, queued>>
vars == <<sandboxVars, qrVars>>

TypeOK ==
    /\ SandboxTypeOK
    /\ reader \in {"none", "json", "plain"}
    /\ cache \in {"absent", "yes", "no"}
    /\ pc \in [Threads -> {"ready", "probe", "probing", "scan", "scanning", "recorded"}]
    /\ useJson \in [Threads -> BOOLEAN]
    /\ record \in [Threads -> {"none", "codes", "timeout", "error"}]
    /\ queued \in 0..Pages

Init ==
    /\ SandboxInit
    /\ reader \in {"none", "json", "plain"}
    /\ cache = "absent"
    /\ pc = [t \in Threads |-> "ready"]
    /\ useJson = [t \in Threads |-> FALSE]
    /\ record = [t \in Threads |-> "none"]
    /\ queued = Pages

Goto(t, from, to) == pc[t] = from /\ pc' = [pc EXCEPT ![t] = to]

-----------------------------------------------------------------------------
\* The pool hands the next page to a thread that is free.
TakePage == queued > 0 /\ queued' = queued - 1

\* No binary: ScanError, recorded as an error.
NoReader(t) ==
    /\ Goto(t, "ready", "recorded") /\ TakePage
    /\ reader = "none"
    /\ record' = [record EXCEPT ![t] = "error"]
    /\ UNCHANGED <<sandboxVars, reader, cache, useJson>>

\* _zxing_supports_json: the cached answer, or a probe.
LookUp(t) ==
    /\ TakePage /\ reader # "none"
    /\ \/ cache # "absent" /\ Goto(t, "ready", "scan")
          /\ useJson' = [useJson EXCEPT ![t] = cache = "yes"]
       \/ cache = "absent" /\ Goto(t, "ready", "probe") /\ UNCHANGED useJson
    /\ UNCHANGED <<sandboxVars, reader, cache, record>>

Run(t) == Launch(t) \/ LaunchFails(t)

StartProbe(t) ==
    /\ Goto(t, "probe", "probing")
    /\ Run(t)
    /\ UNCHANGED <<reader, cache, useJson, record, queued>>

ReadyAgain(t) ==
    /\ run[t] = "returned"
    /\ run' = [run EXCEPT ![t] = "idle"]
    /\ UNCHANGED <<backend, alive, status, late, result>>

\* The help could not be read: the reader is taken for an old one.
HelpSaysJson(t) == result[t].exit = "ok" /\ reader = "json"

\* The thread goes by its own answer, and the last answer stays in the cache.
EndProbe(t) ==
    /\ Goto(t, "probing", "scan")
    /\ ReadyAgain(t)
    /\ useJson' = [useJson EXCEPT ![t] = HelpSaysJson(t)]
    /\ cache' = IF HelpSaysJson(t) THEN "yes" ELSE "no"
    /\ UNCHANGED <<reader, record, queued>>

StartScan(t) ==
    /\ Goto(t, "scan", "scanning")
    /\ Run(t)
    /\ UNCHANGED <<reader, cache, useJson, record, queued>>

AnyFailureIsError(t) == IF result[t].exit = "ok" THEN "codes" ELSE "error"

\* scan_qr's ScanError and _scan_page's reading of its message.  Of the result
\* only the exit code comes through the argv runner; an old reader rejects -json.
Verdict(t) ==
    IF result[t].exit = "ok" THEN "codes"
    ELSE IF result[t].exit = "sigkill" THEN "timeout"
    ELSE "error"

EndScan(t) ==
    /\ Goto(t, "scanning", "recorded")
    /\ ReadyAgain(t)
    /\ record' = [record EXCEPT ![t] = Verdict(t)]
    /\ UNCHANGED <<reader, cache, useJson, queued>>

NextPage(t) ==
    /\ Goto(t, "recorded", "ready")
    /\ queued > 0
    /\ record' = [record EXCEPT ![t] = "none"]
    /\ UNCHANGED <<sandboxVars, reader, cache, useJson, queued>>

ThreadStep(t) ==
    \/ NoReader(t) \/ LookUp(t) \/ StartProbe(t) \/ EndProbe(t)
    \/ StartScan(t) \/ EndScan(t) \/ NextPage(t)

Next ==
    \E t \in Threads :
        \/ ThreadStep(t)
        \/ (RunStep(t) \/ ProgramStep(t)) /\ UNCHANGED qrVars

Spec == Init /\ [][Next]_vars

\* The threads run, time passes and the kernel tears namespaces down; no
\* program has to exit.
Fairness ==
    \A t \in Threads :
        WF_vars(ThreadStep(t)) /\ WF_vars(RunStep(t) /\ UNCHANGED qrVars)

FairSpec == Spec /\ Fairness

-----------------------------------------------------------------------------
(* Properties.                                                             *)

\* converter.py:382-383: a scan that reached its deadline is skipped without an
\* error, on the backends that report it as -SIGKILL.
DeadlineIsCleanSkip ==
    \A t \in Threads :
        pc[t] = "recorded" /\ late[t] /\ reader # "none" /\ backend # "nsjail" =>
            record[t] = "timeout"

\* A page that was taken gets its record, whatever the reader and the processes
\* it left behind do.
EveryScanEnds ==
    \A t \in Threads : pc[t] \notin {"ready", "recorded"} ~> pc[t] = "recorded"
=============================================================================
