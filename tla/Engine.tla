------------------------------- MODULE Engine -------------------------------
(***************************************************************************)
(* ClippyShotEngine: warmup() starts the persistent helpers (a soffice     *)
(* server, a tesserocr helper), and detonate() runs the jobs, which build  *)
(* one converter between them on first use.  Both ask select_sandbox which *)
(* backend confines the work, each for itself, and a backend whose         *)
(* smoketest flakes is passed over: the answers may differ.                *)
(*                                                                         *)
(* The helpers' processes are external: a start may fail at any time.      *)
(* What the converter does with its helpers is in LibreOfficeRunner and    *)
(* WarmOcr.                                                                *)
(***************************************************************************)
EXTENDS Integers

CONSTANTS
    Jobs,
    Hosts,         \* the deployments considered
    NoSandbox,     \* select_sandbox raised SandboxUnavailable
    NoConverter,
    Refused,       \* what a job is given when _get_converter raises
    Free           \* the converter lock, held by nobody

Backend == {"nsjail", "bwrap", "container"}
Helper == {"soffice", "ocr", "boxed"}   \* boxed: the OCR helper inside a sandbox

\* A deployment: the backends it has, and whether nsjail and bwrap are on PATH; the backend
\* CLIPPYSHOT_SANDBOX forces; the inner nono layer, with or without a Landlock to enforce
\* it; what is warmed; the tesseract_cli escape hatch; a soffice already listening.
Deployment ==
    [found : SUBSET Backend, onPath : BOOLEAN, forced : Backend \cup {"auto"},
     nono : {"off", "on", "no_landlock"}, warmUno : BOOLEAN, warmOcr : BOOLEAN,
     cli : BOOLEAN, listening : BOOLEAN]

\* What select_sandbox returns, and a Converter: its sandbox and the helpers it was given.
Sandbox == [backend : Backend, nono : BOOLEAN]
Converters == [sandbox : Sandbox,
               uno : {"none", "spawned", "adopted", "stopped"},
               ocr : {"none", "ocr", "boxed", "stopped"}]

ASSUME EngineAssumption ==
    /\ Hosts \subseteq Deployment
    /\ Free \notin Jobs
    /\ NoSandbox \notin Sandbox
    /\ NoConverter \notin Converters /\ Refused \notin Converters /\ NoConverter # Refused

VARIABLES
    host,        \* the deployment, fixed
    phase,       \* "warm_uno" and "warm_ocr" of warmup(), then "serving", "exited"
    unoServer,   \* _uno_server: who started it, or that it was stopped
    ocrServer,   \* _ocr_server
    running,     \* how many processes of each helper this engine has alive
    reap,        \* the helpers whose stop() is registered with atexit
    converter,   \* _converter
    lock,        \* _converter_lock
    ocrEnv,      \* CLIPPYSHOT_OCR, which the host sets before each job
    pc,          \* where each job is
    wantsOcr,    \* cs_opts.ocr_enabled of each job
    got,         \* what _get_converter gave each job
    coldFailed   \* has a cold start of the OCR helper failed?

helperVars == <<unoServer, ocrServer, running, reap>>
jobVars == <<converter, lock, ocrEnv, pc, wantsOcr, got, coldFailed>>
vars == <<host, phase, helperVars, jobVars>>

TypeOK ==
    /\ host \in Hosts
    /\ phase \in {"warm_uno", "warm_ocr", "serving", "exited"}
    /\ unoServer \in {"none", "spawned", "adopted", "stopped"}
    /\ ocrServer \in {"none", "ocr", "boxed", "stopped"}
    /\ running \in [Helper -> Nat]
    /\ reap \subseteq Helper
    /\ converter \in Converters \cup {NoConverter}
    /\ lock \in Jobs \cup {Free}
    /\ ocrEnv \in {"unset", "yes", "on"}
    /\ pc \in [Jobs -> {"idle", "options", "waiting", "cold", "build", "converting",
                        "done", "failed"}]
    /\ wantsOcr \in [Jobs -> BOOLEAN]
    /\ got \in [Jobs -> Converters \cup {NoConverter, Refused}]
    /\ coldFailed \in BOOLEAN

Init ==
    /\ host \in Hosts
    /\ phase = "warm_uno"
    /\ unoServer = "none" /\ ocrServer = "none"
    /\ running = [h \in Helper |-> 0]
    /\ reap = {}
    /\ converter = NoConverter /\ lock = Free
    /\ ocrEnv = "unset"
    /\ pc = [j \in Jobs |-> "idle"]
    /\ wantsOcr = [j \in Jobs |-> FALSE]
    /\ got = [j \in Jobs |-> NoConverter]
    /\ coldFailed = FALSE

-----------------------------------------------------------------------------
(* Sandbox selection.                                                      *)

PerCallBackends == {"nsjail", "bwrap"}

\* Does the selection wrap every single command?  nono does, around any backend.
SandboxesEachCall(s) == s.nono \/ s.backend \in PerCallBackends

\* What one call of select_sandbox may answer.  Any backend may fail its smoketest this
\* once, so the first that passes is any of those the host has, or there is none; a forced
\* backend has no fallback, and nono without Landlock fails at once.
Selections ==
    LET usable == IF host.forced = "auto" THEN host.found ELSE host.found \cap {host.forced}
    IN  {NoSandbox} \cup
        IF host.nono = "no_landlock" THEN {}
        ELSE [backend : usable, nono : {host.nono = "on"}]

\* shutil.which sees PATH only; the backends also look at a default location.
PerCallSandboxPossible ==
    \/ host.nono # "off"
    \/ host.forced \in PerCallBackends
    \/ host.forced = "auto" /\ host.onPath /\ host.found \cap PerCallBackends # {}

\* Would a helper outside the sandbox skip a boundary that the selection, or a later one,
\* insists on?
Declines(s) == IF s = NoSandbox THEN PerCallSandboxPossible ELSE SandboxesEachCall(s)

-----------------------------------------------------------------------------
(* warmup().                                                               *)

Started(h) == running' = [running EXCEPT ![h] = @ + 1]

\* Not asked for, declined, the hardened profile could not be written, or start() failed.
SkipUno ==
    /\ phase = "warm_uno" /\ phase' = "warm_ocr"
    /\ UNCHANGED <<host, helperVars, jobVars>>

\* A server found listening is adopted: stop() is a no-op on it.
StartUno ==
    /\ phase = "warm_uno" /\ phase' = "warm_ocr"
    /\ host.warmUno
    /\ \E s \in Selections : ~Declines(s)
    /\ IF host.listening
         THEN unoServer' = "adopted" /\ UNCHANGED running
         ELSE unoServer' = "spawned" /\ Started("soffice")
    /\ reap' = reap \cup {"soffice"}
    /\ UNCHANGED <<host, ocrServer, jobVars>>

SkipOcr ==
    /\ phase = "warm_ocr" /\ phase' = "serving"
    /\ UNCHANGED <<host, helperVars, jobVars>>

\* Where each call is sandboxed the helper is started inside the sandbox, if that backend
\* can host one: the nono decorator has no spawn().
StartOcr ==
    /\ phase = "warm_ocr" /\ phase' = "serving"
    /\ host.warmOcr /\ ~host.cli
    /\ \E s \in Selections :
          \/ ~Declines(s) /\ ocrServer' = "ocr"
          \/ s # NoSandbox /\ Declines(s) /\ ~s.nono /\ ocrServer' = "boxed"
    /\ Started(ocrServer')
    /\ reap' = reap \cup {ocrServer'}
    /\ UNCHANGED <<host, unoServer, jobVars>>

-----------------------------------------------------------------------------
(* detonate().                                                             *)

Goto(j, to) == pc' = [pc EXCEPT ![j] = to]

\* The host puts the job's parameters in the environment of the process and calls.
Submit(j, env) ==
    /\ phase = "serving" /\ pc[j] = "idle"
    /\ ocrEnv' = env
    /\ Goto(j, "options")
    /\ UNCHANGED <<host, phase, helperVars, converter, lock, wantsOcr, got, coldFailed>>

ConvertOptionsFromEnv(j) ==
    /\ pc[j] = "options"
    /\ wantsOcr' = [wantsOcr EXCEPT ![j] = ocrEnv \in {"yes", "on"}]
    /\ Goto(j, "waiting")
    /\ UNCHANGED <<host, phase, helperVars, converter, lock, ocrEnv, got, coldFailed>>

AcquireUnlocked(j) ==
    /\ pc[j] = "waiting"
    /\ IF converter # NoConverter
         THEN got' = [got EXCEPT ![j] = converter] /\ Goto(j, "converting") /\ UNCHANGED lock
         ELSE /\ lock' = j
              /\ Goto(j, IF wantsOcr[j] /\ ocrServer = "none" THEN "cold" ELSE "build")
              /\ UNCHANGED got
    /\ UNCHANGED <<host, phase, helperVars, converter, ocrEnv, wantsOcr, coldFailed>>

AcquireUnchecked(j) ==
    /\ pc[j] = "waiting" /\ lock = Free
    /\ lock' = j
    /\ Goto(j, IF wantsOcr[j] /\ ocrServer = "none" THEN "cold" ELSE "build")
    /\ UNCHANGED <<host, phase, helperVars, converter, ocrEnv, wantsOcr, got, coldFailed>>

\* Takes the lock; a converter already built is returned at once.
Acquire(j) ==
    /\ pc[j] = "waiting" /\ lock = Free
    /\ IF converter # NoConverter
         THEN got' = [got EXCEPT ![j] = converter] /\ Goto(j, "converting") /\ UNCHANGED lock
         ELSE /\ lock' = j
              /\ Goto(j, IF wantsOcr[j] /\ ocrServer = "none" THEN "cold" ELSE "build")
              /\ UNCHANGED got
    /\ UNCHANGED <<host, phase, helperVars, converter, ocrEnv, wantsOcr, coldFailed>>

\* _maybe_start_cold_ocr_helper declines: the escape hatch, an environment that does not
\* say OCR now, or another backend than the plain container.
SkipColdHelper(j) ==
    /\ pc[j] = "cold"
    /\ \/ host.cli \/ ocrEnv # "yes"
       \/ \E s \in Selections \ {NoSandbox} : s.backend # "container" \/ s.nono
    /\ Goto(j, "build")
    /\ UNCHANGED <<host, phase, helperVars, converter, lock, ocrEnv, wantsOcr, got, coldFailed>>

PlainContainer == [backend |-> "container", nono |-> FALSE]

StartColdUnregistered(j) ==
    /\ pc[j] = "cold" /\ ~host.cli /\ ocrEnv = "yes"
    /\ PlainContainer \in Selections
    /\ ocrServer' = "ocr" /\ Started("ocr")
    /\ Goto(j, "build")
    /\ UNCHANGED <<host, phase, unoServer, reap, converter, lock, ocrEnv, wantsOcr, got,
                   coldFailed>>

StartColdHelper(j) ==
    /\ pc[j] = "cold" /\ ~host.cli /\ ocrEnv = "yes"
    /\ PlainContainer \in Selections
    /\ ocrServer' = "ocr" /\ Started("ocr")
    /\ reap' = reap \cup {"ocr"}
    /\ Goto(j, "build")
    /\ UNCHANGED <<host, phase, unoServer, converter, lock, ocrEnv, wantsOcr, got, coldFailed>>

\* The selection or start() raised; the job goes on without a helper.
ColdHelperFails(j) ==
    /\ pc[j] = "cold" /\ ~host.cli /\ ocrEnv = "yes"
    /\ coldFailed' = TRUE
    /\ Goto(j, "build")
    /\ UNCHANGED <<host, phase, helperVars, converter, lock, ocrEnv, wantsOcr, got>>

-----------------------------------------------------------------------------
(* _build_converter, still under the lock.                                 *)

RejectForgets == UNCHANGED <<unoServer, ocrServer, running>>

\* Stops what the sandbox does not confine.  The engine keeps its references to what was
\* stopped; an adopted server is not its to stop.
RejectBareHelpers ==
    /\ unoServer' = IF unoServer = "spawned" THEN "stopped" ELSE unoServer
    /\ ocrServer' = IF ocrServer = "ocr" THEN "stopped" ELSE ocrServer
    /\ running' = [running EXCEPT
          !["soffice"] = IF unoServer = "spawned" THEN @ - 1 ELSE @,
          !["ocr"] = IF ocrServer = "ocr" THEN @ - 1 ELSE @]

ConverterOn(s) ==
    [sandbox |-> s,
     uno |-> IF SandboxesEachCall(s) THEN "none" ELSE unoServer,
     ocr |-> IF SandboxesEachCall(s) /\ ocrServer # "boxed" THEN "none" ELSE ocrServer]

Build(j) ==
    /\ pc[j] = "build"
    /\ \E s \in Selections \ {NoSandbox} :
          /\ converter' = ConverterOn(s)
          /\ IF SandboxesEachCall(s) THEN RejectBareHelpers
             ELSE UNCHANGED <<unoServer, ocrServer, running>>
    /\ got' = [got EXCEPT ![j] = converter']
    /\ lock' = Free
    /\ Goto(j, "converting")
    /\ UNCHANGED <<host, phase, reap, ocrEnv, wantsOcr, coldFailed>>

BuildFailsKeepingLock(j) ==
    /\ pc[j] = "build"
    /\ got' = [got EXCEPT ![j] = Refused]
    /\ Goto(j, "failed")
    /\ UNCHANGED <<host, phase, helperVars, converter, lock, ocrEnv, wantsOcr, coldFailed>>

\* select_sandbox raises out of detonate(); a later job tries again.
BuildFails(j) ==
    /\ pc[j] = "build"
    /\ got' = [got EXCEPT ![j] = Refused]
    /\ lock' = Free
    /\ Goto(j, "failed")
    /\ UNCHANGED <<host, phase, helperVars, converter, ocrEnv, wantsOcr, coldFailed>>

Convert(j) ==
    /\ pc[j] = "converting"
    /\ Goto(j, "done")
    /\ UNCHANGED <<host, phase, helperVars, converter, lock, ocrEnv, wantsOcr, got, coldFailed>>

\* The interpreter ends between jobs and runs what atexit holds.
Exit ==
    /\ phase = "serving" /\ phase' = "exited"
    /\ \A j \in Jobs : pc[j] \in {"idle", "done", "failed"}
    /\ running' = [h \in Helper |-> IF h \in reap THEN 0 ELSE running[h]]
    /\ UNCHANGED <<host, unoServer, ocrServer, reap, jobVars>>

-----------------------------------------------------------------------------
Env == {"unset", "yes", "on"}

JobStep(j) ==
    \/ ConvertOptionsFromEnv(j) \/ Acquire(j)
    \/ SkipColdHelper(j) \/ StartColdHelper(j) \/ ColdHelperFails(j)
    \/ Build(j) \/ BuildFails(j) \/ Convert(j)

Next ==
    \/ SkipUno \/ StartUno \/ SkipOcr \/ StartOcr
    \/ \E j \in Jobs : JobStep(j) \/ \E env \in Env : Submit(j, env)
    \/ Exit

Spec == Init /\ [][Next]_vars

\* A job's thread runs while it can.  Each job takes the lock once, so no stronger fairness
\* is asked of it.
FairSpec == Spec /\ \A j \in Jobs : WF_vars(JobStep(j))

-----------------------------------------------------------------------------
(* Properties.                                                             *)

\* engine.py:149-160, "THE INVARIANT IS ENFORCED HERE": once the converter's sandbox
\* confines each call, no helper this engine started is alive outside it and none is used,
\* although warmup may have started one when the selection said otherwise.
NoBareHelperBesideSandbox ==
    (converter # NoConverter /\ SandboxesEachCall(converter.sandbox)) =>
        /\ running["soffice"] = 0 /\ running["ocr"] = 0
        /\ converter.uno = "none" /\ converter.ocr \in {"none", "boxed"}

\* engine.py:574-575: concurrent detonate() calls do not spawn duplicate helpers, nor one
\* beside the one warmup started.
OneProcessPerHelper == running["soffice"] <= 1 /\ running["ocr"] + running["boxed"] <= 1

\* The helpers a converter holds are those that run: none it holds was stopped when it was
\* built, and the confined OCR helper is kept rather than dropped (engine.py:161-163).
HeldHelpersRun ==
    (converter # NoConverter /\ phase = "serving") =>
        /\ (converter.uno = "spawned") <=> (running["soffice"] = 1)
        /\ (converter.ocr = "ocr") <=> (running["ocr"] = 1)
        /\ (converter.ocr = "boxed") <=> (running["boxed"] = 1)

\* Whatever was started, rejected or not, is gone once the interpreter has exited.
NoProcessOutlivesEngine == phase = "exited" => \A h \in Helper : running[h] = 0

\* A job that was submitted ends, whoever built the converter or failed to.
EveryJobEnds == \A j \in Jobs : pc[j] = "options" ~> pc[j] \in {"done", "failed"}

Shared == INSTANCE SharedConverter WITH
              Values <- Converters, NoValue <- NoConverter, value <- converter

\* The lazy initialisation is a single converter shared by every job: see SharedConverter.
ImplementsShared == Shared!Spec

=============================================================================
