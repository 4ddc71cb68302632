----------------------------- MODULE OcrHelper -----------------------------
(***************************************************************************)
(* Inside the warm OCR helper: the loop of _serve and the cache of loaded  *)
(* tesseract models that _build_api_cache keeps, with the client's call    *)
(* seen from the pipe.  A request is a line of one or more chunks; the     *)
(* client writes it into a pipe that holds PipeSize chunks while it holds  *)
(* the client's lock, so that there is one call at a time (WarmOcr models  *)
(* the threads that wait for it).                                          *)
(***************************************************************************)
EXTENDS Naturals, Sequences, FiniteSets

CONSTANTS
    Keys,           \* the (lang, psm) pairs a job may ask for
    MaxCachedApis,  \* MAX_CACHED_APIS
    PipeSize,       \* chunks the kernel buffers
    RequestSize,    \* chunks of the longest request
    MaxCalls,       \* bound: calls in one behaviour
    NoKey

ASSUME OcrHelperAssumption ==
    /\ MaxCachedApis \in Nat \ {0} /\ PipeSize \in Nat \ {0}
    /\ RequestSize \in Nat \ {0} /\ MaxCalls \in Nat
    /\ NoKey \notin Keys

VARIABLES
    apis,     \* the OrderedDict's keys, the next to be evicted first
    inMemory, \* models in the helper's memory
    unended,  \* of these, dropped from the cache although their End() raised
    usedAt,   \* the call that last used each key's model, 0 before
    calls,    \* calls begun
    asking,   \* the key of the call in flight
    toWrite,  \* chunks of its request not yet written
    inPipe,   \* chunks in the pipe
    unread,   \* chunks the helper still needs for the line to be complete
    client,   \* "idle", "writing" the request, "waiting" for the reply, "quitting"
    serving,  \* where the helper process is in _serve
    reply     \* the line in its stdout

memoryVars == <<inMemory, unended>>
cacheVars == <<apis, memoryVars, usedAt>>
pipeVars == <<toWrite, inPipe, unread>>
serveVars == <<cacheVars, pipeVars, calls, asking, client, serving, reply>>

Cached == {apis[i] : i \in DOMAIN apis}

ServeTypeOK ==
    /\ apis \in Seq(Keys)
    /\ inMemory \in Nat /\ unended \in Nat
    /\ usedAt \in [Keys -> Nat]
    /\ calls \in Nat
    /\ asking \in Keys \cup {NoKey}
    /\ toWrite \in Nat /\ inPipe \in Nat /\ unread \in Nat
    /\ client \in {"idle", "writing", "waiting", "quitting"}
    /\ serving \in {"reading", "asked", "evicting", "recognising", "hung", "stalled", "exited"}
    /\ reply \in {"none", "text", "error"}

\* The helper has said it is ready.
ServeInit ==
    /\ apis = <<>> /\ inMemory = 0 /\ unended = 0
    /\ usedAt = [k \in Keys |-> 0]
    /\ calls = 0 /\ asking = NoKey
    /\ toWrite = 0 /\ inPipe = 0 /\ unread = 0
    /\ client = "idle" /\ serving = "reading" /\ reply = "none"

-----------------------------------------------------------------------------
(* The client: ocr() under its lock.                                       *)

Call(k) ==
    /\ client = "idle" /\ serving # "exited"
    /\ calls < MaxCalls
    /\ calls' = calls + 1
    /\ asking' = k
    /\ \E n \in 1 .. RequestSize : toWrite' = n /\ unread' = n
    /\ client' = "writing"
    /\ UNCHANGED <<cacheVars, inPipe, serving, reply>>

\* The write blocks while the pipe is full and somebody has its other end open.
Write ==
    /\ client = "writing" /\ serving # "exited"
    /\ toWrite > 0 /\ inPipe < PipeSize
    /\ toWrite' = toWrite - 1 /\ inPipe' = inPipe + 1
    /\ client' = IF toWrite = 1 THEN "waiting" ELSE "writing"
    /\ UNCHANGED <<cacheVars, unread, calls, asking, serving, reply>>

CallOver ==
    /\ client' = "idle" /\ asking' = NoKey /\ reply' = "none"
    /\ toWrite' = 0 /\ unread' = 0

\* EPIPE.
WriteFails ==
    /\ client = "writing" /\ serving = "exited"
    /\ CallOver
    /\ UNCHANGED <<cacheVars, inPipe, calls, serving>>

\* A reply, or the end of file of a helper that is gone.
Read ==
    /\ client = "waiting"
    /\ reply # "none" \/ serving = "exited"
    /\ CallOver
    /\ UNCHANGED <<cacheVars, inPipe, calls, serving>>

\* The mutated forms of the definitions below stand before them.
ReplyTimeoutIgnored == FALSE

\* _readline's timeout: stop() first writes a quit line into the same pipe ...
ReplyTimeout ==
    /\ client = "waiting" /\ reply = "none"
    /\ client' = "quitting"
    /\ UNCHANGED <<cacheVars, pipeVars, calls, asking, serving, reply>>

MemoryFreed == apis' = <<>> /\ inMemory' = 0 /\ unended' = 0

\* ... which blocks while that is full, and only then kills the helper.
QuitSent ==
    /\ client = "quitting"
    /\ inPipe < PipeSize \/ serving = "exited"
    /\ CallOver
    /\ serving' = "exited"
    /\ MemoryFreed
    /\ inPipe' = 0
    /\ UNCHANGED <<usedAt, calls>>

-----------------------------------------------------------------------------
(* The helper.                                                             *)

ReadChunk ==
    /\ serving = "reading" /\ inPipe > 0
    /\ inPipe' = inPipe - 1 /\ unread' = unread - 1
    /\ serving' = IF unread = 1 THEN "asked" ELSE "reading"
    /\ UNCHANGED <<cacheVars, toWrite, calls, asking, client, reply>>

Answer(r) == reply' = r /\ serving' = "reading"

InPlace(s, k) == s

\* move_to_end
MoveToEnd(s, k) ==
    LET at == CHOOSE i \in DOMAIN s : s[i] = k
    IN  [i \in DOMAIN s |-> IF i < at THEN s[i] ELSE IF i < Len(s) THEN s[i + 1] ELSE k]

Use(k) == usedAt' = [usedAt EXCEPT ![k] = calls]

Hit ==
    /\ serving = "asked" /\ asking \in Cached
    /\ apis' = MoveToEnd(apis, asking)
    /\ Use(asking)
    /\ serving' = "recognising"
    /\ UNCHANGED <<memoryVars, pipeVars, calls, asking, client, reply>>

\* A miss loads the model before it makes room for it.
LoadModel ==
    /\ serving = "asked" /\ asking \notin Cached
    /\ apis' = Append(apis, asking)
    /\ inMemory' = inMemory + 1
    /\ Use(asking)
    /\ serving' = "evicting"
    /\ UNCHANGED <<unended, pipeVars, calls, asking, client, reply>>

EvictWithoutEnd ==
    /\ serving = "evicting" /\ Len(apis) > MaxCachedApis
    /\ apis' = Tail(apis)
    /\ UNCHANGED <<memoryVars, usedAt, pipeVars, calls, asking, client, serving, reply>>

\* popitem drops the oldest entry; its End() frees the model, or raises and is swallowed.
Evict ==
    /\ serving = "evicting" /\ Len(apis) > MaxCachedApis
    /\ apis' = Tail(apis)
    /\ \/ inMemory' = inMemory - 1 /\ UNCHANGED unended
       \/ unended' = unended + 1 /\ UNCHANGED inMemory
    /\ UNCHANGED <<usedAt, pipeVars, calls, asking, client, serving, reply>>

CacheFits ==
    /\ serving = "evicting" /\ Len(apis) <= MaxCachedApis
    /\ serving' = "recognising"
    /\ UNCHANGED <<cacheVars, pipeVars, calls, asking, client, reply>>

\* No such language: an error reply, and the cache as it was.
LoadFails ==
    /\ serving = "asked" /\ asking \notin Cached
    /\ Answer("error")
    /\ UNCHANGED <<cacheVars, pipeVars, calls, asking, client>>

Recognised ==
    /\ serving = "recognising"
    /\ \E r \in {"text", "error"} : Answer(r)
    /\ UNCHANGED <<cacheVars, pipeVars, calls, asking, client>>

\* A page tesseract does not come back from.
Hang ==
    /\ serving = "recognising" /\ serving' = "hung"
    /\ UNCHANGED <<cacheVars, pipeVars, calls, asking, client, reply>>

\* The process is frozen (stopped, starved of memory) before it has read the line.
Stall ==
    /\ serving = "reading" /\ serving' = "stalled"
    /\ UNCHANGED <<cacheVars, pipeVars, calls, asking, client, reply>>

Die ==
    /\ serving # "exited" /\ serving' = "exited"
    /\ MemoryFreed
    /\ UNCHANGED <<usedAt, pipeVars, calls, asking, client, reply>>

-----------------------------------------------------------------------------
ClientStep == Write \/ WriteFails \/ Read \/ ReplyTimeout \/ QuitSent
HelperStep == ReadChunk \/ Hit \/ LoadModel \/ Evict \/ CacheFits \/ LoadFails \/ Recognised

ServeNext ==
    \/ \E k \in Keys : Call(k)
    \/ ClientStep \/ HelperStep
    \/ Hang \/ Stall \/ Die

\* Nothing obliges a page to arrive, or the helper to fail.
ServeFairness == WF_serveVars(ClientStep) /\ WF_serveVars(HelperStep)

ServeSpec == ServeInit /\ [][ServeNext]_serveVars
FairServeSpec == ServeSpec /\ ServeFairness

-----------------------------------------------------------------------------
\* The cache keeps the models used last: one that was evicted was used before every one that
\* stayed, whatever the order of hits and misses (move_to_end on a hit, popitem from the
\* front on a miss).
LeastRecentlyUsed ==
    \A k \in Cached, d \in Keys \ Cached : usedAt[d] < usedAt[k]

\* A long-lived helper holds MaxCachedApis models at most, whatever is asked of it, and one
\* more from a miss's load to the eviction that follows it; an evicted model is still there
\* only if its End() raised, which nothing bounds.
ModelsAreBounded ==
    inMemory <= MaxCachedApis + unended + (IF serving = "evicting" THEN 1 ELSE 0)

\* The eviction loop spares the model of the very request it runs for.
AskedSurvivesEviction == serving = "recognising" => asking \in Cached

\* The client's two writes have no deadline: they wait for ever for a helper that does not
\* read and whose pipe is full.
Stuck ==
    /\ serving = "stalled" /\ inPipe = PipeSize
    /\ client \in {"writing", "quitting"}

\* A call ends, though the helper hangs in tesseract, freezes or dies at any point, unless
\* it stays stuck in the write of the request or of stop()'s quit line.
CallEndsUnlessStalled == []<>~Stuck => (client # "idle" ~> client = "idle")

=============================================================================
