--------------------------- MODULE SofficeServer ---------------------------
(***************************************************************************)
(* The life of a persistent soffice server: UnoServer (TCP port) and       *)
(* SofficePipeServer (socket file), whose start(), is_ready() and stop()   *)
(* are the same code but for the test of readiness, and what the engine    *)
(* does with them: start in warmup(), rejection by a sandbox that wraps    *)
(* each call, stop() at exit.                                              *)
(*                                                                         *)
(* Engines run one after the other on one host, at one address.  An engine *)
(* may be killed at any step, which skips atexit and leaves its server     *)
(* running; the next engine finds whatever the earlier ones left.  The     *)
(* server processes are external: they may boot, hang, crash or ignore     *)
(* SIGTERM.                                                                *)
(***************************************************************************)
EXTENDS Naturals

CONSTANTS
    Engines,       \* engine processes, at most one alive at a time
    Procs,         \* server processes that can be spawned
    ReadyTimeout,  \* ready_timeout_s, in ticks
    Grace,         \* seconds stop() waits between SIGTERM and SIGKILL
    Rootfs,        \* the spawner of a server that was there before any engine
    NoProc

ASSUME SofficeServerAssumption ==
    /\ ReadyTimeout \in Nat \ {0} /\ Grace \in Nat
    /\ Rootfs \notin Engines /\ NoProc \notin Procs

VARIABLES
    transport,   \* "socket" (UnoServer) or "pipe" (SofficePipeServer), fixed
    phase,       \* what each engine does with its server
    own,         \* _proc
    victim,      \* the local `proc` of the stop() in progress
    after,       \* where that stop() returns to
    timer,       \* ticks until the wait of start() or stop() ends
    server,      \* the processes
    spawner,     \* who started each process
    socketFile   \* the OSL_PIPE_ file exists (pipe transport)

engineVars == <<phase, own, victim, after, timer>>
vars == <<transport, engineVars, server, spawner, socketFile>>

Alive == {"booting", "listening", "terminating"}
Running(p) == server[p] \in Alive
Listening == {p \in Procs : server[p] = "listening"}
Over == {"gone", "killed"}

TypeOK ==
    /\ transport \in {"socket", "pipe"}
    /\ phase \in [Engines -> {"new", "starting", "polling", "serving", "failed",
                              "rejected", "stopping", "gone", "killed"}]
    /\ own \in [Engines -> Procs \cup {NoProc}]
    /\ victim \in [Engines -> Procs \cup {NoProc}]
    /\ after \in [Engines -> {"failed", "rejected", "gone"}]
    /\ timer \in [Engines -> Nat]
    /\ server \in [Procs -> {"unborn", "booting", "listening", "terminating", "dead"}]
    /\ spawner \in [Procs -> Engines \cup {Rootfs}]
    /\ socketFile \in BOOLEAN

\* The rootfs or a snapshot may have started a server already.
Init ==
    /\ transport \in {"socket", "pipe"}
    /\ phase = [e \in Engines |-> "new"]
    /\ own = [e \in Engines |-> NoProc]
    /\ victim = [e \in Engines |-> NoProc]
    /\ after = [e \in Engines |-> "gone"]
    /\ timer = [e \in Engines |-> 0]
    /\ spawner = [p \in Procs |-> Rootfs]
    /\ \/ server = [p \in Procs |-> "unborn"] /\ socketFile = FALSE
       \/ \E q \in Procs :
             /\ server = [p \in Procs |-> IF p = q THEN "listening" ELSE "unborn"]
             /\ socketFile = (transport = "pipe")

-----------------------------------------------------------------------------
(* start().                                                                *)

Goto(e, to) == phase' = [phase EXCEPT ![e] = to]

\* _port_listening connects; _default_socket_check looks for a file and connects to nothing.
SocketCheck == IF transport = "pipe" THEN socketFile ELSE Listening # {}

Boot(e) ==
    /\ phase[e] = "new"
    /\ \A d \in Engines : phase[d] \in Over \cup {"new"}
    /\ Goto(e, "starting")
    /\ UNCHANGED <<transport, own, victim, after, timer, server, spawner, socketFile>>

\* The mutated forms of the actions below stand before them.
AdoptAsOwn(e) ==
    /\ phase[e] = "starting"
    /\ SocketCheck
    /\ \E p \in Procs : Running(p) /\ own' = [own EXCEPT ![e] = p]
    /\ Goto(e, "serving")
    /\ UNCHANGED <<transport, victim, after, timer, server, spawner, socketFile>>

\* Something answers at the address: no second spawn, and no handle.
Adopt(e) ==
    /\ phase[e] = "starting"
    /\ SocketCheck
    /\ Goto(e, "serving")
    /\ UNCHANGED <<transport, own, victim, after, timer, server, spawner, socketFile>>

Spawn(e) ==
    /\ phase[e] = "starting"
    /\ ~SocketCheck
    /\ \E p \in Procs :
          /\ server[p] = "unborn"
          /\ server' = [server EXCEPT ![p] = "booting"]
          /\ spawner' = [spawner EXCEPT ![p] = e]
          /\ own' = [own EXCEPT ![e] = p]
    /\ timer' = [timer EXCEPT ![e] = ReadyTimeout]
    /\ Goto(e, "polling")
    /\ UNCHANGED <<transport, victim, after, socketFile>>

\* Popen raises: the executable is missing.
SpawnFails(e) ==
    /\ phase[e] = "starting"
    /\ ~SocketCheck
    /\ Goto(e, "failed")
    /\ UNCHANGED <<transport, own, victim, after, timer, server, spawner, socketFile>>

\* _wait_ready: one turn of its loop, while time is left.
PollExited(e) ==
    /\ phase[e] = "polling" /\ timer[e] > 0
    /\ ~Running(own[e])
    /\ own' = [own EXCEPT ![e] = NoProc]
    /\ timer' = [timer EXCEPT ![e] = 0]
    /\ Goto(e, "failed")
    /\ UNCHANGED <<transport, victim, after, server, spawner, socketFile>>

PollReady(e) ==
    /\ phase[e] = "polling" /\ timer[e] > 0
    /\ Running(own[e])
    /\ SocketCheck
    /\ timer' = [timer EXCEPT ![e] = 0]
    /\ Goto(e, "serving")
    /\ UNCHANGED <<transport, own, victim, after, server, spawner, socketFile>>

-----------------------------------------------------------------------------
(* stop().                                                                 *)

SigTerm(p) ==
    server' = [server EXCEPT ![p] = IF Running(p) THEN "terminating" ELSE @]

\* _proc is cleared first; without a process, or with one that has exited, that is all.
Stop(e, to) ==
    /\ own' = [own EXCEPT ![e] = NoProc]
    /\ IF own[e] # NoProc /\ Running(own[e])
         THEN /\ victim' = [victim EXCEPT ![e] = own[e]]
              /\ after' = [after EXCEPT ![e] = to]
              /\ timer' = [timer EXCEPT ![e] = Grace]
              /\ SigTerm(own[e])
              /\ Goto(e, "stopping")
         ELSE /\ timer' = [timer EXCEPT ![e] = 0]
              /\ Goto(e, to)
              /\ UNCHANGED <<victim, after, server>>
    /\ UNCHANGED <<transport, spawner, socketFile>>

PollAgain(e) ==
    /\ phase[e] = "polling" /\ timer[e] = 0
    /\ timer' = [timer EXCEPT ![e] = ReadyTimeout]
    /\ UNCHANGED <<transport, phase, own, victim, after, server, spawner, socketFile>>

\* The deadline of _wait_ready has passed: stop() and raise.
PollExpired(e) ==
    /\ phase[e] = "polling" /\ timer[e] = 0
    /\ Stop(e, "failed")

StopReturnsUnkilled(e) ==
    /\ phase[e] = "stopping"
    /\ ~Running(victim[e]) \/ timer[e] = 0
    /\ victim' = [victim EXCEPT ![e] = NoProc]
    /\ timer' = [timer EXCEPT ![e] = 0]
    /\ Goto(e, after[e])
    /\ UNCHANGED <<transport, own, after, server, spawner, socketFile>>

\* The process left within the grace, or is SIGKILLed and waited for.
StopReturns(e) ==
    /\ phase[e] = "stopping"
    /\ ~Running(victim[e]) \/ timer[e] = 0
    /\ server' = [server EXCEPT ![victim[e]] = "dead"]
    /\ victim' = [victim EXCEPT ![e] = NoProc]
    /\ timer' = [timer EXCEPT ![e] = 0]
    /\ Goto(e, after[e])
    /\ UNCHANGED <<transport, own, after, spawner, socketFile>>

-----------------------------------------------------------------------------
(* The engine.                                                             *)

\* The first job's converter sandboxes each call: _reject stops the helper.
Reject(e) ==
    /\ phase[e] = "serving"
    /\ Stop(e, "rejected")

\* atexit: a server whose start() succeeded is stopped, one given up on has no handle left.
Exit(e) ==
    /\ phase[e] \in {"serving", "failed", "rejected"}
    /\ Stop(e, "gone")

\* SIGKILL, an OOM kill: no atexit.
Kill(e) ==
    /\ phase[e] \notin Over \cup {"new"}
    /\ Goto(e, "killed")
    /\ own' = [own EXCEPT ![e] = NoProc]
    /\ victim' = [victim EXCEPT ![e] = NoProc]
    /\ timer' = [timer EXCEPT ![e] = 0]
    /\ UNCHANGED <<transport, after, server, spawner, socketFile>>

-----------------------------------------------------------------------------
(* The server processes (external).                                        *)

\* A second server at the same address cannot bind, and exits.
Listen(p) ==
    /\ server[p] = "booting"
    /\ server' = [server EXCEPT ![p] = IF Listening = {} THEN "listening" ELSE "dead"]
    /\ socketFile' = (socketFile \/ transport = "pipe")
    /\ UNCHANGED <<transport, engineVars, spawner>>

\* A crash leaves the socket file behind.
Crash(p) ==
    /\ Running(p)
    /\ server' = [server EXCEPT ![p] = "dead"]
    /\ UNCHANGED <<transport, engineVars, spawner, socketFile>>

\* An orderly end on SIGTERM removes it.
ObeyTerm(p) ==
    /\ server[p] = "terminating"
    /\ server' = [server EXCEPT ![p] = "dead"]
    /\ socketFile' = (socketFile /\ Listening # {})
    /\ UNCHANGED <<transport, engineVars, spawner>>

Timed == {"polling", "stopping"}
Tick ==
    /\ \E e \in Engines : phase[e] \in Timed
    /\ \A e \in Engines : phase[e] \in Timed => timer[e] > 0
    /\ timer' = [e \in Engines |-> IF phase[e] \in Timed THEN timer[e] - 1 ELSE timer[e]]
    /\ UNCHANGED <<transport, phase, own, victim, after, server, spawner, socketFile>>

-----------------------------------------------------------------------------
Lifecycle(e) ==
    \/ Adopt(e) \/ Spawn(e) \/ SpawnFails(e) \/ PollExited(e) \/ PollReady(e)
    \/ PollExpired(e) \/ StopReturns(e)

Next ==
    \/ \E e \in Engines : Boot(e) \/ Lifecycle(e) \/ Reject(e) \/ Exit(e) \/ Kill(e)
    \/ \E p \in Procs : Listen(p) \/ Crash(p) \/ ObeyTerm(p)
    \/ Tick

\* The engine's thread runs and the clock too; a server may hang for ever.
Fairness == WF_vars(Tick) /\ \A e \in Engines : WF_vars(Lifecycle(e))

Spec == Init /\ [][Next]_vars
FairSpec == Spec /\ Fairness

-----------------------------------------------------------------------------
\* No server is lost: one that runs is in the hands of the engine that spawned it, unless
\* that engine was killed (or no engine spawned it).  So a start() that raised, a rejection
\* of its own server and an exit leave nothing running, even if the server ignores SIGTERM.
RunningServerIsHeld ==
    \A p \in Procs : Running(p) =>
        \/ spawner[p] = Rootfs
        \/ phase[spawner[p]] = "killed"
        \/ p \in {own[spawner[p]], victim[spawner[p]]}

\* An engine signals only what it spawned: a server it adopted, which an earlier engine or
\* the rootfs started, survives its rejection and its exit.
StopsOnlyItsOwn == \A e \in Engines : victim[e] # NoProc => spawner[victim[e]] = e

\* start() ends, however the process it spawned behaves.
StartEnds ==
    \A e \in Engines : phase[e] = "starting" ~> phase[e] \notin {"starting", "polling", "stopping"}

=============================================================================
