------------------------ MODULE SofficeServerProofs ------------------------
(***************************************************************************)
(* Proofs about SofficeServer, for any number of engines, any supply of    *)
(* processes, both transports and any timeouts.                            *)
(*                                                                         *)
(* The invariant follows each engine's handles: _proc is set in the stages *)
(* that may have spawned, the local of stop() while it stops, and both     *)
(* name processes that this engine spawned.                                *)
(***************************************************************************)
EXTENDS SofficeServer, TLAPS

\* A process an engine may have a handle on: one it spawned.
Its(e, p) == p \in Procs /\ spawner[p] = e /\ server[p] # "unborn"

HandleInv ==
    \A e \in Engines :
        /\ own[e] # NoProc => phase[e] \in {"polling", "serving"} /\ Its(e, own[e])
        /\ phase[e] = "polling" => own[e] # NoProc
        /\ victim[e] # NoProc => Its(e, victim[e])
        /\ phase[e] = "stopping" <=> victim[e] # NoProc

IInv == TypeOK /\ HandleInv /\ RunningServerIsHeld

Step(e) == Boot(e) \/ Lifecycle(e) \/ Reject(e) \/ Exit(e) \/ Kill(e)
External(p) == Listen(p) \/ Crash(p) \/ ObeyTerm(p)

-----------------------------------------------------------------------------
\* What the next-state relation is, by who takes the step.
LEMMA NextIsStep ==
    ASSUME Next
    PROVE  \/ \E e \in Engines : Step(e)
           \/ \E p \in Procs : External(p)
           \/ Tick
BY DEF Next, Step, External

LEMMA InitInv == Init => IInv
<1> SUFFICES ASSUME Init PROVE IInv
  OBVIOUS
<1> USE SofficeServerAssumption DEF Init
<1>1. TypeOK
  BY DEF TypeOK
<1>2. HandleInv
  BY DEF HandleInv
<1>3. RunningServerIsHeld
  BY DEF RunningServerIsHeld
<1> QED
  BY <1>1, <1>2, <1>3 DEF IInv

-----------------------------------------------------------------------------
\* Types.  The socket file is treated apart from the rest of the state.
LEMMA SocketFileType == TypeOK /\ [Next]_vars => socketFile' \in BOOLEAN /\ transport' = transport
<1> SUFFICES ASSUME TypeOK, [Next]_vars PROVE socketFile' \in BOOLEAN /\ transport' = transport
  OBVIOUS
<1>1. ASSUME NEW e \in Engines, Step(e) PROVE socketFile' = socketFile /\ transport' = transport
  BY <1>1 DEF Step, Boot, Lifecycle, Adopt, Spawn, SpawnFails, PollExited, PollReady,
              PollExpired, StopReturns, Reject, Exit, Kill, Stop
<1>2. ASSUME NEW p \in Procs, External(p) PROVE socketFile' \in BOOLEAN /\ transport' = transport
  BY <1>2, Zenon DEF External, Listen, Crash, ObeyTerm, TypeOK
<1>3. CASE Tick
  BY <1>3 DEF Tick, TypeOK
<1>4. CASE UNCHANGED vars
  BY <1>4 DEF vars, TypeOK
<1> QED
  BY <1>1, <1>2, <1>3, <1>4, NextIsStep, Zenon DEF TypeOK

\* The effect of stop() on the handles and the processes.
LEMMA StopTypes ==
    ASSUME TypeOK, NEW e \in Engines, NEW to \in {"failed", "rejected", "gone"}, Stop(e, to)
    PROVE  /\ phase' \in [Engines -> {"new", "starting", "polling", "serving", "failed",
                                      "rejected", "stopping", "gone", "killed"}]
           /\ own' \in [Engines -> Procs \cup {NoProc}]
           /\ victim' \in [Engines -> Procs \cup {NoProc}]
           /\ after' \in [Engines -> {"failed", "rejected", "gone"}]
           /\ timer' \in [Engines -> Nat]
           /\ server' \in [Procs -> {"unborn", "booting", "listening", "terminating", "dead"}]
           /\ spawner' = spawner
<1> USE SofficeServerAssumption DEF TypeOK, Goto, Running, Alive
<1>1. CASE own[e] # NoProc /\ Running(own[e])
  BY <1>1 DEF Stop, SigTerm
<1>2. CASE ~(own[e] # NoProc /\ Running(own[e]))
  BY <1>2 DEF Stop
<1> QED
  BY <1>1, <1>2

LEMMA TypeInductive == IInv /\ [Next]_vars => TypeOK'
<1> SUFFICES ASSUME IInv, [Next]_vars PROVE TypeOK'
  OBVIOUS
<1> USE SofficeServerAssumption DEF IInv
<1> DEFINE T == /\ phase' \in [Engines -> {"new", "starting", "polling", "serving", "failed",
                                          "rejected", "stopping", "gone", "killed"}]
                /\ own' \in [Engines -> Procs \cup {NoProc}]
                /\ victim' \in [Engines -> Procs \cup {NoProc}]
                /\ after' \in [Engines -> {"failed", "rejected", "gone"}]
                /\ timer' \in [Engines -> Nat]
                /\ server' \in [Procs -> {"unborn", "booting", "listening", "terminating",
                                          "dead"}]
                /\ spawner' \in [Procs -> Engines \cup {Rootfs}]
<1>1. ASSUME NEW e \in Engines, Step(e) PROVE T
  <2>1. CASE PollExpired(e) \/ Reject(e) \/ Exit(e)
    BY <2>1, StopTypes DEF PollExpired, Reject, Exit, TypeOK
  <2>2. CASE Boot(e) \/ Adopt(e) \/ Spawn(e) \/ SpawnFails(e)
    BY <2>2 DEF Boot, Adopt, Spawn, SpawnFails, Goto, TypeOK
  <2>3. CASE PollExited(e) \/ PollReady(e) \/ Kill(e)
    BY <2>3 DEF PollExited, PollReady, Kill, Goto, TypeOK
  <2>4. CASE StopReturns(e)
    BY <2>4 DEF StopReturns, Goto, TypeOK, HandleInv
  <2> QED
    BY <1>1, <2>1, <2>2, <2>3, <2>4, Zenon DEF Step, Lifecycle
<1>2. ASSUME NEW p \in Procs, External(p) PROVE T
  BY <1>2 DEF External, Listen, Crash, ObeyTerm, engineVars, TypeOK
<1>3. ASSUME Tick PROVE T
  <2>1. timer' \in [Engines -> Nat]
    BY <1>3 DEF Tick, Timed, TypeOK
  <2> QED
    BY <1>3, <2>1 DEF Tick, TypeOK
<1>4. ASSUME UNCHANGED vars PROVE T
  BY <1>4 DEF vars, engineVars, TypeOK
<1>5. T
  <2> HIDE DEF T
  <2> QED
    BY <1>1, <1>2, <1>3, <1>4, NextIsStep, Zenon
<1>6. transport' \in {"socket", "pipe"}
  BY SocketFileType DEF TypeOK
<1>7. socketFile' \in BOOLEAN
  BY SocketFileType, Zenon
<1> QED
  BY <1>5, <1>6, <1>7, Zenon DEF TypeOK

-----------------------------------------------------------------------------
\* The handles.
LEMMA HandleInductive == IInv /\ [Next]_vars => HandleInv'
<1> SUFFICES ASSUME IInv, [Next]_vars, NEW d \in Engines PROVE HandleInv!(d)'
  BY DEF HandleInv
<1> USE SofficeServerAssumption DEF IInv, HandleInv, Its
<1>1. ASSUME NEW e \in Engines, Step(e) PROVE HandleInv!(d)'
  <2>1. ASSUME NEW to \in {"failed", "rejected", "gone"}, Stop(e, to),
               phase[e] \in {"polling", "serving", "failed", "rejected"}
        PROVE  HandleInv!(d)'
    <3>1. CASE own[e] # NoProc /\ Running(own[e])
      BY <2>1, <3>1 DEF Stop, SigTerm, Goto, TypeOK, Running, Alive
    <3>2. CASE ~(own[e] # NoProc /\ Running(own[e]))
      BY <2>1, <3>2 DEF Stop, Goto, TypeOK
    <3> QED
      BY <3>1, <3>2
  <2>2. CASE PollExpired(e) \/ Reject(e) \/ Exit(e)
    BY <2>1, <2>2 DEF PollExpired, Reject, Exit
  <2>3. CASE Boot(e) \/ Adopt(e) \/ SpawnFails(e)
    BY <2>3 DEF Boot, Adopt, SpawnFails, Goto, TypeOK
  <2>4. CASE Spawn(e)
    BY <2>4 DEF Spawn, Goto, TypeOK
  <2>5. CASE PollExited(e) \/ PollReady(e) \/ Kill(e)
    BY <2>5 DEF PollExited, PollReady, Kill, Goto, TypeOK, Over
  <2>6. CASE StopReturns(e)
    BY <2>6 DEF StopReturns, Goto, TypeOK
  <2> QED
    BY <1>1, <2>2, <2>3, <2>4, <2>5, <2>6, Zenon DEF Step, Lifecycle
<1>2. ASSUME NEW p \in Procs, External(p) PROVE HandleInv!(d)'
  BY <1>2 DEF External, Listen, Crash, ObeyTerm, engineVars, TypeOK, Running, Alive
<1>3. CASE Tick
  BY <1>3 DEF Tick
<1>4. CASE UNCHANGED vars
  BY <1>4 DEF vars, engineVars
<1> QED
  BY <1>1, <1>2, <1>3, <1>4, NextIsStep, Zenon

-----------------------------------------------------------------------------
\* Which process may run after a step, and in whose hands.
LEMMA HeldInductive == IInv /\ [Next]_vars => RunningServerIsHeld'
<1> DEFINE Held(q) == \/ spawner[q] = Rootfs
                      \/ phase[spawner[q]] = "killed"
                      \/ q \in {own[spawner[q]], victim[spawner[q]]}
<1> SUFFICES ASSUME IInv, [Next]_vars, NEW q \in Procs, Running(q)'
             PROVE  Held(q)'
  BY DEF RunningServerIsHeld
<1> USE SofficeServerAssumption DEF IInv
<1>0. spawner[q] \in Engines \cup {Rootfs} /\ (Running(q) => Held(q))
  BY DEF TypeOK, RunningServerIsHeld
<1>1. ASSUME NEW e \in Engines, Step(e) PROVE Held(q)'
  <2>1. ASSUME NEW to \in {"failed", "rejected", "gone"}, Stop(e, to),
               phase[e] \in {"polling", "serving", "failed", "rejected"}
        PROVE  Held(q)'
    <3>1. CASE own[e] # NoProc /\ Running(own[e])
      BY <1>0, <2>1, <3>1 DEF Stop, SigTerm, Goto, TypeOK, Running, Alive, HandleInv, Its
    <3>2. CASE ~(own[e] # NoProc /\ Running(own[e]))
      BY <1>0, <2>1, <3>2 DEF Stop, Goto, TypeOK, Running, Alive, HandleInv, Its
    <3> QED
      BY <3>1, <3>2
  <2>2. CASE PollExpired(e) \/ Reject(e) \/ Exit(e)
    BY <2>1, <2>2 DEF PollExpired, Reject, Exit
  <2>3. CASE Boot(e) \/ Adopt(e) \/ SpawnFails(e)
    BY <1>0, <2>3 DEF Boot, Adopt, SpawnFails, Goto, TypeOK, Running
  <2>4. CASE Spawn(e)
    BY <1>0, <2>4 DEF Spawn, Goto, TypeOK, Running, Alive, HandleInv, Its
  <2>5. CASE PollExited(e) \/ PollReady(e) \/ Kill(e)
    BY <1>0, <2>5 DEF PollExited, PollReady, Kill, Goto, TypeOK, Running, Alive, HandleInv, Its
  <2>6. CASE StopReturns(e)
    BY <1>0, <2>6 DEF StopReturns, Goto, TypeOK, Running, Alive, HandleInv, Its
  <2> QED
    BY <1>1, <2>2, <2>3, <2>4, <2>5, <2>6, Zenon DEF Step, Lifecycle
<1>2. ASSUME NEW p \in Procs, External(p) PROVE Held(q)'
  BY <1>0, <1>2 DEF External, Listen, Crash, ObeyTerm, engineVars, TypeOK, Running, Alive
<1>3. CASE Tick
  BY <1>0, <1>3 DEF Tick, Running
<1>4. CASE UNCHANGED vars
  BY <1>0, <1>4 DEF vars, engineVars, Running
<1> QED
  BY <1>1, <1>2, <1>3, <1>4, NextIsStep, Zenon

THEOREM Invariant == Spec => []IInv
<1>1. Init => IInv
  BY InitInv
<1>2. IInv /\ [Next]_vars => IInv'
  BY TypeInductive, HandleInductive, HeldInductive DEF IInv
<1> QED
  BY <1>1, <1>2, PTL DEF Spec

-----------------------------------------------------------------------------
\* The state of the servers' life has its types (every operation of uno.py and uno_pipe.py
\* on _proc).
THEOREM TypeCorrect == Spec => []TypeOK
BY Invariant, PTL DEF IInv

\* No server process is lost: it runs only in the hands of the engine that spawned it, or
\* because that engine was killed (start, _wait_ready, stop, atexit).
THEOREM NoServerLost == Spec => []RunningServerIsHeld
BY Invariant, PTL DEF IInv

\* stop() signals nothing that its engine did not spawn: an adopted server survives.
THEOREM OnlyOwnStopped == Spec => []StopsOnlyItsOwn
<1>1. IInv => StopsOnlyItsOwn
  BY DEF IInv, HandleInv, Its, StopsOnlyItsOwn
<1> QED
  BY <1>1, Invariant, PTL
=============================================================================
