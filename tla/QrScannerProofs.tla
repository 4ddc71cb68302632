-------------------------- MODULE QrScannerProofs --------------------------
(***************************************************************************)
(* Proofs about QrScanner and the sandbox runs it makes, for any number of *)
(* threads and pages.  Neither property is inductive: a killed tree must   *)
(* be known before run() returns, and a late run before its exit code is   *)
(* read.                                                                   *)
(***************************************************************************)
EXTENDS QrScanner, TLAPS

\* Where each thread is, its sandbox run is too.
Engaged ==
    \A t \in Threads : pc[t] \in {"ready", "probe", "scan", "recorded"} => run[t] = "idle"

\* What is left of the tree once the kill was sent, and once run() has returned.
TreesEnd ==
    \A t \in Threads :
        /\ run[t] = "killing" /\ ~Namespaced => alive[t] \subseteq {"session"}
        /\ run[t] = "killing" => "leader" \notin alive[t]
        /\ run[t] = "returned" => alive[t] \subseteq (IF Namespaced THEN {} ELSE {"session"})

\* A run stopped by run() itself is told by its exit code.
LateIsKilled ==
    backend # "nsjail" =>
        \A t \in Threads :
            /\ run[t] = "running" => ~late[t]
            /\ run[t] = "returned" /\ late[t] => result[t].exit = "sigkill"

IInv == TypeOK /\ Engaged /\ TreesEnd /\ LateIsKilled /\ DeadlineIsCleanSkip

LEMMA InitInv == Init => IInv
BY QrAssumption DEF Init, SandboxInit, IInv, TypeOK, SandboxTypeOK, Engaged, TreesEnd,
    LateIsKilled, DeadlineIsCleanSkip, NoResult, Exits, Processes

-----------------------------------------------------------------------------
\* The steps of a sandbox run, whoever asked for it.
SandboxStep(t) == RunStep(t) \/ ProgramStep(t)

LEMMA SandboxTypes ==
    ASSUME SandboxTypeOK, NEW t \in Threads,
           SandboxStep(t) \/ Run(t) \/ ReadyAgain(t)
    PROVE  SandboxTypeOK'
<1> USE DEF SandboxTypeOK, Return
<1>1. CASE Drained(t)
  BY <1>1 DEF Drained, Exits
<1>2. CASE Deadline(t)
  BY <1>2 DEF Deadline
<1>3. CASE Teardown(t)
  BY <1>3 DEF Teardown
<1>4. CASE KillDrained(t)
  BY <1>4 DEF KillDrained, Exits
<1>5. CASE GiveUpDraining(t)
  BY <1>5 DEF GiveUpDraining, Exits
<1>6. CASE Fork(t)
  BY <1>6 DEF Fork
<1>7. CASE DescendantExits(t)
  BY <1>7 DEF DescendantExits
<1>8. CASE LeaderExits(t)
  BY <1>8 DEF LeaderExits, Exits
<1>9. CASE JailDeadline(t)
  BY <1>9 DEF JailDeadline, Exits
<1>10. CASE Run(t)
  <2>1. {NoResult, Raised} \subseteq [exit : Exits \cup {"SandboxError"}, killed : BOOLEAN]
    BY DEF NoResult, Raised, Exits
  <2>2. CASE Launch(t)
    BY <2>1, <2>2 DEF Launch, Processes, Exits
  <2>3. CASE LaunchFails(t)
    BY <2>1, <2>3 DEF LaunchFails
  <2> QED
    BY <1>10, <2>2, <2>3 DEF Run
<1>11. CASE ReadyAgain(t)
  BY <1>11 DEF ReadyAgain
<1> QED
  BY <1>1, <1>2, <1>3, <1>4, <1>5, <1>6, <1>7, <1>8, <1>9, <1>10, <1>11
     DEF SandboxStep, RunStep, ProgramStep

LEMMA TreesEndNext ==
    ASSUME SandboxTypeOK, TreesEnd, NEW t \in Threads,
           SandboxStep(t) \/ Run(t) \/ ReadyAgain(t)
    PROVE  TreesEnd'
<1> USE DEF SandboxTypeOK, TreesEnd, Return, Namespaced, Processes
<1>1. CASE Drained(t)
  BY <1>1 DEF Drained
<1>2. CASE Deadline(t)
  BY <1>2 DEF Deadline
<1>3. CASE Teardown(t)
  BY <1>3 DEF Teardown
<1>4. CASE KillDrained(t)
  BY <1>4 DEF KillDrained
<1>5. CASE GiveUpDraining(t)
  BY <1>5 DEF GiveUpDraining
<1>6. CASE Fork(t)
  BY <1>6 DEF Fork
<1>7. CASE DescendantExits(t)
  BY <1>7 DEF DescendantExits
<1>8. CASE LeaderExits(t)
  BY <1>8 DEF LeaderExits
<1>9. CASE JailDeadline(t)
  BY <1>9 DEF JailDeadline
<1>10. CASE Run(t)
  BY <1>10 DEF Run, Launch, LaunchFails, NoResult, Raised, Exits, Processes
<1>11. CASE ReadyAgain(t)
  BY <1>11 DEF ReadyAgain
<1> QED
  BY <1>1, <1>2, <1>3, <1>4, <1>5, <1>6, <1>7, <1>8, <1>9, <1>10, <1>11
     DEF SandboxStep, RunStep, ProgramStep

LEMMA LateIsKilledNext ==
    ASSUME SandboxTypeOK, LateIsKilled, NEW t \in Threads,
           SandboxStep(t) \/ Run(t) \/ ReadyAgain(t)
    PROVE  LateIsKilled'
<1> USE DEF SandboxTypeOK, LateIsKilled, Return
<1>1. CASE Drained(t)
  BY <1>1 DEF Drained
<1>2. CASE Deadline(t)
  BY <1>2 DEF Deadline
<1>3. CASE Teardown(t)
  BY <1>3 DEF Teardown
<1>4. CASE KillDrained(t)
  BY <1>4 DEF KillDrained
<1>5. CASE GiveUpDraining(t)
  BY <1>5 DEF GiveUpDraining
<1>6. CASE Fork(t)
  BY <1>6 DEF Fork
<1>7. CASE DescendantExits(t)
  BY <1>7 DEF DescendantExits
<1>8. CASE LeaderExits(t)
  BY <1>8 DEF LeaderExits
<1>9. CASE JailDeadline(t)
  BY <1>9 DEF JailDeadline
<1>10. CASE Run(t)
  BY <1>10 DEF Run, Launch, LaunchFails, NoResult, Raised, Exits, Processes
<1>11. CASE ReadyAgain(t)
  BY <1>11 DEF ReadyAgain
<1> QED
  BY <1>1, <1>2, <1>3, <1>4, <1>5, <1>6, <1>7, <1>8, <1>9, <1>10, <1>11
     DEF SandboxStep, RunStep, ProgramStep

-----------------------------------------------------------------------------
\* A step of a run leaves the threads that are not in one as they were.
LEMMA SandboxStepNext ==
    ASSUME IInv, NEW t \in Threads, SandboxStep(t), UNCHANGED qrVars
    PROVE  IInv'
<1>1. SandboxTypeOK' /\ TreesEnd' /\ LateIsKilled'
  BY SandboxTypes, TreesEndNext, LateIsKilledNext DEF IInv, TypeOK
<1>2. /\ \A u \in Threads \ {t} : run'[u] = run[u] /\ late'[u] = late[u]
      /\ backend' = backend
      /\ run[t] \in {"idle", "returned"} => run' = run /\ late' = late
      /\ run[t] \in {"running", "killing"} => run'[t] # "idle"
  <2> USE DEF IInv, TypeOK, SandboxTypeOK
  <2>1. CASE Drained(t) \/ KillDrained(t) \/ GiveUpDraining(t)
    BY <2>1 DEF Drained, KillDrained, GiveUpDraining, Return
  <2>2. CASE Deadline(t) \/ JailDeadline(t)
    BY <2>2 DEF Deadline, JailDeadline
  <2>3. CASE Teardown(t) \/ Fork(t) \/ LeaderExits(t) \/ DescendantExits(t)
    BY <2>3 DEF Teardown, Fork, LeaderExits, DescendantExits
  <2> QED
    BY <2>1, <2>2, <2>3 DEF SandboxStep, RunStep, ProgramStep
<1>3. run[t] \in {"idle", "running", "killing", "returned"}
  BY DEF IInv, TypeOK, SandboxTypeOK
<1>4. pc[t] \in {"ready", "probe", "scan", "recorded"} => run' = run /\ late' = late
  BY <1>2 DEF IInv, Engaged
<1>5. TypeOK'
  BY <1>1 DEF IInv, TypeOK, qrVars
<1>6. Engaged'
  BY <1>2, <1>3 DEF IInv, Engaged, qrVars
<1>7. DeadlineIsCleanSkip'
  BY <1>2, <1>4 DEF IInv, DeadlineIsCleanSkip, qrVars
<1> QED
  BY <1>1, <1>5, <1>6, <1>7 DEF IInv

LEMMA ThreadStepNext ==
    ASSUME IInv, NEW t \in Threads, ThreadStep(t)
    PROVE  IInv'
<1> USE DEF Goto
<1>1. CASE NoReader(t) \/ LookUp(t) \/ NextPage(t)
  <2>1. UNCHANGED sandboxVars
    BY <1>1 DEF NoReader, LookUp, NextPage
  <2>2. SandboxTypeOK' /\ TreesEnd' /\ LateIsKilled'
    BY <2>1 DEF IInv, TypeOK, SandboxTypeOK, TreesEnd, LateIsKilled, sandboxVars, Namespaced
  <2>3. TypeOK'
    <3>1. queued > 0 /\ queued' = queued - 1 => queued' \in 0 .. Pages
      BY QrAssumption DEF IInv, TypeOK
    <3>2. CASE NoReader(t)
      BY <2>2, <3>1, <3>2 DEF IInv, TypeOK, NoReader, TakePage
    <3>3. CASE LookUp(t)
      <4>1. useJson' \in [Threads -> BOOLEAN]
        BY <3>3 DEF IInv, TypeOK, LookUp
      <4> QED
        BY <2>2, <3>1, <3>3, <4>1 DEF IInv, TypeOK, LookUp, TakePage
    <3>4. CASE NextPage(t)
      BY <2>2, <3>4 DEF IInv, TypeOK, NextPage
    <3> QED
      BY <1>1, <3>2, <3>3, <3>4
  <2>4. Engaged'
    BY <1>1, <2>1 DEF IInv, TypeOK, Engaged, NoReader, LookUp, NextPage, sandboxVars
  <2>5. DeadlineIsCleanSkip'
    BY <1>1, <2>1 DEF IInv, TypeOK, DeadlineIsCleanSkip, NoReader, LookUp, NextPage, sandboxVars
  <2> QED
    BY <2>2, <2>3, <2>4, <2>5 DEF IInv
<1>2. CASE StartProbe(t) \/ StartScan(t)
  <2>1. Run(t)
    BY <1>2 DEF StartProbe, StartScan
  <2>2. SandboxTypeOK' /\ TreesEnd' /\ LateIsKilled'
    BY <2>1, SandboxTypes, TreesEndNext, LateIsKilledNext DEF IInv, TypeOK
  <2>3. TypeOK'
    BY <1>2, <2>2 DEF IInv, TypeOK, StartProbe, StartScan
  <2>4. /\ \A u \in Threads \ {t} : run'[u] = run[u] /\ late'[u] = late[u]
        /\ backend' = backend
    BY <2>1 DEF IInv, TypeOK, SandboxTypeOK, Run, Launch, LaunchFails
  <2>5. Engaged'
    BY <1>2, <2>4 DEF IInv, TypeOK, Engaged, StartProbe, StartScan
  <2>6. DeadlineIsCleanSkip'
    BY <1>2, <2>4 DEF IInv, TypeOK, DeadlineIsCleanSkip, StartProbe, StartScan
  <2> QED
    BY <2>2, <2>3, <2>5, <2>6 DEF IInv
<1>3. CASE EndProbe(t) \/ EndScan(t)
  <2>1. ReadyAgain(t)
    BY <1>3 DEF EndProbe, EndScan
  <2>2. SandboxTypeOK' /\ TreesEnd' /\ LateIsKilled'
    BY <2>1, SandboxTypes, TreesEndNext, LateIsKilledNext DEF IInv, TypeOK
  <2>3. TypeOK'
    <3>1. CASE EndProbe(t)
      BY <3>1, <2>2 DEF IInv, TypeOK, EndProbe, HelpSaysJson
    <3>2. CASE EndScan(t)
      BY <3>2, <2>2 DEF IInv, TypeOK, EndScan, Verdict
    <3> QED
      BY <1>3, <3>1, <3>2
  <2>4. /\ \A u \in Threads \ {t} : run'[u] = run[u]
        /\ run'[t] = "idle" /\ UNCHANGED <<late, backend, result>>
    BY <2>1 DEF IInv, TypeOK, SandboxTypeOK, ReadyAgain
  <2>5. Engaged'
    BY <1>3, <2>4 DEF IInv, TypeOK, Engaged, EndProbe, EndScan
  <2>6. backend # "nsjail" /\ late[t] => Verdict(t) = "timeout"
    BY <2>1 DEF IInv, LateIsKilled, ReadyAgain, Verdict
  <2>7. DeadlineIsCleanSkip'
    BY <1>3, <2>4, <2>6 DEF IInv, TypeOK, DeadlineIsCleanSkip, EndProbe, EndScan
  <2> QED
    BY <2>2, <2>3, <2>5, <2>7 DEF IInv
<1> QED
  BY <1>1, <1>2, <1>3 DEF ThreadStep

LEMMA NextInv == IInv /\ [Next]_vars => IInv'
<1> SUFFICES ASSUME IInv, [Next]_vars PROVE IInv'
  OBVIOUS
<1>1. CASE UNCHANGED vars
  BY <1>1 DEF IInv, TypeOK, SandboxTypeOK, Engaged, TreesEnd, LateIsKilled,
     DeadlineIsCleanSkip, Namespaced, vars, sandboxVars, qrVars
<1>2. ASSUME NEW t \in Threads, ThreadStep(t) PROVE IInv'
  BY <1>2, ThreadStepNext
<1>3. ASSUME NEW t \in Threads, RunStep(t) \/ ProgramStep(t), UNCHANGED qrVars PROVE IInv'
  BY <1>3, SandboxStepNext DEF SandboxStep
<1> QED
  BY <1>1, <1>2, <1>3 DEF Next

\* The inductive invariant, from which the results below follow.
THEOREM Invariant == Spec => []IInv
BY InitInv, NextInv, PTL DEF Spec

-----------------------------------------------------------------------------
\* Type correctness of the page threads and of their sandbox runs.
THEOREM TypeCorrect == Spec => []TypeOK
<1>1. IInv => TypeOK
  BY DEF IInv
<1> QED
  BY <1>1, Invariant, PTL

\* container.py:177: nothing is left of a program that run() says it killed, but for what
\* left the session on the container backend, however many runs go on at once.
THEOREM KilledTreeIsGone == Spec => []KilledIsGone
<1>1. IInv => KilledIsGone
  BY DEF IInv, TreesEnd, KilledIsGone
<1> QED
  BY <1>1, Invariant, PTL

\* converter.py:385-387: whatever its reader did before, a scan stopped at its deadline is
\* recorded as a timeout, on the backends that report it as -SIGKILL.
THEOREM DeadlineIsNoError == Spec => []DeadlineIsCleanSkip
<1>1. IInv => DeadlineIsCleanSkip
  BY DEF IInv
<1> QED
  BY <1>1, Invariant, PTL
=============================================================================
