---------------------------- MODULE EngineProofs ----------------------------
(***************************************************************************)
(* Proofs about Engine, for any number of jobs and any set of deployments. *)
(*                                                                         *)
(* The invariant says who can be building (the holder of the lock, while   *)
(* there is no converter), that the processes alive are those the engine's *)
(* references stand for, and that the converter agrees with them.          *)
(***************************************************************************)
EXTENDS Engine, TLAPS

Building == {"cold", "build"}

\* Only the holder of the lock builds, and only while there is no converter.
LockInv ==
    /\ \A j \in Jobs : pc[j] \in Building <=> lock = j
    /\ lock # Free => converter = NoConverter
    /\ \A j \in Jobs : pc[j] = "cold" => ocrServer = "none"

\* Nothing is built or warmed out of turn.
PhaseInv ==
    /\ phase \in {"warm_uno", "warm_ocr"} =>
          converter = NoConverter /\ ocrServer = "none" /\ \A j \in Jobs : pc[j] = "idle"
    /\ phase = "warm_uno" => unoServer = "none"
    /\ phase = "exited" => \A j \in Jobs : pc[j] \in {"idle", "done", "failed"}

\* What each job was given.
GotInv ==
    \A j \in Jobs :
        /\ pc[j] \in {"converting", "done"} => converter # NoConverter /\ got[j] = converter
        /\ pc[j] = "failed" => got[j] = Refused
        /\ pc[j] \notin {"converting", "done", "failed"} => got[j] = NoConverter

\* The processes alive are those the references stand for, and atexit has them.
ProcessInv ==
    /\ running["soffice"] = IF unoServer = "spawned" /\ phase # "exited" THEN 1 ELSE 0
    /\ running["ocr"] = IF ocrServer = "ocr" /\ phase # "exited" THEN 1 ELSE 0
    /\ running["boxed"] = IF ocrServer = "boxed" /\ phase # "exited" THEN 1 ELSE 0
    /\ unoServer = "spawned" => "soffice" \in reap
    /\ ocrServer \in Helper => ocrServer \in reap

\* The converter was given what its sandbox allows of the engine's helpers, and what it
\* does not allow was stopped.
ConverterInv ==
    converter # NoConverter =>
        IF SandboxesEachCall(converter.sandbox)
          THEN /\ unoServer # "spawned" /\ ocrServer # "ocr"
               /\ converter.uno = "none"
               /\ converter.ocr = IF ocrServer = "boxed" THEN "boxed" ELSE "none"
          ELSE converter.uno = unoServer /\ converter.ocr = ocrServer

IInv == TypeOK /\ LockInv /\ PhaseInv /\ GotInv /\ ProcessInv /\ ConverterInv

-----------------------------------------------------------------------------
\* A selection is a sandbox or none.
LEMMA SelectionIsSandbox ==
    ASSUME TypeOK
    PROVE  Selections \subseteq Sandbox \cup {NoSandbox}
<1>1. host.found \subseteq Backend
  BY EngineAssumption DEF TypeOK, Deployment
<1> QED
  BY <1>1 DEF Selections, Sandbox

\* A converter is made of a sandbox and of the engine's references.
LEMMA ConverterIsOne ==
    ASSUME TypeOK, NEW s \in Sandbox
    PROVE  /\ ConverterOn(s) \in Converters
           /\ ConverterOn(s) # NoConverter /\ ConverterOn(s) # Refused
<1>1. ConverterOn(s) \in Converters
  BY DEF ConverterOn, Converters, TypeOK
<1> QED
  BY <1>1, EngineAssumption

LEMMA InitIInv == Init => IInv
<1> SUFFICES ASSUME Init PROVE IInv
  OBVIOUS
<1>1. TypeOK
  BY DEF Init, TypeOK, Helper
<1>2. LockInv /\ PhaseInv /\ GotInv /\ ProcessInv /\ ConverterInv
  BY EngineAssumption DEF Init, LockInv, Building, PhaseInv, GotInv, ProcessInv, ConverterInv,
                          Helper
<1> QED
  BY <1>1, <1>2 DEF IInv

-----------------------------------------------------------------------------
\* Every step preserves the types; that a count stays a natural number needs the rest of
\* the invariant.
LEMMA NextTypeOK == IInv /\ [Next]_vars => TypeOK'
<1> SUFFICES ASSUME IInv, [Next]_vars PROVE TypeOK'
  OBVIOUS
<1> USE DEF IInv, helperVars, jobVars
<1>1. CASE SkipUno
  BY <1>1 DEF SkipUno, TypeOK
<1>2. CASE StartUno
  BY <1>2 DEF StartUno, Started, TypeOK, Helper
<1>3. CASE SkipOcr
  BY <1>3 DEF SkipOcr, TypeOK
<1>4. CASE StartOcr
  <2>1. ocrServer' \in {"ocr", "boxed"}
    BY <1>4 DEF StartOcr
  <2> QED
    BY <1>4, <2>1 DEF StartOcr, Started, TypeOK, Helper
<1>5. ASSUME NEW j \in Jobs, NEW env \in Env, Submit(j, env) PROVE TypeOK'
  BY <1>5 DEF Submit, Goto, TypeOK, Env
<1>6. ASSUME NEW j \in Jobs, ConvertOptionsFromEnv(j) PROVE TypeOK'
  BY <1>6 DEF ConvertOptionsFromEnv, Goto, TypeOK
<1>7. ASSUME NEW j \in Jobs, Acquire(j) PROVE TypeOK'
  <2>1. CASE converter # NoConverter
    BY <1>7, <2>1 DEF Acquire, Goto, TypeOK
  <2>2. CASE converter = NoConverter
    BY <1>7, <2>2 DEF Acquire, Goto, TypeOK
  <2> QED
    BY <2>1, <2>2
<1>8. ASSUME NEW j \in Jobs, SkipColdHelper(j) PROVE TypeOK'
  BY <1>8 DEF SkipColdHelper, Goto, TypeOK
<1>9. ASSUME NEW j \in Jobs, StartColdHelper(j) PROVE TypeOK'
  BY <1>9 DEF StartColdHelper, Started, Goto, TypeOK, Helper
<1>10. ASSUME NEW j \in Jobs, ColdHelperFails(j) PROVE TypeOK'
  BY <1>10 DEF ColdHelperFails, Goto, TypeOK
<1>11. ASSUME NEW j \in Jobs, Build(j) PROVE TypeOK'
  <2>1. PICK s \in Sandbox :
            /\ converter' = ConverterOn(s)
            /\ IF SandboxesEachCall(s) THEN RejectBareHelpers
               ELSE UNCHANGED <<unoServer, ocrServer, running>>
    BY <1>11, SelectionIsSandbox DEF Build
  <2>2. converter' \in Converters
    BY <2>1, ConverterIsOne
  <2>3. /\ unoServer' \in {"none", "spawned", "adopted", "stopped"}
        /\ ocrServer' \in {"none", "ocr", "boxed", "stopped"}
    BY <2>1 DEF RejectBareHelpers, TypeOK
  <2>4. running' \in [Helper -> Nat]
    <3>1. CASE SandboxesEachCall(s)
      <4>1. unoServer = "spawned" => running["soffice"] = 1
        BY <1>11 DEF ProcessInv, PhaseInv, Build
      <4>2. ocrServer = "ocr" => running["ocr"] = 1
        BY <1>11 DEF ProcessInv, PhaseInv, Build
      <4> QED
        BY <2>1, <3>1, <4>1, <4>2 DEF RejectBareHelpers, TypeOK, Helper
    <3>2. CASE ~SandboxesEachCall(s)
      BY <2>1, <3>2 DEF TypeOK
    <3> QED
      BY <3>1, <3>2
  <2> QED
    BY <1>11, <2>2, <2>3, <2>4 DEF Build, Goto, TypeOK
<1>12. ASSUME NEW j \in Jobs, BuildFails(j) PROVE TypeOK'
  BY <1>12 DEF BuildFails, Goto, TypeOK
<1>13. ASSUME NEW j \in Jobs, Convert(j) PROVE TypeOK'
  BY <1>13 DEF Convert, Goto, TypeOK
<1>14. CASE Exit
  BY <1>14 DEF Exit, TypeOK, Helper
<1>15. CASE UNCHANGED vars
  BY <1>15 DEF vars, TypeOK
<1> QED
  BY <1>1, <1>2, <1>3, <1>4, <1>5, <1>6, <1>7, <1>8, <1>9, <1>10, <1>11, <1>12, <1>13, <1>14,
     <1>15 DEF Next, JobStep

\* The lock is what makes the building exclusive.
LEMMA NextLockInv == IInv /\ [Next]_vars => LockInv'
<1> SUFFICES ASSUME IInv, [Next]_vars PROVE LockInv'
  OBVIOUS
<1> USE DEF IInv, TypeOK, LockInv, PhaseInv, Building
<1>1. CASE SkipUno
  BY <1>1, EngineAssumption DEF SkipUno, helperVars, jobVars
<1>2. CASE StartUno
  BY <1>2, EngineAssumption DEF StartUno, helperVars, jobVars
<1>3. CASE SkipOcr
  BY <1>3, EngineAssumption DEF SkipOcr, helperVars, jobVars
<1>4. CASE StartOcr
  BY <1>4, EngineAssumption DEF StartOcr, helperVars, jobVars
<1>5. ASSUME NEW j \in Jobs, NEW env \in Env, Submit(j, env) PROVE LockInv'
  BY <1>5, EngineAssumption DEF Submit, Goto, helperVars
<1>6. ASSUME NEW j \in Jobs, ConvertOptionsFromEnv(j) PROVE LockInv'
  BY <1>6, EngineAssumption DEF ConvertOptionsFromEnv, Goto, helperVars
<1>7. ASSUME NEW j \in Jobs, Acquire(j) PROVE LockInv'
  BY <1>7, EngineAssumption DEF Acquire, Goto, helperVars
<1>8. ASSUME NEW j \in Jobs, SkipColdHelper(j) PROVE LockInv'
  BY <1>8, EngineAssumption DEF SkipColdHelper, Goto, helperVars
<1>9. ASSUME NEW j \in Jobs, StartColdHelper(j) PROVE LockInv'
  BY <1>9, EngineAssumption DEF StartColdHelper, Goto, helperVars
<1>10. ASSUME NEW j \in Jobs, ColdHelperFails(j) PROVE LockInv'
  BY <1>10, EngineAssumption DEF ColdHelperFails, Goto, helperVars
<1>11. ASSUME NEW j \in Jobs, Build(j) PROVE LockInv'
  BY <1>11, EngineAssumption DEF Build, Goto, helperVars
<1>12. ASSUME NEW j \in Jobs, BuildFails(j) PROVE LockInv'
  BY <1>12, EngineAssumption DEF BuildFails, Goto, helperVars
<1>13. ASSUME NEW j \in Jobs, Convert(j) PROVE LockInv'
  BY <1>13, EngineAssumption DEF Convert, Goto, helperVars
<1>14. CASE Exit
  BY <1>14, EngineAssumption DEF Exit, helperVars, jobVars
<1>15. CASE UNCHANGED vars
  BY <1>15, EngineAssumption DEF vars, helperVars, jobVars
<1> QED
  BY <1>1, <1>2, <1>3, <1>4, <1>5, <1>6, <1>7, <1>8,
     <1>9, <1>10, <1>11, <1>12, <1>13, <1>14, <1>15 DEF Next, JobStep

\* No job runs before warmup is over or after the interpreter has exited.
LEMMA NextPhaseInv == IInv /\ [Next]_vars => PhaseInv'
<1> SUFFICES ASSUME IInv, [Next]_vars PROVE PhaseInv'
  OBVIOUS
<1> USE DEF IInv, TypeOK, PhaseInv
<1>1. CASE SkipUno
  BY <1>1 DEF SkipUno, helperVars, jobVars
<1>2. CASE StartUno
  BY <1>2 DEF StartUno, helperVars, jobVars
<1>3. CASE SkipOcr
  BY <1>3 DEF SkipOcr, helperVars, jobVars
<1>4. CASE StartOcr
  BY <1>4 DEF StartOcr, helperVars, jobVars
<1>5. ASSUME NEW j \in Jobs, NEW env \in Env, Submit(j, env) PROVE PhaseInv'
  BY <1>5 DEF Submit, Goto, helperVars
<1>6. ASSUME NEW j \in Jobs, ConvertOptionsFromEnv(j) PROVE PhaseInv'
  BY <1>6 DEF ConvertOptionsFromEnv, Goto, helperVars
<1>7. ASSUME NEW j \in Jobs, Acquire(j) PROVE PhaseInv'
  BY <1>7 DEF Acquire, Goto, helperVars
<1>8. ASSUME NEW j \in Jobs, SkipColdHelper(j) PROVE PhaseInv'
  BY <1>8 DEF SkipColdHelper, Goto, helperVars
<1>9. ASSUME NEW j \in Jobs, StartColdHelper(j) PROVE PhaseInv'
  BY <1>9 DEF StartColdHelper, Goto, helperVars
<1>10. ASSUME NEW j \in Jobs, ColdHelperFails(j) PROVE PhaseInv'
  BY <1>10 DEF ColdHelperFails, Goto, helperVars
<1>11. ASSUME NEW j \in Jobs, Build(j) PROVE PhaseInv'
  BY <1>11 DEF Build, Goto, helperVars
<1>12. ASSUME NEW j \in Jobs, BuildFails(j) PROVE PhaseInv'
  BY <1>12 DEF BuildFails, Goto, helperVars
<1>13. ASSUME NEW j \in Jobs, Convert(j) PROVE PhaseInv'
  BY <1>13 DEF Convert, Goto, helperVars
<1>14. CASE Exit
  BY <1>14 DEF Exit, helperVars, jobVars
<1>15. CASE UNCHANGED vars
  BY <1>15 DEF vars, helperVars, jobVars
<1> QED
  BY <1>1, <1>2, <1>3, <1>4, <1>5, <1>6, <1>7, <1>8,
     <1>9, <1>10, <1>11, <1>12, <1>13, <1>14, <1>15 DEF Next, JobStep

\* A converter, once built, is never replaced: every job has the same.
LEMMA NextGotInv == IInv /\ [Next]_vars => GotInv'
<1> SUFFICES ASSUME IInv, [Next]_vars PROVE GotInv'
  OBVIOUS
<1> USE DEF IInv, TypeOK, LockInv, GotInv, Building, PhaseInv
<1>1. CASE SkipUno
  BY <1>1, EngineAssumption DEF SkipUno, helperVars, jobVars
<1>2. CASE StartUno
  BY <1>2, EngineAssumption DEF StartUno, helperVars, jobVars
<1>3. CASE SkipOcr
  BY <1>3, EngineAssumption DEF SkipOcr, helperVars, jobVars
<1>4. CASE StartOcr
  BY <1>4, EngineAssumption DEF StartOcr, helperVars, jobVars
<1>5. ASSUME NEW j \in Jobs, NEW env \in Env, Submit(j, env) PROVE GotInv'
  BY <1>5, EngineAssumption DEF Submit, Goto, helperVars
<1>6. ASSUME NEW j \in Jobs, ConvertOptionsFromEnv(j) PROVE GotInv'
  BY <1>6, EngineAssumption DEF ConvertOptionsFromEnv, Goto, helperVars
<1>7. ASSUME NEW j \in Jobs, Acquire(j) PROVE GotInv'
  BY <1>7, EngineAssumption DEF Acquire, Goto, helperVars
<1>8. ASSUME NEW j \in Jobs, SkipColdHelper(j) PROVE GotInv'
  BY <1>8, EngineAssumption DEF SkipColdHelper, Goto, helperVars
<1>9. ASSUME NEW j \in Jobs, StartColdHelper(j) PROVE GotInv'
  BY <1>9, EngineAssumption DEF StartColdHelper, Goto, helperVars
<1>10. ASSUME NEW j \in Jobs, ColdHelperFails(j) PROVE GotInv'
  BY <1>10, EngineAssumption DEF ColdHelperFails, Goto, helperVars
<1>11. ASSUME NEW j \in Jobs, Build(j) PROVE GotInv'
  <2>1. converter' # NoConverter
    BY <1>11, SelectionIsSandbox, ConverterIsOne DEF Build
  <2>2. converter = NoConverter
    BY <1>11, EngineAssumption DEF Build
  <2>3. \A i \in Jobs : pc[i] \notin {"converting", "done"}
    BY <2>2
  <2>4. /\ pc' = [pc EXCEPT ![j] = "converting"]
        /\ got' = [got EXCEPT ![j] = converter']
    BY <1>11 DEF Build, Goto
  <2> QED
    BY <2>1, <2>3, <2>4
<1>12. ASSUME NEW j \in Jobs, BuildFails(j) PROVE GotInv'
  BY <1>12, EngineAssumption DEF BuildFails, Goto, helperVars
<1>13. ASSUME NEW j \in Jobs, Convert(j) PROVE GotInv'
  BY <1>13, EngineAssumption DEF Convert, Goto, helperVars
<1>14. CASE Exit
  BY <1>14, EngineAssumption DEF Exit, helperVars, jobVars
<1>15. CASE UNCHANGED vars
  BY <1>15, EngineAssumption DEF vars, helperVars, jobVars
<1> QED
  BY <1>1, <1>2, <1>3, <1>4, <1>5, <1>6, <1>7, <1>8,
     <1>9, <1>10, <1>11, <1>12, <1>13, <1>14, <1>15 DEF Next, JobStep

\* A process starts with its reference, and is stopped with it.
LEMMA NextProcessInv == IInv /\ [Next]_vars => ProcessInv'
<1> SUFFICES ASSUME IInv, [Next]_vars PROVE ProcessInv'
  OBVIOUS
<1> USE DEF IInv, TypeOK, ProcessInv, PhaseInv, LockInv, Building, Helper
<1>1. CASE SkipUno
  BY <1>1 DEF SkipUno, helperVars, jobVars
<1>2. CASE StartUno
  BY <1>2 DEF StartUno, helperVars, jobVars, Started
<1>3. CASE SkipOcr
  BY <1>3 DEF SkipOcr, helperVars, jobVars
<1>4. CASE StartOcr
  BY <1>4 DEF StartOcr, helperVars, jobVars, Started
<1>5. ASSUME NEW j \in Jobs, NEW env \in Env, Submit(j, env) PROVE ProcessInv'
  BY <1>5 DEF Submit, Goto, helperVars
<1>6. ASSUME NEW j \in Jobs, ConvertOptionsFromEnv(j) PROVE ProcessInv'
  BY <1>6 DEF ConvertOptionsFromEnv, Goto, helperVars
<1>7. ASSUME NEW j \in Jobs, Acquire(j) PROVE ProcessInv'
  BY <1>7 DEF Acquire, Goto, helperVars
<1>8. ASSUME NEW j \in Jobs, SkipColdHelper(j) PROVE ProcessInv'
  BY <1>8 DEF SkipColdHelper, Goto, helperVars
<1>9. ASSUME NEW j \in Jobs, StartColdHelper(j) PROVE ProcessInv'
  BY <1>9 DEF StartColdHelper, Goto, helperVars, Started
<1>10. ASSUME NEW j \in Jobs, ColdHelperFails(j) PROVE ProcessInv'
  BY <1>10 DEF ColdHelperFails, Goto, helperVars
<1>11. ASSUME NEW j \in Jobs, Build(j) PROVE ProcessInv'
  BY <1>11 DEF Build, Goto, helperVars, RejectBareHelpers
<1>12. ASSUME NEW j \in Jobs, BuildFails(j) PROVE ProcessInv'
  BY <1>12 DEF BuildFails, Goto, helperVars
<1>13. ASSUME NEW j \in Jobs, Convert(j) PROVE ProcessInv'
  BY <1>13 DEF Convert, Goto, helperVars
<1>14. CASE Exit
  BY <1>14 DEF Exit, helperVars, jobVars
<1>15. CASE UNCHANGED vars
  BY <1>15 DEF vars, helperVars, jobVars
<1> QED
  BY <1>1, <1>2, <1>3, <1>4, <1>5, <1>6, <1>7, <1>8,
     <1>9, <1>10, <1>11, <1>12, <1>13, <1>14, <1>15 DEF Next, JobStep

\* The helpers change only while there is no converter.
LEMMA NextConverterInv == IInv /\ [Next]_vars => ConverterInv'
<1> SUFFICES ASSUME IInv, [Next]_vars PROVE ConverterInv'
  OBVIOUS
<1> USE DEF IInv, TypeOK, ConverterInv, PhaseInv, LockInv, Building
<1>1. CASE SkipUno
  BY <1>1 DEF SkipUno, helperVars, jobVars
<1>2. CASE StartUno
  BY <1>2 DEF StartUno, helperVars, jobVars
<1>3. CASE SkipOcr
  BY <1>3 DEF SkipOcr, helperVars, jobVars
<1>4. CASE StartOcr
  BY <1>4 DEF StartOcr, helperVars, jobVars
<1>5. ASSUME NEW j \in Jobs, NEW env \in Env, Submit(j, env) PROVE ConverterInv'
  BY <1>5 DEF Submit, Goto, helperVars
<1>6. ASSUME NEW j \in Jobs, ConvertOptionsFromEnv(j) PROVE ConverterInv'
  BY <1>6 DEF ConvertOptionsFromEnv, Goto, helperVars
<1>7. ASSUME NEW j \in Jobs, Acquire(j) PROVE ConverterInv'
  BY <1>7 DEF Acquire, Goto, helperVars
<1>8. ASSUME NEW j \in Jobs, SkipColdHelper(j) PROVE ConverterInv'
  BY <1>8 DEF SkipColdHelper, Goto, helperVars
<1>9. ASSUME NEW j \in Jobs, StartColdHelper(j) PROVE ConverterInv'
  BY <1>9, EngineAssumption DEF StartColdHelper, Goto, helperVars
<1>10. ASSUME NEW j \in Jobs, ColdHelperFails(j) PROVE ConverterInv'
  BY <1>10 DEF ColdHelperFails, Goto, helperVars
<1>11. ASSUME NEW j \in Jobs, Build(j) PROVE ConverterInv'
  <2>1. PICK s \in Sandbox :
            /\ converter' = ConverterOn(s)
            /\ IF SandboxesEachCall(s) THEN RejectBareHelpers
               ELSE UNCHANGED <<unoServer, ocrServer, running>>
    BY <1>11, SelectionIsSandbox DEF Build
  <2>2. converter'.sandbox = s
    BY <2>1 DEF ConverterOn
  <2>3. CASE SandboxesEachCall(s)
    <3>1. RejectBareHelpers
      BY <2>1, <2>3
    <3>2. unoServer' # "spawned" /\ ocrServer' # "ocr"
      BY <3>1 DEF RejectBareHelpers
    <3>3. ocrServer' = "boxed" <=> ocrServer = "boxed"
      BY <3>1 DEF RejectBareHelpers
    <3>4. /\ converter'.uno = "none"
          /\ converter'.ocr = IF ocrServer = "boxed" THEN "boxed" ELSE "none"
      BY <2>1, <2>3 DEF ConverterOn
    <3> QED
      BY <2>2, <2>3, <3>2, <3>3, <3>4 DEF SandboxesEachCall
  <2>4. CASE ~SandboxesEachCall(s)
    <3>1. converter'.uno = unoServer /\ converter'.ocr = ocrServer
      BY <2>1, <2>4 DEF ConverterOn
    <3> QED
      BY <2>1, <2>2, <2>4, <3>1 DEF SandboxesEachCall
  <2> QED
    BY <2>3, <2>4
<1>12. ASSUME NEW j \in Jobs, BuildFails(j) PROVE ConverterInv'
  BY <1>12 DEF BuildFails, Goto, helperVars
<1>13. ASSUME NEW j \in Jobs, Convert(j) PROVE ConverterInv'
  BY <1>13 DEF Convert, Goto, helperVars
<1>14. CASE Exit
  BY <1>14 DEF Exit, helperVars, jobVars
<1>15. CASE UNCHANGED vars
  BY <1>15 DEF vars, helperVars, jobVars
<1> QED
  BY <1>1, <1>2, <1>3, <1>4, <1>5, <1>6, <1>7, <1>8,
     <1>9, <1>10, <1>11, <1>12, <1>13, <1>14, <1>15 DEF Next, JobStep

LEMMA Inductive == Spec => []IInv
<1>1. IInv /\ [Next]_vars => IInv'
  BY NextTypeOK, NextLockInv, NextPhaseInv, NextGotInv, NextProcessInv, NextConverterInv DEF IInv
<1> QED
  BY InitIInv, <1>1, PTL DEF Spec

-----------------------------------------------------------------------------
\* The variables keep their types; in particular no helper is stopped twice.
THEOREM TypeCorrect == Spec => []TypeOK
<1>1. IInv => TypeOK
  BY DEF IInv
<1> QED
  BY Inductive, <1>1, PTL

\* _build_converter's invariant: whatever warmup started on another answer of
\* select_sandbox, nothing the engine owns stays alive outside a sandbox that confines each
\* call, and the converter uses nothing outside it.
THEOREM BareHelpersAreRejected == Spec => []NoBareHelperBesideSandbox
<1>1. IInv => NoBareHelperBesideSandbox
  BY DEF IInv, ProcessInv, ConverterInv, NoBareHelperBesideSandbox
<1> QED
  BY Inductive, <1>1, PTL

\* However detonate() calls interleave, there is one soffice and one OCR helper at most.
THEOREM HelpersAreSingle == Spec => []OneProcessPerHelper
<1>1. IInv => OneProcessPerHelper
  BY DEF IInv, ProcessInv, OneProcessPerHelper
<1> QED
  BY Inductive, <1>1, PTL

\* The converter holds exactly the helpers that run.
THEOREM HelpersHeldRun == Spec => []HeldHelpersRun
<1>1. IInv => HeldHelpersRun
  BY DEF IInv, ProcessInv, ConverterInv, HeldHelpersRun, TypeOK
<1> QED
  BY Inductive, <1>1, PTL

\* Every helper ever started is stopped by the time the interpreter has exited.
THEOREM ExitReapsHelpers == Spec => []NoProcessOutlivesEngine
<1>1. IInv => NoProcessOutlivesEngine
  BY DEF IInv, ProcessInv, NoProcessOutlivesEngine, Helper
<1> QED
  BY Inductive, <1>1, PTL

-----------------------------------------------------------------------------
(* The refinement.                                                         *)

\* A step of a job that is given nothing, and any other step, leaves `got` and the
\* converter alone.
LEMMA StepImplementsShared == IInv /\ [Next]_vars => [Shared!Next]_(Shared!vars)
<1> SUFFICES ASSUME IInv, [Next]_vars PROVE [Shared!Next]_(Shared!vars)
  OBVIOUS
<1> USE DEF Shared!vars, jobVars
<1>1. ASSUME NEW j \in Jobs, Build(j) PROVE Shared!Build(j)
  <2>1. converter' \in Converters
    BY <1>1, SelectionIsSandbox, ConverterIsOne DEF Build, IInv
  <2>2. converter = NoConverter /\ got[j] = NoConverter
    BY <1>1, EngineAssumption DEF Build, IInv, LockInv, GotInv, Building
  <2> QED
    BY <1>1, <2>1, <2>2 DEF Build, Shared!Build, Shared!Waiting
<1>2. ASSUME NEW j \in Jobs, BuildFails(j) PROVE Shared!Refuse(j)
  <2>1. converter = NoConverter /\ got[j] = NoConverter
    BY <1>2, EngineAssumption DEF BuildFails, IInv, LockInv, GotInv, Building
  <2> QED
    BY <1>2, <2>1 DEF BuildFails, Shared!Refuse, Shared!Waiting
<1>3. ASSUME NEW j \in Jobs, Acquire(j)
      PROVE Shared!Take(j) \/ UNCHANGED Shared!vars
  <2>1. got[j] = NoConverter
    BY <1>3 DEF Acquire, IInv, GotInv
  <2> QED
    BY <1>3, <2>1 DEF Acquire, Shared!Take, Shared!Waiting
<1>4. ASSUME NEW j \in Jobs,
             \/ ConvertOptionsFromEnv(j) \/ SkipColdHelper(j) \/ StartColdHelper(j)
             \/ ColdHelperFails(j) \/ Convert(j) \/ \E env \in Env : Submit(j, env)
      PROVE UNCHANGED Shared!vars
  BY <1>4 DEF ConvertOptionsFromEnv, SkipColdHelper, StartColdHelper, ColdHelperFails, Convert,
              Submit
<1>5. CASE SkipUno \/ StartUno \/ SkipOcr \/ StartOcr \/ Exit \/ UNCHANGED vars
  BY <1>5 DEF SkipUno, StartUno, SkipOcr, StartOcr, Exit, vars
<1> QED
  BY <1>1, <1>2, <1>3, <1>4, <1>5 DEF Next, JobStep, Shared!Next

\* _get_converter is a lazily built singleton: its jobs see SharedConverter.
THEOREM EngineImplementsShared == Spec => ImplementsShared
<1>1. Init => Shared!Init
  BY DEF Init, Shared!Init
<1> QED
  BY <1>1, Inductive, StepImplementsShared, PTL DEF Spec, ImplementsShared, Shared!Spec

\* No two jobs are ever given different converters.
THEOREM JobsShareConverter == Spec => []Shared!OneConverter
<1>1. IInv => Shared!OneConverter
  BY EngineAssumption DEF IInv, TypeOK, GotInv, Shared!OneConverter
<1> QED
  BY Inductive, <1>1, PTL
=============================================================================
