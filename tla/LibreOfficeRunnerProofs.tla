---------------------- MODULE LibreOfficeRunnerProofs ----------------------
(***************************************************************************)
(* Proofs about LibreOfficeRunner, for every set of jobs and documents and *)
(* every timeout: the PDF returned is the winner's, an unpacked document is*)
(* never given back to soffice in its wrapper, and the chain of filters    *)
(* keeps its deadline.                                                     *)
(***************************************************************************)
EXTENDS LibreOfficeRunner, TLAPS

-----------------------------------------------------------------------------
(* The inductive invariant.                                                *)

\* Which documents take which path through the staging.
Path(j) ==
    /\ pc[j] = "unpack" => doc[j].label = "mht"
    /\ pc[j] = "altchunk" => doc[j].label = "docx"
    /\ pc[j] = "converting" => doc[j].label \in {"xlsx", "xls"}

\* Where the chain of filters is.
Chain(j) ==
    /\ pc[j] = "loop" => attempt[j] <= LastFilter(j) + 1
    /\ pc[j] \in {"soffice", "retry"} => attempt[j] <= LastFilter(j)
    /\ pc[j] \notin Looping \cup Exported \cup Terminal => attempt[j] = 1

\* An unpacked document is staged under its new name, for good.
Unpacked(j) ==
    stage[j]["html"] = "html" =>
        /\ keep[j] /\ staged[j] = "html"
        /\ doc[j].label \in {"mht", "docx"}
        /\ pc[j] \notin {"new", "unpack", "altchunk", "converting", "retry"}
        /\ pc[j] = "soffice" => trying[j] = "html"

\* The output directory is empty while soffice runs.
Output(j) ==
    late[j] = "never" =>
        /\ pc[j] \in {"soffice", "retry"} => out[j] = None
        /\ pc[j] \in Exported => out[j] = winner[j]

Deadline(j) ==
    /\ pc[j] = "soffice" /\ IsRetry(j) => run[j] <= left[j] + Timeout
    /\ failure[j] = "all_failed" =>
           pc[j] = "failed" /\ (attempt[j] > LastFilter(j) \/ left[j] <= 0)

JobInv(j) == Path(j) /\ Chain(j) /\ Unpacked(j) /\ Output(j) /\ Deadline(j)

IInv == TypeOK /\ \A j \in Jobs : JobInv(j)

\* Nothing of job j changes.
Same(j) ==
    /\ doc'[j] = doc[j] /\ pc'[j] = pc[j] /\ stage'[j] = stage[j]
    /\ staged'[j] = staged[j] /\ keep'[j] = keep[j] /\ attempt'[j] = attempt[j]
    /\ trying'[j] = trying[j] /\ run'[j] = run[j] /\ left'[j] = left[j]
    /\ out'[j] = out[j] /\ winner'[j] = winner[j] /\ late'[j] = late[j]
    /\ failure'[j] = failure[j]

-----------------------------------------------------------------------------
(* The chain of filters.                                                   *)

LEMMA ChainLength ==
    ASSUME NEW d PROVE Len(Filters(d)) \in 1 .. 3
  BY DEF Filters

LEMMA LastFilterBounds ==
    ASSUME NEW j PROVE LastFilter(j) \in 1 .. 3
  BY ChainLength DEF LastFilter

LEMMA LastFilterIsFixed ==
    ASSUME NEW j, doc'[j] = doc[j] PROVE LastFilter(j)' = LastFilter(j)
  BY DEF LastFilter, Filters

\* What is untouched keeps its part of the invariant.
LEMMA SameKeeps ==
    ASSUME NEW j, JobInv(j), Same(j) PROVE JobInv(j)'
  <1>1. LastFilter(j)' = LastFilter(j)
    BY LastFilterIsFixed DEF Same
  <1>2. Path(j)'
    BY DEF JobInv, Same, Path
  <1>3. Chain(j)'
    BY <1>1 DEF JobInv, Same, Chain, Looping, Exported, Terminal
  <1>4. Unpacked(j)'
    BY DEF JobInv, Same, Unpacked
  <1>5. Output(j)'
    BY DEF JobInv, Same, Output, Exported
  <1>6. Deadline(j)'
    BY <1>1 DEF JobInv, Same, Deadline, IsRetry
  <1> QED  BY <1>2, <1>3, <1>4, <1>5, <1>6 DEF JobInv

-----------------------------------------------------------------------------
LEMMA InitInv == Init => IInv
  <1> SUFFICES ASSUME Init PROVE IInv
    OBVIOUS
  <1>1. ASSUME NEW j \in Jobs PROVE doc[j] \in Document
    BY <1>1, RunnerAssumption DEF Init
  <1>2. ASSUME NEW j \in Jobs PROVE doc[j].label \in Label /\ doc[j].ext \in Label
    BY <1>1 DEF Document
  <1>3. TypeOK
    BY <1>2, RunnerAssumption DEF Init, TypeOK, Name, Owner, Writer
  <1>4. ASSUME NEW j \in Jobs PROVE JobInv(j)
    <2>1. LastFilter(j) \in 1 .. 3
      BY LastFilterBounds
    <2>2. "html" \in Name
      BY DEF Name
    <2>3. Unpacked(j)
      BY <2>2 DEF Init, Unpacked
    <2> QED
      BY <2>1, <2>3 DEF Init, JobInv, Path, Chain, Output, Deadline, Looping, Exported,
             Terminal
  <1> QED  BY <1>3, <1>4 DEF IInv

-----------------------------------------------------------------------------
(* Every step keeps the types. *)

\* What a name of a staging directory holds.
Held == {"none", "raw", "patched", "html", "converted"}

LEMMA StageType ==
    ASSUME TypeOK, NEW i \in Jobs, NEW n \in Name, NEW v \in Held,
           stage' = [stage EXCEPT ![i][n] = v]
    PROVE  stage' \in [Jobs -> [Name -> Held]]
  <1>1. stage \in [Jobs -> [Name -> Held]]
    BY DEF TypeOK, Held
  <1>2. [stage[i] EXCEPT ![n] = v] \in [Name -> Held]
    BY <1>1
  <1>3. stage' = [stage EXCEPT ![i] = [stage[i] EXCEPT ![n] = v]]
    BY <1>1
  <1> QED  BY <1>1, <1>2, <1>3

LEMMA UseHtmlType ==
    ASSUME TypeOK, NEW i \in Jobs, UseHtml(i)
    PROVE  /\ stage' \in [Jobs -> [Name -> Held]] /\ staged' \in [Jobs -> Name]
           /\ keep' \in [Jobs -> BOOLEAN]
           /\ pc' = [pc EXCEPT ![i] = "patch"]
  <1>1. "html" \in Name /\ "html" \in Held
    BY DEF Name, Held
  <1>2. stage' \in [Jobs -> [Name -> Held]]
    <2>1. stage' = [stage EXCEPT ![i]["html"] = "html"]
      BY DEF UseHtml
    <2> QED  BY <1>1, <2>1, StageType
  <1>3. staged' \in [Jobs -> Name]
    BY <1>1 DEF TypeOK, UseHtml
  <1>4. keep' \in [Jobs -> BOOLEAN]
    <2>1. keep \in [Jobs -> BOOLEAN] /\ keep' = [keep EXCEPT ![i] = TRUE]
      BY DEF TypeOK, UseHtml
    <2> QED  BY <2>1
  <1> QED  BY <1>2, <1>3, <1>4 DEF UseHtml, Goto

LEMMA WriterType ==
    ASSUME TypeOK, NEW i \in Jobs, attempt[i] <= 3
    PROVE  [out EXCEPT ![i] = [filter |-> attempt[i], name |-> trying[i]]] \in [Jobs -> Writer]
  <1>1. attempt[i] \in 1 .. 3 /\ trying[i] \in Name
    BY DEF TypeOK
  <1>2. [filter |-> attempt[i], name |-> trying[i]] \in Writer
    BY <1>1 DEF Writer, Try
  <1> HIDE DEF Writer
  <1> QED  BY <1>2 DEF TypeOK

LEMMA NextFilterType ==
    ASSUME TypeOK, NEW i \in Jobs, attempt[i] <= 3, NextFilter(i)
    PROVE  /\ attempt' \in [Jobs -> 1 .. 4] /\ run' \in [Jobs -> Nat]
           /\ pc' = [pc EXCEPT ![i] = "loop"]
  <1>1. attempt \in [Jobs -> 1 .. 4] /\ run \in [Jobs -> Nat]
    BY DEF TypeOK
  <1>2. attempt[i] + 1 \in 1 .. 4
    BY <1>1
  <1> QED  BY <1>1, <1>2 DEF NextFilter, Goto

LEMMA TypeStep ==
    ASSUME TypeOK, NEW i \in Jobs, JobInv(i), JobStep(i) PROVE TypeOK'
  <1>1. Timeout \in Nat \ {0} /\ WarmTimeout \in Nat
    BY RunnerAssumption
  <1>2. doc[i].label \in Label /\ doc[i].ext \in Label
    BY RunnerAssumption DEF TypeOK, Document
  <1>3. Label \subseteq Name /\ "html" \in Name /\ "xlsx" \in Name
    BY DEF Name, Label
  <1>4. pc[i] \in {"soffice", "retry"} => attempt[i] <= 3
    <2>1. LastFilter(i) \in 1 .. 3 /\ attempt[i] \in 1 .. 4
      BY LastFilterBounds DEF TypeOK
    <2>2. pc[i] \in {"soffice", "retry"} => attempt[i] <= LastFilter(i)
      BY DEF JobInv, Chain
    <2> QED  BY <2>1, <2>2
  <1> HIDE DEF Name, Label, Document
  <1>5. CASE InputMissing(i)
    BY <1>1, <1>2, <1>3, <1>4, <1>5
       DEF TypeOK, JobInv, Chain, InputMissing, Goto, docVars, Fail, loopVars,
           Running, Looping, Exported, Terminal, Writer, Try, Owner, HasOriginalName
  <1>6. CASE Begin(i)
    BY <1>1, <1>2, <1>3, <1>4, <1>6 DEF TypeOK, JobInv, Chain, Begin, Goto, docVars, loopVars,
           Running, Looping, Exported, Terminal, Writer, Try, Owner, HasOriginalName
  <1>7. CASE UnpackMht(i)
    <2>1. CASE UseHtml(i)
      BY <2>1, <1>7, UseHtmlType DEF TypeOK, UnpackMht, loopVars, Held
    <2>2. CASE Goto(i, "patch") /\ UNCHANGED <<stage, staged, keep>>
      BY <2>2, <1>7 DEF TypeOK, UnpackMht, loopVars, Goto
    <2> QED  BY <2>1, <2>2, <1>7 DEF UnpackMht
  <1>8. CASE AltchunksUnseen(i)
    BY <1>1, <1>2, <1>3, <1>4, <1>8
       DEF TypeOK, JobInv, Chain, AltchunksUnseen, Goto, docVars, loopVars,
           Running, Looping, Exported, Terminal, Writer, Try, Owner, HasOriginalName
  <1>9. CASE AltchunksSeen(i)
    <2>1. CASE UseHtml(i) /\ UNCHANGED <<run, failure>>
      BY <2>1, <1>9, UseHtmlType DEF TypeOK, AltchunksSeen, loopVars, Held, Owner
    <2>2. CASE Fail(i, "altchunk") /\ UNCHANGED <<stage, staged, keep>>
      BY <2>2, <1>9 DEF TypeOK, AltchunksSeen, loopVars, Fail, Goto, Owner, Terminal
    <2> QED  BY <2>1, <2>2, <1>9 DEF AltchunksSeen
  <1>10. CASE PrepareSheets(i)
    <2>1. CASE /\ stage' = [stage EXCEPT ![i][staged[i]] = "patched"]
               /\ Goto(i, "probe") /\ UNCHANGED run
      <3>1. staged[i] \in Name /\ "patched" \in Held
        BY DEF TypeOK, Held
      <3>2. stage' \in [Jobs -> [Name -> Held]]
        BY <2>1, <3>1, StageType
      <3> QED  BY <2>1, <3>2, <1>10 DEF TypeOK, PrepareSheets, loopVars, Held, Goto
    <2>2. CASE StartTwoPass(i) /\ UNCHANGED stage
      BY <2>2, <1>1, <1>10 DEF TypeOK, PrepareSheets, loopVars, StartTwoPass, Goto, Running
    <2>3. CASE Goto(i, "probe") /\ UNCHANGED <<stage, run>>
      BY <2>3, <1>10 DEF TypeOK, PrepareSheets, loopVars, Goto
    <2> QED  BY <2>1, <2>2, <2>3, <1>10 DEF PrepareSheets
  <1>11. CASE EndTwoPass(i)
    <2>1. CASE /\ stage' = [stage EXCEPT ![i]["xlsx"] = "converted"]
               /\ staged' = [staged EXCEPT ![i] = "xlsx"]
      <3>1. "converted" \in Held
        BY DEF Held
      <3>2. stage' \in [Jobs -> [Name -> Held]]
        BY <1>3, <2>1, <3>1, StageType
      <3> QED  BY <1>3, <2>1, <3>2, <1>11 DEF TypeOK, EndTwoPass, loopVars, Held, Goto
    <2>2. CASE UNCHANGED <<stage, staged>>
      BY <2>2, <1>11 DEF TypeOK, EndTwoPass, loopVars, Goto
    <2> QED  BY <2>1, <2>2, <1>11 DEF EndTwoPass
  <1>12. CASE WarmBegin(i)
    BY <1>1, <1>2, <1>3, <1>4, <1>12 DEF TypeOK, JobInv, Chain, WarmBegin, Goto, docVars,
           Running, Looping, Exported, Terminal, Writer, Try, Owner, HasOriginalName
  <1>13. CASE WarmAbsent(i)
    BY <1>1, <1>2, <1>3, <1>4, <1>13
       DEF TypeOK, JobInv, Chain, WarmAbsent, Goto, docVars, GoCold,
           Running, Looping, Exported, Terminal, Writer, Try, Owner, HasOriginalName
  <1>14. CASE WarmSucceeds(i)
    BY <1>1, <1>2, <1>3, <1>4, <1>14
       DEF TypeOK, JobInv, Chain, WarmSucceeds, Goto, docVars, Return, CaptureSheets,
           Running, Looping, Exported, Terminal, Writer, Try, Owner, HasOriginalName
  <1>15. CASE WarmFails(i)
    <2>1. Warm \in Writer
      BY DEF Writer
    <2>2. out' \in [Jobs -> Writer]
      <3> HIDE DEF Writer
      <3> QED  BY <2>1, <1>15 DEF TypeOK, WarmFails
    <2>3. left' = [left EXCEPT ![i] = Timeout] /\ run' = [run EXCEPT ![i] = 0]
          /\ pc' = [pc EXCEPT ![i] = "loop"]
      BY <1>15 DEF WarmFails, GoCold, Goto
    <2> QED
      BY <2>2, <2>3, <1>1, <1>15 DEF TypeOK, WarmFails, docVars, Looping
  <1>16. CASE WarmTimesOut(i)
    BY <1>1, <1>2, <1>3, <1>4, <1>16
       DEF TypeOK, JobInv, Chain, WarmTimesOut, Goto, docVars, GoCold,
           Running, Looping, Exported, Terminal, Writer, Try, Owner, HasOriginalName
  <1>17. CASE StartFilter(i)
    BY <1>1, <1>2, <1>3, <1>4, <1>17
       DEF TypeOK, JobInv, Chain, StartFilter, Goto, docVars, StartRun, StagedFor,
           Running, Looping, Exported, Terminal, Writer, Try, Owner, HasOriginalName
  <1>18. CASE GiveUp(i)
    BY <1>1, <1>2, <1>3, <1>4, <1>18
       DEF TypeOK, JobInv, Chain, GiveUp, Goto, docVars, Fail, loopVars,
           Running, Looping, Exported, Terminal, Writer, Try, Owner, HasOriginalName
  <1>19. CASE Killed(i)
    <2>1. attempt[i] <= 3
      BY <1>4, <1>19 DEF Killed
    <2>2. out' \in [Jobs -> Writer]
      <3>1. out \in [Jobs -> Writer]
        BY DEF TypeOK
      <3> HIDE DEF Writer
      <3> QED  BY <2>1, <3>1, <1>19, WriterType DEF Killed
    <2>3. attempt' \in [Jobs -> 1 .. 4] /\ run' \in [Jobs -> Nat]
          /\ pc' = [pc EXCEPT ![i] = "loop"]
      BY <2>1, <1>19, NextFilterType DEF Killed
    <2> QED
      BY <2>2, <2>3, <1>19 DEF TypeOK, Killed, docVars, Looping
  <1>20. CASE ExitsBadly(i)
    <2>1. attempt[i] <= 3
      BY <1>4, <1>20 DEF ExitsBadly
    <2>2. out' \in [Jobs -> Writer]
      <3>1. out \in [Jobs -> Writer]
        BY DEF TypeOK
      <3> HIDE DEF Writer
      <3> QED  BY <2>1, <3>1, <1>20, WriterType DEF ExitsBadly
    <2>3. attempt' \in [Jobs -> 1 .. 4] /\ run' \in [Jobs -> Nat]
          /\ pc' = [pc EXCEPT ![i] = "loop"]
      BY <2>1, <1>20, NextFilterType DEF ExitsBadly
    <2> QED
      BY <2>2, <2>3, <1>20 DEF TypeOK, ExitsBadly, docVars, Looping
  <1>21. CASE NotLoaded(i)
    <2>1. attempt[i] <= 3
      BY <1>4, <1>21 DEF NotLoaded
    <2>2. CASE NextFilter(i)
      BY <2>1, <2>2, <1>21, NextFilterType DEF TypeOK, NotLoaded, docVars, Looping
    <2>3. CASE Goto(i, "retry") /\ run' = [run EXCEPT ![i] = 0] /\ UNCHANGED attempt
      BY <2>3, <1>21 DEF TypeOK, NotLoaded, docVars, Looping, Goto
    <2> QED  BY <2>2, <2>3, <1>21 DEF NotLoaded
  <1>22. CASE RetryOriginalName(i)
    BY <1>1, <1>2, <1>3, <1>4, <1>22
       DEF TypeOK, JobInv, Chain, RetryOriginalName, Goto, docVars, StartRun,
           Running, Looping, Exported, Terminal, Writer, Try, Owner, HasOriginalName
  <1>23. CASE SkipOriginalName(i)
    <2>1. attempt[i] <= 3
      BY <1>4, <1>23 DEF SkipOriginalName
    <2> QED
      BY <2>1, <1>23, NextFilterType DEF TypeOK, SkipOriginalName, docVars, Looping
  <1>24. CASE ExitsWell(i)
    <2> DEFINE this == [filter |-> attempt[i], name |-> trying[i]]
    <2>1. attempt[i] <= 3
      BY <1>4, <1>24 DEF ExitsWell
    <2>2. this \in Writer
      <3>1. attempt[i] \in 1 .. 3 /\ trying[i] \in Name
        BY <2>1 DEF TypeOK
      <3> QED  BY <3>1 DEF Writer, Try
    <2>3. [out EXCEPT ![i] = this] \in [Jobs -> Writer]
      BY <2>1, WriterType
    <2> HIDE DEF this, Writer
    <2>4. ASSUME Return(i, this)
          PROVE  /\ pc' = [pc EXCEPT ![i] = "returned"]
                 /\ winner' \in [Jobs -> Writer] /\ run' \in [Jobs -> Nat]
                 /\ sheets' \in Owner
      BY <2>2, <2>4 DEF TypeOK, Return, Goto, CaptureSheets, Owner
    <2>5. CASE out' = [out EXCEPT ![i] = this] /\ Return(i, this) /\ UNCHANGED attempt
      BY <2>3, <2>4, <2>5, <1>24 DEF TypeOK, ExitsWell, docVars, Exported
    <2>6. CASE out[i] # None /\ Return(i, this) /\ UNCHANGED <<out, attempt>>
      BY <2>4, <2>6, <1>24 DEF TypeOK, ExitsWell, docVars, Exported
    <2>7. CASE out[i] = None /\ NextFilter(i) /\ UNCHANGED <<out, winner, sheets>>
      BY <2>1, <2>7, <1>24, NextFilterType DEF TypeOK, ExitsWell, docVars, Looping
    <2> QED  BY <2>5, <2>6, <2>7, <1>24 DEF ExitsWell, this
  <1>25. CASE SandboxRaises(i)
    BY <1>1, <1>2, <1>3, <1>4, <1>25
       DEF TypeOK, JobInv, Chain, SandboxRaises, Goto, docVars, Fail, loopVars,
           Running, Looping, Exported, Terminal, Writer, Try, Owner, HasOriginalName
  <1>26. CASE ReadSheets(i)
    <2>1. None \in Owner /\ sheets \in Owner
      BY DEF TypeOK, Owner
    <2>2. seen' \in [Jobs -> [sheets : Owner, alts : Owner]]
      <3> HIDE DEF Owner
      <3> QED  BY <2>1, <1>26 DEF TypeOK, ReadSheets
    <2> QED
      BY <2>2, <1>26 DEF TypeOK, ReadSheets, docVars, Goto, Exported
  <1>27. CASE ReadAltchunks(i)
    <2>1. alts \in Owner
      BY DEF TypeOK
    <2>2. seen' \in [Jobs -> [sheets : Owner, alts : Owner]]
      <3> HIDE DEF Owner
      <3> QED  BY <2>1, <1>27 DEF TypeOK, ReadAltchunks
    <2> QED
      BY <2>2, <1>27 DEF TypeOK, ReadAltchunks, docVars, Goto, Exported
  <1> QED
    BY <1>5, <1>6, <1>7, <1>8, <1>9, <1>10, <1>11, <1>12, <1>13, <1>14, <1>15, <1>16, <1>17,
       <1>18, <1>19, <1>20, <1>21, <1>22, <1>23, <1>24, <1>25, <1>26, <1>27
       DEF JobStep

-----------------------------------------------------------------------------
(* A step of job i leaves the others alone, and keeps the invariant of its own. *)

LEMMA OthersAreLeftAlone ==
    ASSUME TypeOK, NEW i \in Jobs, NEW j \in Jobs, i # j, JobStep(i) PROVE Same(j)
  <1>1. CASE InputMissing(i)
    BY <1>1 DEF TypeOK, Same, docVars, Goto, InputMissing, Fail, loopVars
  <1>2. CASE Begin(i)
    BY <1>2 DEF TypeOK, Same, docVars, Goto, Begin, loopVars
  <1>3. CASE UnpackMht(i)
    BY <1>3 DEF TypeOK, Same, docVars, Goto, UnpackMht, UseHtml, loopVars
  <1>4. CASE AltchunksUnseen(i)
    BY <1>4 DEF TypeOK, Same, docVars, Goto, AltchunksUnseen, loopVars
  <1>5. CASE AltchunksSeen(i)
    BY <1>5 DEF TypeOK, Same, docVars, Goto, AltchunksSeen, UseHtml, Fail, loopVars
  <1>6. CASE PrepareSheets(i)
    BY <1>6 DEF TypeOK, Same, docVars, Goto, PrepareSheets, StartTwoPass, loopVars
  <1>7. CASE EndTwoPass(i)
    BY <1>7 DEF TypeOK, Same, docVars, Goto, EndTwoPass, loopVars
  <1>8. CASE WarmBegin(i)
    BY <1>8 DEF TypeOK, Same, docVars, Goto, WarmBegin
  <1>9. CASE WarmAbsent(i)
    BY <1>9 DEF TypeOK, Same, docVars, Goto, WarmAbsent, GoCold
  <1>10. CASE WarmSucceeds(i)
    BY <1>10 DEF TypeOK, Same, docVars, Goto, WarmSucceeds, Return
  <1>11. CASE WarmFails(i)
    BY <1>11 DEF TypeOK, Same, docVars, Goto, WarmFails, GoCold
  <1>12. CASE WarmTimesOut(i)
    BY <1>12 DEF TypeOK, Same, docVars, Goto, WarmTimesOut, GoCold
  <1>13. CASE StartFilter(i)
    BY <1>13 DEF TypeOK, Same, docVars, Goto, StartFilter, StartRun
  <1>14. CASE GiveUp(i)
    BY <1>14 DEF TypeOK, Same, docVars, Goto, GiveUp, Fail, loopVars
  <1>15. CASE Killed(i)
    BY <1>15 DEF TypeOK, Same, docVars, Goto, Killed, NextFilter
  <1>16. CASE ExitsBadly(i)
    BY <1>16 DEF TypeOK, Same, docVars, Goto, ExitsBadly, NextFilter
  <1>17. CASE NotLoaded(i)
    BY <1>17 DEF TypeOK, Same, docVars, Goto, NotLoaded, NextFilter
  <1>18. CASE RetryOriginalName(i)
    BY <1>18 DEF TypeOK, Same, docVars, Goto, RetryOriginalName, StartRun
  <1>19. CASE SkipOriginalName(i)
    BY <1>19 DEF TypeOK, Same, docVars, Goto, SkipOriginalName, NextFilter
  <1>20. CASE ExitsWell(i)
    BY <1>20 DEF TypeOK, Same, docVars, Goto, ExitsWell, NextFilter, Return
  <1>21. CASE SandboxRaises(i)
    BY <1>21 DEF TypeOK, Same, docVars, Goto, SandboxRaises, Fail, loopVars
  <1>22. CASE ReadSheets(i)
    BY <1>22 DEF TypeOK, Same, docVars, Goto, ReadSheets
  <1>23. CASE ReadAltchunks(i)
    BY <1>23 DEF TypeOK, Same, docVars, Goto, ReadAltchunks
  <1> QED
    BY <1>1, <1>2, <1>3, <1>4, <1>5, <1>6, <1>7, <1>8, <1>9, <1>10, <1>11, <1>12, <1>13,
       <1>14, <1>15, <1>16, <1>17, <1>18, <1>19, <1>20, <1>21, <1>22, <1>23
       DEF JobStep

LEMMA OwnStep ==
    ASSUME TypeOK, NEW i \in Jobs, JobInv(i), JobStep(i) PROVE JobInv(i)'
  <1> DEFINE L == LastFilter(i)
  <1>1. L \in 1 .. 3 /\ L' = L /\ doc'[i] = doc[i]
    <2>1. UNCHANGED doc
      BY DEF JobStep, InputMissing, Begin, UnpackMht, AltchunksUnseen, AltchunksSeen,
             PrepareSheets, EndTwoPass, WarmBegin, WarmAbsent, WarmSucceeds, WarmFails,
             WarmTimesOut, StartFilter, GiveUp, Killed, ExitsBadly, NotLoaded,
             RetryOriginalName, SkipOriginalName, ExitsWell, SandboxRaises, ReadSheets,
             ReadAltchunks, docVars
    <2> QED  BY <2>1, LastFilterBounds, LastFilterIsFixed
  <1>2. Timeout \in Nat \ {0} /\ WarmTimeout \in Nat
    BY RunnerAssumption
  <1>3. doc[i].label # "html" /\ doc[i].ext # "html" /\ "html" \in Name /\ "xlsx" \in Name
    <2>1. doc[i] \in Document
      BY RunnerAssumption DEF TypeOK
    <2>2. doc[i].label \in Label /\ doc[i].ext \in Label
      BY <2>1 DEF Document
    <2> QED  BY <2>2 DEF Label, Name
  <1>4. attempt[i] \in 1 .. 4 /\ left[i] \in -Timeout .. Timeout /\ run[i] \in Nat
    BY DEF TypeOK
  <1> HIDE DEF L
  <1>5. CASE InputMissing(i)
    BY <1>1, <1>2, <1>3, <1>4, <1>5
       DEF L, TypeOK, JobInv, Path, Chain, Unpacked, Output, Deadline, IsRetry, Looping,
           Exported, Terminal, docVars, Goto, InputMissing, Fail, loopVars
  <1>6. CASE Begin(i)
    BY <1>1, <1>2, <1>3, <1>4, <1>6
       DEF L, TypeOK, JobInv, Path, Chain, Unpacked, Output, Deadline, IsRetry, Looping,
           Exported, Terminal, docVars, Goto, Begin, loopVars
  <1>7. CASE UnpackMht(i)
    BY <1>1, <1>2, <1>3, <1>4, <1>7
       DEF L, TypeOK, JobInv, Path, Chain, Unpacked, Output, Deadline, IsRetry, Looping,
           Exported, Terminal, docVars, Goto, UnpackMht, UseHtml, loopVars
  <1>8. CASE AltchunksUnseen(i)
    BY <1>1, <1>2, <1>3, <1>4, <1>8
       DEF L, TypeOK, JobInv, Path, Chain, Unpacked, Output, Deadline, IsRetry, Looping,
           Exported, Terminal, docVars, Goto, AltchunksUnseen, loopVars
  <1>9. CASE AltchunksSeen(i)
    BY <1>1, <1>2, <1>3, <1>4, <1>9
       DEF L, TypeOK, JobInv, Path, Chain, Unpacked, Output, Deadline, IsRetry, Looping,
           Exported, Terminal, docVars, Goto, AltchunksSeen, UseHtml, Fail, loopVars
  <1>10. CASE PrepareSheets(i)
    BY <1>1, <1>2, <1>3, <1>4, <1>10
       DEF L, TypeOK, JobInv, Path, Chain, Unpacked, Output, Deadline, IsRetry, Looping,
           Exported, Terminal, docVars, Goto, PrepareSheets, StartTwoPass, loopVars
  <1>11. CASE EndTwoPass(i)
    BY <1>1, <1>2, <1>3, <1>4, <1>11
       DEF L, TypeOK, JobInv, Path, Chain, Unpacked, Output, Deadline, IsRetry, Looping,
           Exported, Terminal, docVars, Goto, EndTwoPass, loopVars
  <1>12. CASE WarmBegin(i)
    BY <1>1, <1>2, <1>3, <1>4, <1>12
       DEF L, TypeOK, JobInv, Path, Chain, Unpacked, Output, Deadline, IsRetry, Looping,
           Exported, Terminal, docVars, Goto, WarmBegin
  <1>13. CASE WarmAbsent(i)
    BY <1>1, <1>2, <1>3, <1>4, <1>13
       DEF L, TypeOK, JobInv, Path, Chain, Unpacked, Output, Deadline, IsRetry, Looping,
           Exported, Terminal, docVars, Goto, WarmAbsent, GoCold
  <1>14. CASE WarmSucceeds(i)
    BY <1>1, <1>2, <1>3, <1>4, <1>14
       DEF L, TypeOK, JobInv, Path, Chain, Unpacked, Output, Deadline, IsRetry, Looping,
           Exported, Terminal, docVars, Goto, WarmSucceeds, Return
  <1>15. CASE WarmFails(i)
    BY <1>1, <1>2, <1>3, <1>4, <1>15
       DEF L, TypeOK, JobInv, Path, Chain, Unpacked, Output, Deadline, IsRetry, Looping,
           Exported, Terminal, docVars, Goto, WarmFails, GoCold
  <1>16. CASE WarmTimesOut(i)
    BY <1>1, <1>2, <1>3, <1>4, <1>16
       DEF L, TypeOK, JobInv, Path, Chain, Unpacked, Output, Deadline, IsRetry, Looping,
           Exported, Terminal, docVars, Goto, WarmTimesOut, GoCold
  <1>17. CASE StartFilter(i)
    BY <1>1, <1>2, <1>3, <1>4, <1>17
       DEF L, TypeOK, JobInv, Path, Chain, Unpacked, Output, Deadline, IsRetry, Looping,
           Exported, Terminal, docVars, Goto, StartFilter, StartRun, StagedFor
  <1>18. CASE GiveUp(i)
    BY <1>1, <1>2, <1>3, <1>4, <1>18
       DEF L, TypeOK, JobInv, Path, Chain, Unpacked, Output, Deadline, IsRetry, Looping,
           Exported, Terminal, docVars, Goto, GiveUp, Fail, loopVars
  <1>19. CASE Killed(i)
    BY <1>1, <1>2, <1>3, <1>4, <1>19
       DEF L, TypeOK, JobInv, Path, Chain, Unpacked, Output, Deadline, IsRetry, Looping,
           Exported, Terminal, docVars, Goto, Killed, NextFilter
  <1>20. CASE ExitsBadly(i)
    BY <1>1, <1>2, <1>3, <1>4, <1>20
       DEF L, TypeOK, JobInv, Path, Chain, Unpacked, Output, Deadline, IsRetry, Looping,
           Exported, Terminal, docVars, Goto, ExitsBadly, NextFilter
  <1>21. CASE NotLoaded(i)
    BY <1>1, <1>2, <1>3, <1>4, <1>21
       DEF L, TypeOK, JobInv, Path, Chain, Unpacked, Output, Deadline, IsRetry, Looping,
           Exported, Terminal, docVars, Goto, NotLoaded, NextFilter, HasOriginalName
  <1>22. CASE RetryOriginalName(i)
    BY <1>1, <1>2, <1>3, <1>4, <1>22
       DEF L, TypeOK, JobInv, Path, Chain, Unpacked, Output, Deadline, IsRetry, Looping,
           Exported, Terminal, docVars, Goto, RetryOriginalName, StartRun
  <1>23. CASE SkipOriginalName(i)
    BY <1>1, <1>2, <1>3, <1>4, <1>23
       DEF L, TypeOK, JobInv, Path, Chain, Unpacked, Output, Deadline, IsRetry, Looping,
           Exported, Terminal, docVars, Goto, SkipOriginalName, NextFilter
  <1>24. CASE ExitsWell(i)
    BY <1>1, <1>2, <1>3, <1>4, <1>24
       DEF L, TypeOK, JobInv, Path, Chain, Unpacked, Output, Deadline, IsRetry, Looping,
           Exported, Terminal, docVars, Goto, ExitsWell, NextFilter, Return
  <1>25. CASE SandboxRaises(i)
    BY <1>1, <1>2, <1>3, <1>4, <1>25
       DEF L, TypeOK, JobInv, Path, Chain, Unpacked, Output, Deadline, IsRetry, Looping,
           Exported, Terminal, docVars, Goto, SandboxRaises, Fail, loopVars
  <1>26. CASE ReadSheets(i)
    BY <1>1, <1>2, <1>3, <1>4, <1>26
       DEF L, TypeOK, JobInv, Path, Chain, Unpacked, Output, Deadline, IsRetry, Looping,
           Exported, Terminal, docVars, Goto, ReadSheets
  <1>27. CASE ReadAltchunks(i)
    BY <1>1, <1>2, <1>3, <1>4, <1>27
       DEF L, TypeOK, JobInv, Path, Chain, Unpacked, Output, Deadline, IsRetry, Looping,
           Exported, Terminal, docVars, Goto, ReadAltchunks
  <1> QED
    BY <1>5, <1>6, <1>7, <1>8, <1>9, <1>10, <1>11, <1>12, <1>13, <1>14, <1>15, <1>16, <1>17,
       <1>18, <1>19, <1>20, <1>21, <1>22, <1>23, <1>24, <1>25, <1>26, <1>27
       DEF JobStep

(* The steps that are no job's own. *)

LEMMA LateWarmStep ==
    ASSUME TypeOK, NEW i \in Jobs, JobInv(i), LateWarmEnds(i)
    PROVE  TypeOK' /\ JobInv(i)'
  <1>1. Warm \in Writer
    BY DEF Writer
  <1>2. out' \in [Jobs -> Writer]
    <2>1. out \in [Jobs -> Writer]
      BY DEF TypeOK
    <2>2. out' = out \/ out' = [out EXCEPT ![i] = Warm]
      BY DEF LateWarmEnds
    <2> HIDE DEF Writer
    <2> QED  BY <1>1, <2>1, <2>2
  <1>3. TypeOK'
    BY <1>2 DEF TypeOK, LateWarmEnds, docVars
  <1>4. LastFilter(i)' = LastFilter(i)
    BY LastFilterIsFixed DEF LateWarmEnds, docVars
  <1>5. Path(i)' /\ Unpacked(i)'
    BY DEF TypeOK, JobInv, LateWarmEnds, docVars, Path, Unpacked
  <1>6. Chain(i)'
    BY <1>4 DEF JobInv, LateWarmEnds, docVars, Chain, Looping, Exported, Terminal
  <1>7. Output(i)'
    BY DEF TypeOK, LateWarmEnds, Output
  <1>8. Deadline(i)'
    BY <1>4 DEF JobInv, LateWarmEnds, docVars, Deadline, IsRetry
  <1> QED  BY <1>3, <1>5, <1>6, <1>7, <1>8 DEF JobInv

LEMMA LateWarmLeavesOthers ==
    ASSUME TypeOK, NEW i \in Jobs, NEW j \in Jobs, i # j, LateWarmEnds(i) PROVE Same(j)
  BY DEF TypeOK, LateWarmEnds, Same, docVars

LEMMA TickStep ==
    ASSUME IInv, Tick PROVE IInv'
  <1>1. Timeout \in Nat \ {0}
    BY RunnerAssumption
  <1>2. ASSUME NEW j \in Jobs
        PROVE  /\ run'[j] = IF pc[j] \in Running THEN run[j] - 1 ELSE run[j]
               /\ left'[j] = IF pc[j] \in Looping THEN DeadlineLess(left[j]) ELSE left[j]
               /\ pc[j] \in Running => run[j] > 0
               /\ run[j] \in Nat /\ left[j] \in -Timeout .. Timeout
    BY DEF IInv, TypeOK, Tick
  <1>3. ASSUME NEW j \in Jobs
        PROVE  run'[j] \in Nat /\ left'[j] \in -Timeout .. Timeout
    BY <1>1, <1>2 DEF DeadlineLess
  <1>4. run' \in [Jobs -> Nat] /\ left' \in [Jobs -> -Timeout .. Timeout]
    BY <1>3 DEF Tick
  <1>5. TypeOK'
    BY <1>4 DEF IInv, TypeOK, Tick, docVars
  <1>6. ASSUME NEW j \in Jobs PROVE JobInv(j)'
    <2>1. LastFilter(j)' = LastFilter(j)
      BY LastFilterIsFixed DEF Tick, docVars
    <2>2. JobInv(j)
      BY DEF IInv
    <2>3. Path(j)' /\ Unpacked(j)'
      BY <2>2 DEF JobInv, Tick, docVars, Path, Unpacked
    <2>4. Chain(j)'
      BY <2>1, <2>2 DEF JobInv, Tick, docVars, Chain, Looping, Exported, Terminal
    <2>5. Output(j)'
      BY <2>2 DEF JobInv, Tick, docVars, Output, Exported
    <2>6. Deadline(j)'
      BY <1>1, <1>2, <2>1, <2>2
         DEF JobInv, Tick, docVars, Deadline, IsRetry, Looping, Running, DeadlineLess
    <2> QED  BY <2>3, <2>4, <2>5, <2>6 DEF JobInv
  <1> QED  BY <1>5, <1>6 DEF IInv

-----------------------------------------------------------------------------
LEMMA StepInv == IInv /\ [Next]_vars => IInv'
  <1> SUFFICES ASSUME IInv, [Next]_vars PROVE IInv'
    OBVIOUS
  <1>1. ASSUME NEW i \in Jobs, JobStep(i) PROVE IInv'
    <2>1. TypeOK'
      BY <1>1, TypeStep DEF IInv
    <2>2. ASSUME NEW j \in Jobs PROVE JobInv(j)'
      <3>1. CASE j = i
        BY <1>1, <3>1, OwnStep DEF IInv
      <3>2. CASE j # i
        <4>1. Same(j)
          BY <1>1, <3>2, OthersAreLeftAlone DEF IInv
        <4> QED  BY <4>1, SameKeeps DEF IInv
      <3> QED  BY <3>1, <3>2
    <2> QED  BY <2>1, <2>2 DEF IInv
  <1>2. ASSUME NEW i \in Jobs, LateWarmEnds(i) PROVE IInv'
    <2>1. TypeOK' /\ JobInv(i)'
      BY <1>2, LateWarmStep DEF IInv
    <2>2. ASSUME NEW j \in Jobs, j # i PROVE JobInv(j)'
      <3>1. Same(j)
        BY <1>2, <2>2, LateWarmLeavesOthers DEF IInv
      <3> QED  BY <3>1, SameKeeps DEF IInv
    <2> QED  BY <2>1, <2>2 DEF IInv
  <1>3. CASE UNCHANGED vars
    <2>1. ASSUME NEW j \in Jobs PROVE JobInv(j)'
      <3>1. Same(j)
        BY <1>3 DEF vars, docVars, Same
      <3> QED  BY <3>1, SameKeeps DEF IInv
    <2>2. TypeOK'
      BY <1>3 DEF IInv, TypeOK, vars, docVars
    <2> QED  BY <2>1, <2>2 DEF IInv
  <1> QED  BY <1>1, <1>2, <1>3, TickStep DEF Next

\* The invariant holds throughout.
THEOREM Invariant == Spec => []IInv
  BY InitInv, StepInv, PTL DEF Spec

\* Every variable keeps its type: in particular no attempt goes past the last filter.
THEOREM TypeCorrect == Spec => []TypeOK
  <1>1. IInv => TypeOK
    BY DEF IInv
  <1> QED  BY <1>1, Invariant, PTL

\* The PDF handed to the converter is the one of the attempt that succeeded, unless a
\* warm export was abandoned.
THEOREM WinnersPdf == Spec => []PdfOfWinner
  <1>1. IInv => PdfOfWinner
    BY DEF IInv, JobInv, Output, PdfOfWinner
  <1> QED  BY <1>1, Invariant, PTL

\* No engine is given the wrapper of an unpacked document, under any filter or name.
THEOREM WrapperStaysUnpacked == Spec => []UnpackedNeverRaw
  <1>1. IInv => UnpackedNeverRaw
    BY DEF IInv, JobInv, Unpacked, UnpackedNeverRaw
  <1> QED  BY <1>1, Invariant, PTL

\* Every retry is killed within a timeout of the deadline, and the chain is given up only
\* at its end or once the budget is spent.
THEOREM DeadlineHolds == Spec => []FallbackInTime
  <1>1. IInv => FallbackInTime
    BY DEF IInv, JobInv, Deadline, FallbackInTime
  <1> QED  BY <1>1, Invariant, PTL

=============================================================================
