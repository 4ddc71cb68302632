--------------------------- MODULE WarmOcrProofs ---------------------------
(***************************************************************************)
(* The safety properties of WarmOcr, proved for any jobs, pages, workers,  *)
(* budgets and grace.  IInv is the inductive invariant behind them: who    *)
(* holds the lock, and what is on the pipe while a page waits for a reply. *)
(* Then those of OcrHelper, for any set of keys, any size of cache, pipe   *)
(* and request.                                                            *)
(***************************************************************************)
EXTENDS WarmOcr, OcrHelper, SequenceTheorems, FiniteSetTheorems, TLAPS

LockInv == \A p \in Page : pc[p] \in Holding <=> lock = p

PlaceInv(p, place) ==
    /\ place # "queued" => JobOf(p) \in begun
    /\ place \in {"probe", "poll", "enter"} \cup Holding => tier = "warm"

\* Pages touch the helper only once the engine has it running.
TierInv ==
    /\ tier = "starting" => proc
    /\ tier \in {"unstarted", "starting"} => begun = {}
    /\ tier \in {"unstarted", "none"} => ~proc
    /\ helper = "loading" => tier = "starting"
    /\ tier = "unstarted" => helper = "absent"
    /\ tier = "starting" => helper \in {"loading", "exited"}
    /\ tier \in {"unstarted", "starting"} => reqs = <<>> /\ resps = <<>>
    /\ \A p \in Page : PlaceInv(p, pc[p])

WorkInv == helper \in {"busy", "hung"} => working \in Page

Quiet == reqs = <<>> /\ resps = <<>> /\ helper \in {"loading", "idle", "frozen"}

Answered(p) == \E ok \in BOOLEAN : resps = <<[page |-> p, ok |-> ok]>>

\* The one request of the page that is reading: written, in work, or answered.
Pending(p) ==
    \/ reqs = <<p>> /\ resps = <<>> /\ helper \in {"idle", "frozen"}
    \/ reqs = <<>> /\ resps = <<>> /\ helper \in {"busy", "hung"} /\ working = p
    \/ reqs = <<>> /\ Answered(p) /\ helper \in {"idle", "frozen"}

PipeInv ==
    /\ proc /\ HelperAlive => Quiet \/ \E p \in Page : pc[p] = "reading" /\ Pending(p)
    /\ \A p \in Page : pc[p] = "reading" => resps = <<>> \/ Answered(p)
    /\ \A p \in Page : pc[p] \in {"writing", "reading"} => proc

FallbackInv ==
    \A p \in Page :
        fellBack[p] => \/ pc[p] = "cold"
                       \/ pc[p] \in {"cli", "done"} /\ coldTried[p]

\* What a call may still take, where it is, against its deadline and the seconds it was
\* blocked.  The count of blocked seconds and `left` stop at Overtime: from then on the
\* two say nothing.
Slack(place, l, b, t, due) ==
    \/ b = Overtime
    \/ /\ place = "writing" => t <= l + b
       /\ place = "reading" => due <= l + b
       /\ place = "quitting" => 0 <= l + b
       /\ place = "stopping" => due <= l + b + Grace

BudgetInv ==
    \A p \in Page : Slack(pc[p], left[JobOf(p)], blocked[p], perCall[p], timer[p])

IInv ==
    /\ TypeOK
    /\ LockInv /\ TierInv /\ WorkInv /\ PipeInv /\ FallbackInv
    /\ OwnText /\ BudgetInv /\ NoOrphanHelper

USE WarmOcrAssumption

-----------------------------------------------------------------------------
(* Types.                                                                  *)

LEMMA PageHasJob == \A p \in Page : JobOf(p) \in Jobs
  BY DEF Page, JobOf

Reply == [page : Page, ok : BOOLEAN]

\* What a page thread takes off the helper's stdout is a reply.
LEMMA ReplyFacts ==
  ASSUME HelperTypeOK, resps # <<>>
  PROVE  Head(resps).page \in Page /\ Tail(resps) \in Seq([page : Page, ok : BOOLEAN])
  <1>1. resps \in Seq(Reply)
    BY DEF HelperTypeOK, Reply
  <1>2. Head(resps) \in Reply /\ Tail(resps) \in Seq(Reply)
    BY <1>1, HeadTailProperties
  <1> QED
    BY <1>2 DEF Reply

LEMMA InitType == Init => TypeOK
  <1> SUFFICES ASSUME Init PROVE TypeOK
    OBVIOUS
  <1>1. reqs \in Seq(Page) /\ resps \in Seq([page : Page, ok : BOOLEAN])
    BY DEF Init
  <1>2. HelperTypeOK
    BY <1>1 DEF Init, HelperTypeOK
  <1>3. ClockTypeOK
    BY DEF Init, ClockTypeOK
  <1>4. PageTypeOK
    BY DEF Init, PageTypeOK
  <1> QED
    BY <1>2, <1>3, <1>4 DEF TypeOK

LEMMA PageStepHelperType ==
  ASSUME TypeOK, NEW p \in Page, PageStep(p)
  PROVE  HelperTypeOK'
  <1> USE DEF HelperTypeOK, TypeOK, helperVars
  <1>1. CASE StartPage(p) \/ SkipUnwanted(p) \/ SkipBudget(p) \/ NoScanImage(p)
    BY <1>1 DEF StartPage, SkipUnwanted, SkipBudget, NoScanImage
  <1>2. CASE PriceCall(p) \/ ProbeProc(p) \/ ProbePoll(p) \/ Acquire(p) \/ RefuseCall(p)
    BY <1>2 DEF PriceCall, ProbeProc, ProbePoll, Acquire, RefuseCall
  <1>3. CASE BeginRequest(p) \/ RequestFails(p) \/ WriteRequest(p)
    <2>1. CASE BeginRequest(p) \/ RequestFails(p)
      BY <2>1 DEF BeginRequest, RequestFails
    <2>2. CASE WriteRequest(p)
      BY <2>2 DEF WriteRequest
    <2> QED
      BY <1>3, <2>1, <2>2
  <1>4. CASE ReadReply(p)
    BY <1>4, ReplyFacts DEF ReadReply
  <1>5. CASE ReadEof(p) \/ ReadTimeout(p) \/ QuitWritten(p) \/ StopDone(p) \/ LaunchCold(p)
                \/ ColdEnds(p)
    BY <1>5 DEF ReadEof, ReadTimeout, QuitWritten, StopDone, LaunchCold, ColdEnds
  <1> QED
    BY <1>1, <1>2, <1>3, <1>4, <1>5 DEF PageStep

LEMMA PageStepClockType ==
  ASSUME TypeOK, NEW p \in Page, PageStep(p)
  PROVE  ClockTypeOK'
  <1> USE PageHasJob DEF ClockTypeOK, TypeOK, EndCall
  <1>1. CASE StartPage(p) \/ SkipUnwanted(p) \/ SkipBudget(p) \/ NoScanImage(p)
    BY <1>1 DEF StartPage, SkipUnwanted, SkipBudget, NoScanImage, Finish
  <1>2. CASE PriceCall(p) \/ ProbeProc(p) \/ ProbePoll(p)
    BY <1>2 DEF PriceCall, ProbeProc, ProbePoll, Finish
  <1>3. CASE Acquire(p) \/ RefuseCall(p) \/ RequestFails(p)
    BY <1>3 DEF Acquire, RefuseCall, RequestFails, FallBack
  <1>4. CASE BeginRequest(p) \/ WriteRequest(p)
    <2>1. CASE BeginRequest(p)
      <3>1. PricedTimeout(p) \in 0 .. Budget
        BY <2>1 DEF BeginRequest, PricedTimeout, MinOf, AtLeastOne
      <3> QED
        BY <2>1, <3>1 DEF BeginRequest
    <2>2. CASE WriteRequest(p)
      BY <2>2 DEF WriteRequest
    <2> QED
      BY <1>4, <2>1, <2>2
  <1>5. CASE ReadReply(p) \/ ReadEof(p) \/ StopDone(p)
    <2>1. lock' = NoPage /\ EndCall(p) /\ UNCHANGED <<begun, left>>
      BY <1>5 DEF ReadReply, ReadEof, StopDone, Finish, FallBack
    <2> QED
      BY <2>1
  <1>6. CASE ReadTimeout(p) \/ QuitWritten(p)
    BY <1>6 DEF ReadTimeout, QuitWritten
  <1>7. CASE LaunchCold(p) \/ ColdEnds(p)
    BY <1>7 DEF LaunchCold, ColdEnds, AtLeastOne, Finish
  <1> QED
    BY <1>1, <1>2, <1>3, <1>4, <1>5, <1>6, <1>7 DEF PageStep

LEMMA PageStepPageType ==
  ASSUME TypeOK, NEW p \in Page, PageStep(p)
  PROVE  PageTypeOK'
  <1> USE DEF PageTypeOK, TypeOK, recordVars, Goto, Finish, FallBack
  <1>1. CASE StartPage(p) \/ SkipUnwanted(p) \/ SkipBudget(p) \/ NoScanImage(p)
    BY <1>1 DEF StartPage, SkipUnwanted, SkipBudget, NoScanImage
  <1>2. CASE PriceCall(p) \/ BeginRequest(p) \/ RequestFails(p) \/ WriteRequest(p)
    BY <1>2 DEF PriceCall, BeginRequest, RequestFails, WriteRequest
  <1>3. CASE ProbeProc(p) \/ ProbePoll(p) \/ Acquire(p) \/ RefuseCall(p)
    BY <1>3 DEF ProbeProc, ProbePoll, Acquire, RefuseCall
  <1>4. CASE ReadReply(p)
    <2>1. Head(resps).page \in Page
      BY <1>4, ReplyFacts DEF ReadReply
    <2>2. CASE Head(resps).ok
      BY <1>4, <2>1, <2>2 DEF ReadReply
    <2>3. CASE ~Head(resps).ok
      BY <1>4, <2>3 DEF ReadReply
    <2> QED
      BY <2>2, <2>3
  <1>5. CASE ReadEof(p) \/ ReadTimeout(p) \/ QuitWritten(p) \/ StopDone(p)
    BY <1>5 DEF ReadEof, ReadTimeout, QuitWritten, StopDone
  <1>6. CASE LaunchCold(p)
    BY <1>6 DEF LaunchCold
  <1>7. CASE ColdEnds(p)
    BY <1>7 DEF ColdEnds
  <1> QED
    BY <1>1, <1>2, <1>3, <1>4, <1>5, <1>6, <1>7 DEF PageStep

LEMMA StepType == TypeOK /\ WorkInv /\ [Next]_vars => TypeOK'
  <1> SUFFICES ASSUME TypeOK, WorkInv, [Next]_vars PROVE TypeOK'
    OBVIOUS
  <1> USE DEF TypeOK, HelperTypeOK, ClockTypeOK, PageTypeOK, recordVars, helperVars
  <1>1. CASE Engine
    BY <1>1 DEF Engine, StartHelper, HelperReady, StartFails, DeclineHelper
  <1>2. CASE Helper
    <2>1. CASE HelperTake
      <3>1. Head(reqs) \in Page /\ Tail(reqs) \in Seq(Page)
        BY <2>1, HeadTailProperties DEF HelperTake
      <3> QED
        BY <2>1, <3>1 DEF HelperTake
    <2>2. CASE HelperReply
      BY <2>2 DEF HelperReply, WorkInv
    <2>3. CASE HelperHang \/ HelperFreeze \/ HelperExit
      BY <2>3 DEF HelperHang, HelperFreeze, HelperExit
    <2> QED
      BY <1>2, <2>1, <2>2, <2>3 DEF Helper
  <1>3. ASSUME NEW j \in Jobs, BeginJob(j) PROVE TypeOK'
    BY <1>3 DEF BeginJob
  <1>4. ASSUME NEW p \in Page, PageStep(p) PROVE TypeOK'
    BY <1>4, PageStepHelperType, PageStepClockType, PageStepPageType
  <1>5. CASE Tick
    <2>1. left' \in [Jobs -> -Overtime .. Budget]
      BY <1>5 DEF Tick
    <2>2. timer' \in [Page -> Nat]
      BY <1>5 DEF Tick
    <2>3. blocked' \in [Page -> 0 .. Overtime]
      BY <1>5 DEF Tick, MinOf
    <2> QED
      BY <1>5, <2>1, <2>2, <2>3 DEF Tick
  <1>6. CASE UNCHANGED vars
    BY <1>6 DEF vars
  <1> QED
    BY <1>1, <1>2, <1>3, <1>4, <1>5, <1>6 DEF Next, Rest

-----------------------------------------------------------------------------
(* The lock, and who may touch the helper.                                 *)

\* What the page threads that neither take nor release the lock do to the lock state.
Outside(p) ==
    \/ StartPage(p) \/ SkipUnwanted(p) \/ SkipBudget(p) \/ NoScanImage(p)
    \/ PriceCall(p) \/ ProbeProc(p) \/ ProbePoll(p) \/ LaunchCold(p) \/ ColdEnds(p)

LEMMA StepLock == TypeOK /\ LockInv /\ [Next]_vars => LockInv'
  <1> SUFFICES ASSUME TypeOK, LockInv, [Next]_vars PROVE LockInv'
    OBVIOUS
  <1> USE DEF LockInv, Holding, Calling, TypeOK, ClockTypeOK, PageTypeOK
  <1>1. ASSUME NEW p \in Page, PageStep(p) PROVE LockInv'
    <2> USE DEF Goto
    <2>1. CASE Outside(p)
      <3>1. /\ lock' = lock
            /\ pc[p] \notin Holding
            /\ \E s : s \notin Holding /\ pc' = [pc EXCEPT ![p] = s]
        BY <2>1 DEF Outside, StartPage, SkipUnwanted, SkipBudget, NoScanImage,
           PriceCall, ProbeProc, ProbePoll, LaunchCold, ColdEnds, Finish
      <3> QED
        BY <3>1
    <2>2. CASE Acquire(p)
      BY <2>2, WarmOcrAssumption DEF Acquire
    <2>3. CASE BeginRequest(p) \/ WriteRequest(p) \/ ReadTimeout(p) \/ QuitWritten(p)
      BY <2>3 DEF BeginRequest, WriteRequest, ReadTimeout, QuitWritten
    <2>4. CASE RefuseCall(p) \/ RequestFails(p) \/ ReadReply(p) \/ ReadEof(p) \/ StopDone(p)
      <3>1. /\ lock' = NoPage
            /\ pc[p] \in Holding
            /\ \E s : s \notin Holding /\ pc' = [pc EXCEPT ![p] = s]
        BY <2>4 DEF RefuseCall, RequestFails, ReadReply, ReadEof, StopDone, FallBack, Finish
      <3> QED
        BY <3>1, WarmOcrAssumption
    <2> QED
      BY <1>1, <2>1, <2>2, <2>3, <2>4 DEF PageStep, Outside
  <1>2. CASE UNCHANGED <<lock, pc>>
    BY <1>2
  <1> QED
    BY <1>1, <1>2 DEF Next, Rest, vars, Engine, StartHelper, HelperReady, StartFails,
       DeclineHelper, Helper, HelperTake, HelperReply, HelperHang, HelperFreeze, HelperExit,
       BeginJob, Tick

LEMMA StepTier == TypeOK /\ TierInv /\ [Next]_vars => TierInv'
  <1> SUFFICES ASSUME TypeOK, TierInv, [Next]_vars PROVE TierInv'
    OBVIOUS
  <1> USE DEF TierInv, PlaceInv, TypeOK, PageTypeOK, Holding, Calling
  <1>1. CASE Engine
    BY <1>1 DEF Engine, StartHelper, HelperReady, StartFails, DeclineHelper
  <1>2. CASE Helper
    BY <1>2 DEF Helper, HelperTake, HelperReply, HelperHang, HelperFreeze, HelperExit,
       HelperAlive
  <1>3. ASSUME NEW j \in Jobs, BeginJob(j) PROVE TierInv'
    BY <1>3 DEF BeginJob, helperVars
  <1>4. ASSUME NEW p \in Page, PageStep(p) PROVE TierInv'
    <2>1. /\ UNCHANGED <<tier, begun>>
          /\ \E s : pc' = [pc EXCEPT ![p] = s] /\ PlaceInv(p, s)
      BY <1>4 DEF PageStep, StartPage, SkipUnwanted, SkipBudget, NoScanImage, PriceCall,
         ProbeProc, ProbePoll, Acquire, RefuseCall, BeginRequest, RequestFails,
         WriteRequest, ReadReply, ReadEof, ReadTimeout, QuitWritten, StopDone, LaunchCold,
         ColdEnds, Finish, FallBack, Goto, helperVars
    <2>2. tier # "warm" => UNCHANGED <<proc, helper, reqs, resps>>
      <3>1. pc[p] \notin Holding => UNCHANGED <<proc, helper, reqs, resps>>
        BY <1>4 DEF PageStep, StartPage, SkipUnwanted, SkipBudget, NoScanImage, PriceCall,
           ProbeProc, ProbePoll, Acquire, RefuseCall, BeginRequest, RequestFails,
           WriteRequest, ReadReply, ReadEof, ReadTimeout, QuitWritten, StopDone, LaunchCold,
           ColdEnds, helperVars
      <3> QED
        BY <3>1
    <2>3. helper' \in {helper, "exited"}
      BY <1>4 DEF PageStep, StartPage, SkipUnwanted, SkipBudget, NoScanImage, PriceCall,
         ProbeProc, ProbePoll, Acquire, RefuseCall, BeginRequest, RequestFails,
         WriteRequest, ReadReply, ReadEof, ReadTimeout, QuitWritten, StopDone, LaunchCold,
         ColdEnds, helperVars
    <2>4. \A q \in Page : PlaceInv(q, pc'[q])
      BY <2>1
    <2> QED
      BY <2>1, <2>2, <2>3, <2>4
  <1>5. CASE UNCHANGED <<tier, proc, helper, reqs, resps, begun, pc>>
    BY <1>5
  <1> QED
    BY <1>1, <1>2, <1>3, <1>4, <1>5 DEF Next, Rest, vars, Tick, helperVars

LEMMA StepWork == TypeOK /\ WorkInv /\ [Next]_vars => WorkInv'
  <1> SUFFICES ASSUME TypeOK, WorkInv, [Next]_vars PROVE WorkInv'
    OBVIOUS
  <1> USE DEF WorkInv
  <1>1. CASE HelperTake
    BY <1>1 DEF HelperTake, TypeOK, HelperTypeOK
  <1>2. CASE helper' \in {"loading", "idle", "frozen", "exited"} \/ UNCHANGED <<helper, working>>
    BY <1>2
  <1>3. CASE HelperHang
    BY <1>3 DEF HelperHang
  <1> QED
    BY <1>1, <1>2, <1>3 DEF Next, Rest, vars, Engine, StartHelper, HelperReady, StartFails,
       DeclineHelper, Helper, HelperReply, HelperFreeze, HelperExit, BeginJob, Tick,
       PageStep, StartPage, SkipUnwanted, SkipBudget, NoScanImage, PriceCall, ProbeProc,
       ProbePoll, Acquire, RefuseCall, BeginRequest, RequestFails, WriteRequest, ReadReply,
       ReadEof, ReadTimeout, QuitWritten, StopDone, LaunchCold, ColdEnds, helperVars

-----------------------------------------------------------------------------
(* The pipe: at most one request, and it is the reader's.                  *)

LEMMA OneReader ==
  ASSUME LockInv, NEW p \in Page, NEW q \in Page, pc[p] \in Holding, pc[q] \in Holding
  PROVE  p = q
  BY DEF LockInv

\* A step that leaves the pipe and the readers alone, or only makes the helper exit.
LEMMA PipeUntouched ==
  ASSUME PipeInv, UNCHANGED <<proc, reqs, resps, working>>,
         helper' = helper \/ helper' = "exited",
         \A p \in Page : pc'[p] = "reading" <=> pc[p] = "reading",
         \A p \in Page : pc'[p] = "writing" => pc[p] = "writing" \/ proc
  PROVE  PipeInv'
  BY DEF PipeInv, Quiet, Pending, Answered, HelperAlive

LEMMA StepPipe ==
  TypeOK /\ LockInv /\ TierInv /\ PipeInv /\ [Next]_vars => PipeInv'
  <1> SUFFICES ASSUME TypeOK, LockInv, TierInv, PipeInv, [Next]_vars PROVE PipeInv'
    OBVIOUS
  <1> USE DEF TypeOK, HelperTypeOK, PageTypeOK
  <1>1. CASE Engine
    <2>1. \A p \in Page : pc'[p] \notin {"writing", "reading"}
      BY <1>1 DEF Engine, StartHelper, HelperReady, StartFails, DeclineHelper, TierInv,
         PlaceInv, Holding, Calling
    <2>2. proc' => reqs' = <<>> /\ resps' = <<>> /\ (helper' \in {"loading", "idle", "exited"})
      BY <1>1 DEF Engine, StartHelper, HelperReady, StartFails, DeclineHelper, TierInv
    <2> QED
      BY <2>1, <2>2 DEF PipeInv, Quiet, HelperAlive
  <1>2. CASE HelperTake
    <2>1. reqs # <<>> /\ helper = "idle" /\ UNCHANGED <<proc, pc, resps>>
      BY <1>2 DEF HelperTake
    <2>2. CASE proc
      <3>1. PICK p \in Page : pc[p] = "reading" /\ reqs = <<p>> /\ resps = <<>>
        BY <2>1, <2>2 DEF PipeInv, Quiet, Pending, HelperAlive
      <3>2. working' = p /\ reqs' = <<>> /\ helper' = "busy"
        BY <1>2, <3>1 DEF HelperTake
      <3> QED
        BY <2>1, <3>1, <3>2 DEF PipeInv, Pending, Answered
    <2>3. CASE ~proc
      BY <2>1, <2>3 DEF PipeInv, Answered
    <2> QED
      BY <2>2, <2>3
  <1>3. CASE HelperReply
    <2>1. helper = "busy" /\ UNCHANGED <<proc, pc, reqs>>
      BY <1>3 DEF HelperReply
    <2>2. CASE proc
      <3>1. PICK p \in Page : pc[p] = "reading" /\ reqs = <<>> /\ resps = <<>> /\ working = p
        BY <2>1, <2>2 DEF PipeInv, Quiet, Pending, HelperAlive
      <3>2. PICK ok \in BOOLEAN : resps' = <<[page |-> p, ok |-> ok]>>
        BY <1>3, <3>1 DEF HelperReply
      <3>3. Answered(p)' /\ helper' = "idle" /\ reqs' = <<>>
        BY <1>3, <2>1, <3>1, <3>2 DEF Answered, HelperReply
      <3>4. \A q \in Page : pc'[q] = "reading" => q = p
        BY <2>1, <3>1, OneReader DEF Holding, Calling
      <3> QED
        BY <2>1, <2>2, <3>1, <3>3, <3>4 DEF PipeInv, Pending
    <2>3. CASE ~proc
      BY <2>1, <2>3 DEF PipeInv
    <2> QED
      BY <2>2, <2>3
  <1>4. CASE HelperHang \/ HelperFreeze
    BY <1>4 DEF HelperHang, HelperFreeze, PipeInv, Quiet, Pending, Answered, HelperAlive
  <1>5. CASE HelperExit
    BY <1>5, PipeUntouched DEF HelperExit
  <1>6. ASSUME NEW p \in Page, PageStep(p) PROVE PipeInv'
    <2> USE DEF Goto
    <2>1. CASE \/ Outside(p) \/ Acquire(p) \/ RefuseCall(p)
               \/ BeginRequest(p) \/ RequestFails(p) \/ QuitWritten(p)
      <3>1. /\ pc[p] # "reading"
            /\ \E s : /\ pc' = [pc EXCEPT ![p] = s]
                     /\ s # "reading" /\ (s = "writing" => proc)
        BY <2>1 DEF Outside, StartPage, SkipUnwanted, SkipBudget, NoScanImage, PriceCall,
           ProbeProc, ProbePoll, Acquire, RefuseCall, BeginRequest, RequestFails, QuitWritten,
           LaunchCold, ColdEnds, Finish, FallBack
      <3>2. UNCHANGED helperVars
        BY <2>1 DEF Outside, StartPage, SkipUnwanted, SkipBudget, NoScanImage, PriceCall,
           ProbeProc, ProbePoll, Acquire, RefuseCall, BeginRequest, RequestFails, QuitWritten,
           LaunchCold, ColdEnds
      <3>3. \A q \in Page : /\ pc'[q] = "reading" <=> pc[q] = "reading"
                            /\ pc'[q] = "writing" => pc[q] = "writing" \/ proc
        BY <3>1
      <3> QED
        BY <3>2, <3>3, PipeUntouched DEF helperVars
    <2>2. CASE WriteRequest(p)
      <3>1. /\ pc[p] = "writing" /\ HelperAlive
            /\ pc' = [pc EXCEPT ![p] = "reading"]
            /\ UNCHANGED <<proc, helper, working, resps>>
        BY <2>2 DEF WriteRequest
      <3>2. \A q \in Page : pc[q] # "reading" /\ (pc[q] = "writing" => q = p)
        BY <3>1, OneReader DEF Holding, Calling
      <3>3. helper # "loading"
        BY <3>1 DEF TierInv, PlaceInv, Holding, Calling
      <3>4. reqs = <<>> /\ resps = <<>> /\ helper \in {"idle", "frozen"} /\ proc
        BY <3>1, <3>2, <3>3 DEF PipeInv, Quiet
      <3>5. reqs' = <<p>>
        BY <2>2, <3>4 DEF WriteRequest
      <3> QED
        BY <3>1, <3>2, <3>4, <3>5 DEF PipeInv, Pending
    <2>3. CASE ReadReply(p)
      <3>1. /\ pc[p] = "reading" /\ resps # <<>> /\ resps' = Tail(resps)
            /\ UNCHANGED <<proc, helper, working, reqs>>
            /\ \E s \in {"done", "cold"} : pc' = [pc EXCEPT ![p] = s]
        BY <2>3 DEF ReadReply, Finish, FallBack
      <3>2. \A q \in Page : pc'[q] \notin {"writing", "reading"}
        BY <3>1, OneReader DEF Holding, Calling
      <3>3. resps' = <<>>
        BY <3>1 DEF PipeInv, Answered
      <3>4. proc /\ HelperAlive => reqs = <<>> /\ helper \in {"idle", "frozen"}
        BY <3>1, OneReader DEF PipeInv, Quiet, Pending, Holding, Calling
      <3> QED
        BY <3>1, <3>2, <3>3, <3>4 DEF PipeInv, Quiet, HelperAlive
    <2>4. CASE ReadEof(p) \/ StopDone(p)
      <3>1. ~HelperAlive' /\ \A q \in Page : pc'[q] \notin {"writing", "reading"}
        <4>1. pc[p] \in Holding /\ pc' = [pc EXCEPT ![p] = "cold"]
          BY <2>4 DEF ReadEof, StopDone, FallBack, Holding, Calling
        <4>2. ~HelperAlive'
          BY <2>4 DEF ReadEof, StopDone, HelperAlive, helperVars
        <4> QED
          BY <4>1, <4>2, OneReader DEF Holding, Calling
      <3> QED
        BY <3>1 DEF PipeInv
    <2>5. CASE ReadTimeout(p)
      <3>1. ~proc' /\ pc[p] = "reading" /\ pc' = [pc EXCEPT ![p] = "quitting"]
        BY <2>5 DEF ReadTimeout
      <3>2. \A q \in Page : pc'[q] \notin {"writing", "reading"}
        BY <3>1, OneReader DEF Holding, Calling
      <3> QED
        BY <3>1, <3>2 DEF PipeInv
    <2> QED
      BY <1>6, <2>1, <2>2, <2>3, <2>4, <2>5 DEF PageStep, Outside
  <1>7. CASE UNCHANGED <<helperVars, pc>>
    BY <1>7, PipeUntouched DEF helperVars
  <1> QED
    BY <1>1, <1>2, <1>3, <1>4, <1>5, <1>6, <1>7
       DEF Next, Rest, vars, Helper, BeginJob, Tick

-----------------------------------------------------------------------------
(* What the pages record.                                                  *)

LEMMA StepFallback == TypeOK /\ FallbackInv /\ [Next]_vars => FallbackInv'
  <1> SUFFICES ASSUME TypeOK, FallbackInv, [Next]_vars PROVE FallbackInv'
    OBVIOUS
  <1> USE DEF FallbackInv, TypeOK, PageTypeOK
  <1>1. ASSUME NEW p \in Page, PageStep(p) PROVE FallbackInv'
    <2> USE DEF Goto, recordVars
    <2>1. CASE StartPage(p) \/ SkipUnwanted(p) \/ SkipBudget(p) \/ NoScanImage(p)
      BY <2>1 DEF StartPage, SkipUnwanted, SkipBudget, NoScanImage, Finish
    <2>2. CASE PriceCall(p) \/ ProbeProc(p) \/ ProbePoll(p) \/ Acquire(p)
      BY <2>2 DEF PriceCall, ProbeProc, ProbePoll, Acquire, Finish
    <2>3. CASE BeginRequest(p) \/ WriteRequest(p) \/ ReadTimeout(p) \/ QuitWritten(p)
      BY <2>3 DEF BeginRequest, WriteRequest, ReadTimeout, QuitWritten
    <2>4. CASE RefuseCall(p) \/ RequestFails(p) \/ ReadReply(p) \/ ReadEof(p) \/ StopDone(p)
      <3>1. /\ pc[p] \in {"locked", "writing", "reading", "stopping"}
            /\ UNCHANGED coldTried
            /\ \/ FallBack(p)
               \/ pc' = [pc EXCEPT ![p] = "done"] /\ UNCHANGED fellBack
        BY <2>4 DEF RefuseCall, RequestFails, ReadReply, ReadEof, StopDone, FallBack, Finish
      <3> QED
        BY <3>1 DEF FallBack
    <2>5. CASE LaunchCold(p)
      BY <2>5 DEF LaunchCold
    <2>6. CASE ColdEnds(p)
      BY <2>6 DEF ColdEnds, Finish
    <2> QED
      BY <1>1, <2>1, <2>2, <2>3, <2>4, <2>5, <2>6 DEF PageStep
  <1>2. CASE UNCHANGED <<pc, fellBack, coldTried>>
    BY <1>2
  <1> QED
    BY <1>1, <1>2 DEF Next, Rest, vars, Engine, StartHelper, HelperReady, StartFails,
       DeclineHelper, Helper, HelperTake, HelperReply, HelperHang, HelperFreeze, HelperExit,
       BeginJob, Tick, recordVars

\* The reply a page reads is its own (Pending), the command line prints the page it was
\* given: no text crosses over.
LEMMA StepOwnText == TypeOK /\ PipeInv /\ OwnText /\ [Next]_vars => OwnText'
  <1> SUFFICES ASSUME TypeOK, PipeInv, OwnText, [Next]_vars PROVE OwnText'
    OBVIOUS
  <1> USE DEF OwnText, TypeOK, PageTypeOK, recordVars
  <1>1. ASSUME NEW p \in Page, PageStep(p) PROVE OwnText'
    <2>1. \/ UNCHANGED text
          \/ \E t \in {p, NoPage} : text' = [text EXCEPT ![p] = t]
      <3>1. CASE Outside(p)
        BY <3>1 DEF Outside, StartPage, SkipUnwanted, SkipBudget, NoScanImage, PriceCall,
           ProbeProc, ProbePoll, LaunchCold, ColdEnds, Finish
      <3>2. CASE ReadReply(p)
        <4>1. pc[p] = "reading" /\ resps # <<>>
          BY <3>2 DEF ReadReply
        <4>2. Head(resps).page = p
          BY <4>1 DEF PipeInv, Answered
        <4> QED
          BY <3>2, <4>2 DEF ReadReply, Finish, FallBack
      <3>3. CASE \/ Acquire(p) \/ RefuseCall(p) \/ BeginRequest(p) \/ RequestFails(p)
                 \/ WriteRequest(p) \/ ReadEof(p) \/ ReadTimeout(p) \/ QuitWritten(p)
                 \/ StopDone(p)
        BY <3>3 DEF Acquire, RefuseCall, BeginRequest, RequestFails, WriteRequest, ReadEof,
           ReadTimeout, QuitWritten, StopDone, FallBack
      <3> QED
        BY <1>1, <3>1, <3>2, <3>3 DEF PageStep, Outside
    <2> QED
      BY <2>1
  <1>2. CASE UNCHANGED text
    BY <1>2
  <1> QED
    BY <1>1, <1>2 DEF Next, Rest, vars, Engine, StartHelper, HelperReady, StartFails,
       DeclineHelper, Helper, HelperTake, HelperReply, HelperHang, HelperFreeze, HelperExit,
       BeginJob, Tick

-----------------------------------------------------------------------------
(* The clock and the life of the helper.                                   *)

\* The timeout is the budget at the moment of pricing; a second takes one from the deadline
\* and one from the timer or adds one to the blocked time.
LEMMA StepBudget ==
  TypeOK /\ TierInv /\ BudgetInv /\ [Next]_vars => BudgetInv'
  <1> SUFFICES ASSUME TypeOK, TierInv, BudgetInv, [Next]_vars
               PROVE  BudgetInv'
    OBVIOUS
  <1> USE DEF BudgetInv, TypeOK, ClockTypeOK, PageTypeOK
  <1>1. ASSUME NEW p \in Page, PageStep(p) PROVE BudgetInv'
    <2> USE DEF Goto
    <2>1. UNCHANGED left
      BY <1>1 DEF PageStep, StartPage, SkipUnwanted, SkipBudget, NoScanImage, PriceCall,
         ProbeProc, ProbePoll, Acquire, RefuseCall, BeginRequest, RequestFails, WriteRequest,
         ReadReply, ReadEof, ReadTimeout, QuitWritten, StopDone, LaunchCold, ColdEnds
    <2>2. \A q \in Page \ {p} : /\ pc'[q] = pc[q] /\ blocked'[q] = blocked[q]
                                /\ perCall'[q] = perCall[q] /\ timer'[q] = timer[q]
      <3> USE DEF Finish, FallBack, EndCall
      <3>1. CASE Outside(p)
        BY <3>1 DEF Outside, StartPage, SkipUnwanted, SkipBudget, NoScanImage, PriceCall,
           ProbeProc, ProbePoll, LaunchCold, ColdEnds
      <3>2. CASE \/ Acquire(p) \/ BeginRequest(p) \/ WriteRequest(p) \/ ReadTimeout(p)
                 \/ QuitWritten(p)
        BY <3>2 DEF Acquire, BeginRequest, WriteRequest, ReadTimeout, QuitWritten
      <3>3. CASE RefuseCall(p) \/ RequestFails(p) \/ ReadReply(p) \/ ReadEof(p) \/ StopDone(p)
        BY <3>3 DEF RefuseCall, RequestFails, ReadReply, ReadEof, StopDone
      <3> QED
        BY <1>1, <3>1, <3>2, <3>3 DEF PageStep, Outside
    <2>3. Slack(pc'[p], left'[JobOf(p)], blocked'[p], perCall'[p], timer'[p])
      <3>1. /\ left[JobOf(p)] \in Int /\ blocked[p] \in Nat /\ perCall[p] \in Nat
            /\ timer[p] \in Nat
            /\ Slack(pc[p], left[JobOf(p)], blocked[p], perCall[p], timer[p])
        BY PageHasJob
      <3>2. CASE BeginRequest(p)
        <4>1. /\ pc'[p] = "writing" /\ blocked'[p] = blocked[p]
              /\ perCall'[p] = PricedTimeout(p)
          BY <3>2 DEF BeginRequest
        <4>2. PricedTimeout(p) <= left[JobOf(p)]
          BY <3>1 DEF PricedTimeout, MinOf, AtLeastOne
        <4>3. PricedTimeout(p) \in Int
          BY <3>1 DEF PricedTimeout, MinOf, AtLeastOne
        <4> QED
          BY <2>1, <3>1, <4>1, <4>2, <4>3 DEF Slack
      <3>3. CASE WriteRequest(p)
        BY <2>1, <3>1, <3>3 DEF WriteRequest, Slack
      <3>4. CASE ReadTimeout(p)
        BY <2>1, <3>1, <3>4 DEF ReadTimeout, Slack
      <3>5. CASE QuitWritten(p)
        BY <2>1, <3>1, <3>5 DEF QuitWritten, Slack
      <3>6. CASE Outside(p) \/ Acquire(p)
        <4>1. pc'[p] \notin Calling
          BY <3>6 DEF Outside, StartPage, SkipUnwanted, SkipBudget, NoScanImage, PriceCall,
             ProbeProc, ProbePoll, LaunchCold, ColdEnds, Finish, Acquire, Calling
        <4> QED
          BY <4>1 DEF Slack, Calling
      <3>7. CASE RefuseCall(p) \/ RequestFails(p) \/ ReadReply(p) \/ ReadEof(p) \/ StopDone(p)
        <4>1. pc'[p] \notin Calling
          BY <3>7 DEF RefuseCall, RequestFails, ReadReply, ReadEof, StopDone, FallBack, Finish,
                      Calling
        <4> QED
          BY <4>1 DEF Slack, Calling
      <3> QED
        BY <1>1, <3>2, <3>3, <3>4, <3>5, <3>6, <3>7 DEF PageStep, Outside
    <2> QED
      BY <2>1, <2>2, <2>3
  <1>2. CASE Tick
    <2> SUFFICES ASSUME NEW p \in Page
                 PROVE  Slack(pc[p], left'[JobOf(p)], blocked'[p], perCall[p], timer'[p])
      BY <1>2 DEF Tick
    <2>1. /\ left[JobOf(p)] \in -Overtime .. Budget /\ blocked[p] \in 0 .. Overtime
          /\ perCall[p] \in 0 .. Budget /\ timer[p] \in Nat
          /\ Slack(pc[p], left[JobOf(p)], blocked[p], perCall[p], timer[p])
      BY PageHasJob
    <2>2. /\ left'[JobOf(p)] \in {left[JobOf(p)], left[JobOf(p)] - 1}
          /\ timer'[p] = IF pc[p] \in Timed THEN timer[p] - 1 ELSE timer[p]
          /\ blocked'[p] = IF pc[p] \in Writing THEN MinOf(blocked[p] + 1, Overtime)
                           ELSE blocked[p]
      BY <1>2, PageHasJob DEF Tick
    <2> QED
      BY <2>1, <2>2 DEF Slack, Timed, Writing, MinOf
  <1>3. CASE UNCHANGED <<pc, perCall, timer, blocked, left>>
    BY <1>3
  <1> QED
    BY <1>1, <1>2, <1>3 DEF Next, Rest, vars, Engine, StartHelper, HelperReady, StartFails,
       DeclineHelper, Helper, HelperTake, HelperReply, HelperHang, HelperFreeze, HelperExit,
       BeginJob

\* Only stop() clears _proc, and its thread leaves the lock with the helper dead.
LEMMA StepOrphan ==
  TypeOK /\ TierInv /\ LockInv /\ NoOrphanHelper /\ [Next]_vars => NoOrphanHelper'
  <1> SUFFICES ASSUME TypeOK, TierInv, LockInv, NoOrphanHelper, [Next]_vars
               PROVE  NoOrphanHelper'
    OBVIOUS
  <1> USE DEF NoOrphanHelper, HelperAlive, TypeOK, PageTypeOK
  <1>1. CASE Engine
    BY <1>1 DEF Engine, StartHelper, HelperReady, StartFails, DeclineHelper, TierInv
  <1>2. CASE Helper
    BY <1>2 DEF Helper, HelperTake, HelperReply, HelperHang, HelperFreeze, HelperExit
  <1>3. ASSUME NEW p \in Page, PageStep(p) PROVE NoOrphanHelper'
    <2> USE DEF Goto
    <2>1. CASE ReadTimeout(p) \/ QuitWritten(p)
      BY <2>1 DEF ReadTimeout, QuitWritten, helperVars
    <2>2. CASE StopDone(p)
      BY <2>2 DEF StopDone
    <2>3. CASE ~ReadTimeout(p) /\ ~QuitWritten(p) /\ ~StopDone(p)
      <3>1. /\ UNCHANGED <<tier, proc, helper>>
            /\ pc[p] \notin {"quitting", "stopping"}
            /\ \E s : pc' = [pc EXCEPT ![p] = s]
        BY <1>3, <2>3 DEF PageStep, StartPage, SkipUnwanted, SkipBudget, NoScanImage,
           PriceCall, ProbeProc, ProbePoll, Acquire, RefuseCall, BeginRequest, RequestFails,
           WriteRequest, ReadReply, ReadEof, LaunchCold, ColdEnds, Finish, FallBack, helperVars
      <3> QED
        BY <3>1
    <2> QED
      BY <2>1, <2>2, <2>3
  <1>4. CASE UNCHANGED <<tier, proc, helper, pc>>
    BY <1>4
  <1> QED
    BY <1>1, <1>2, <1>3, <1>4 DEF Next, Rest, vars, BeginJob, Tick, helperVars

-----------------------------------------------------------------------------
(* The inductive invariant, and what follows from it.                      *)

LEMMA InitIInv == Init => IInv
  <1> SUFFICES ASSUME Init PROVE IInv
    OBVIOUS
  <1>1. TypeOK
    BY InitType
  <1>2. LockInv
    BY DEF Init, LockInv, Holding, Calling
  <1>3. TierInv /\ WorkInv /\ PipeInv
    BY DEF Init, TierInv, PlaceInv, Holding, Calling, WorkInv, PipeInv, Quiet, HelperAlive
  <1>4. FallbackInv /\ OwnText
    BY DEF Init, FallbackInv, OwnText
  <1>5. BudgetInv /\ NoOrphanHelper
    BY DEF Init, BudgetInv, Slack, NoOrphanHelper
  <1> QED
    BY <1>1, <1>2, <1>3, <1>4, <1>5 DEF IInv

LEMMA StepIInv == IInv /\ [Next]_vars => IInv'
  BY StepType, StepLock, StepTier, StepWork, StepPipe, StepFallback, StepOwnText,
     StepBudget, StepOrphan DEF IInv

LEMMA Inductive == Spec => []IInv
  BY InitIInv, StepIInv, PTL DEF Spec

\* Every variable of the warm tier keeps its type: in particular no timer goes below
\* zero and no reply names anything but a page.
THEOREM TypeCorrect == Spec => []TypeOK
  <1>1. IInv => TypeOK
    BY DEF IInv
  <1> QED
    BY <1>1, Inductive, PTL

\* No page is given the text of another (ocr, _readline and stop of ocr_warm.py), for
\* any number of jobs, pages and worker threads.
THEOREM TextIsOwn == Spec => []OwnText
  <1>1. IInv => OwnText
    BY DEF IInv
  <1> QED
    BY <1>1, Inductive, PTL

\* A helper that can still be called has nothing pending when no page reads from it.
THEOREM PipeIsQuiet == Spec => []PipeQuietBetweenCalls
  <1>1. IInv => PipeQuietBetweenCalls
    BY DEF IInv, PipeInv, Quiet, PipeQuietBetweenCalls
  <1> QED
    BY <1>1, Inductive, PTL

\* However long it waited for the lock, a warm call is over Grace seconds past its job's
\* deadline, but for the seconds it was blocked in a write (ocr, _readline, stop).
THEOREM WarmCallsEndInBudget == Spec => []WarmCallWithinBudget
  <1>1. IInv => WarmCallWithinBudget
    <2> SUFFICES ASSUME IInv, NEW p \in Page, pc[p] \in Calling
                 PROVE  left[JobOf(p)] + blocked[p] + Grace >= 0
      BY DEF WarmCallWithinBudget
    <2>1. /\ left[JobOf(p)] \in -Overtime .. Budget /\ blocked[p] \in 0 .. Overtime
          /\ perCall[p] \in 0 .. Budget /\ timer[p] \in Nat
          /\ Slack(pc[p], left[JobOf(p)], blocked[p], perCall[p], timer[p])
      BY PageHasJob DEF IInv, TypeOK, ClockTypeOK, BudgetInv
    <2> QED
      BY <2>1 DEF Slack, Calling
  <1> QED
    BY <1>1, Inductive, PTL

\* stop() leaves no helper process behind.
THEOREM StopLeavesNoHelper == Spec => []NoOrphanHelper
  <1>1. IInv => NoOrphanHelper
    BY DEF IInv
  <1> QED
    BY <1>1, Inductive, PTL

\* A failed warm call is followed by the command line before the page is recorded.
THEOREM ColdFollowsWarmFailure == Spec => []ColdAfterWarmFailure
  <1>1. IInv => ColdAfterWarmFailure
    BY DEF IInv, FallbackInv, ColdAfterWarmFailure
  <1> QED
    BY <1>1, Inductive, PTL

-----------------------------------------------------------------------------
(* Inside the helper.  LeastRecentlyUsed is not inductive: it needs the    *)
(* cache to be sorted by last use, and the call in flight to be later than *)
(* every use so far until its model is taken.                              *)

\* The line in the pipe is the one the helper waits for, and is for the key being asked.
LineInv ==
    /\ serving # "exited" => inPipe + toWrite = unread
    /\ unread > 0 => asking \in Keys /\ reply = "none"
    /\ serving \in {"asked", "evicting", "recognising", "hung"} =>
          asking \in Keys /\ reply = "none" /\ unread = 0
    /\ client = "idle" =>
          unread = 0 /\ toWrite = 0 /\ asking = NoKey /\ reply = "none"

Sorted == \A i, j \in DOMAIN apis : i < j => usedAt[apis[i]] < usedAt[apis[j]]

\* Before the eviction the cache has one entry too many, and the last is the one asked for.
CacheInv ==
    /\ Len(apis) <= MaxCachedApis + (IF serving = "evicting" THEN 1 ELSE 0)
    /\ inMemory = Len(apis) + unended
    /\ serving = "evicting" => apis # <<>> /\ apis[Len(apis)] = asking
    /\ Sorted
    /\ \A k \in Keys : usedAt[k] <= calls
    /\ serving = "asked" \/ unread > 0 => \A k \in Keys : usedAt[k] < calls
    /\ LeastRecentlyUsed
    /\ AskedSurvivesEviction

ServeInv == ServeTypeOK /\ LineInv /\ CacheInv

LEMMA ServeInitInv == ServeInit => ServeInv
BY OcrHelperAssumption DEF ServeInit, ServeInv, ServeTypeOK, LineInv, CacheInv, Sorted, Cached,
                           LeastRecentlyUsed, AskedSurvivesEviction

-----------------------------------------------------------------------------
\* What the operators of the cache return.

\* move_to_end keeps the entries and their order, but for the one it puts last.
LEMMA MoveToEndFacts ==
    ASSUME NEW s \in Seq(Keys), NEW k, NEW at \in DOMAIN s, s[at] = k,
           \A i, j \in DOMAIN s : s[i] = s[j] => i = j
    PROVE  /\ MoveToEnd(s, k) \in Seq(Keys) /\ Len(MoveToEnd(s, k)) = Len(s)
           /\ \A i \in 1 .. Len(s) :
                 MoveToEnd(s, k)[i] = IF i < at THEN s[i] ELSE IF i < Len(s) THEN s[i + 1] ELSE k
<1>1. (CHOOSE i \in DOMAIN s : s[i] = k) = at
  OBVIOUS
<1>2. MoveToEnd(s, k) = [i \in 1 .. Len(s) |->
                            IF i < at THEN s[i] ELSE IF i < Len(s) THEN s[i + 1] ELSE k]
  BY <1>1 DEF MoveToEnd
<1>3. \A i \in 1 .. Len(s) : MoveToEnd(s, k)[i] \in Keys
  BY <1>2
<1> QED
  BY <1>2, <1>3

-----------------------------------------------------------------------------
\* A cache sorted by last use has no key twice.
LEMMA CachedOnce ==
    ASSUME ServeTypeOK, Sorted
    PROVE  \A i, j \in DOMAIN apis : apis[i] = apis[j] => i = j
<1>1. /\ apis \in Seq(Keys) /\ usedAt \in [Keys -> Nat]
      /\ DOMAIN apis = 1 .. Len(apis) /\ Len(apis) \in Nat
  BY DEF ServeTypeOK
<1>2. \A i, j \in DOMAIN apis : i < j => apis[i] # apis[j]
  BY <1>1 DEF Sorted
<1> QED
  BY <1>1, <1>2

LEMMA LineInductive == ServeInv /\ [ServeNext]_serveVars => LineInv' /\ ServeTypeOK'
<1> SUFFICES ASSUME ServeInv, [ServeNext]_serveVars PROVE LineInv' /\ ServeTypeOK'
  OBVIOUS
<1> USE OcrHelperAssumption DEF ServeInv, ServeTypeOK, LineInv, cacheVars, memoryVars, pipeVars
<1>1. CASE \E k \in Keys : Call(k)
  <2>1. PICK k \in Keys : Call(k)
    BY <1>1
  <2>2. PICK n \in 1 .. RequestSize : toWrite' = n /\ unread' = n
    BY <2>1 DEF Call
  <2>3. UNCHANGED <<cacheVars, inPipe, serving, reply>> /\ client = "idle"
        /\ serving # "exited" /\ calls' = calls + 1 /\ asking' = k /\ client' = "writing"
    BY <2>1 DEF Call
  <2>4. serving \notin {"asked", "recognising", "hung"} /\ inPipe = 0 /\ toWrite = 0
        /\ reply = "none"
    BY <2>3
  <2> QED
    BY <2>2, <2>3, <2>4
<1>2. CASE Write
  BY <1>2 DEF Write
<1>3. CASE WriteFails \/ Read \/ ReplyTimeout \/ QuitSent
  <2>1. CASE WriteFails
    BY <2>1 DEF WriteFails, CallOver
  <2>2. CASE Read
    BY <2>2 DEF Read, CallOver
  <2>3. CASE ReplyTimeout
    BY <2>3 DEF ReplyTimeout
  <2>4. CASE QuitSent
    <3>1. apis' \in Seq(Keys)
      BY <2>4 DEF QuitSent, MemoryFreed
    <3> QED
      BY <2>4, <3>1 DEF QuitSent, CallOver, MemoryFreed
  <2> QED
    BY <1>3, <2>1, <2>2, <2>3, <2>4
<1>4. CASE ReadChunk
  BY <1>4 DEF ReadChunk
<1>5. CASE Hit
  <2>1. PICK at \in DOMAIN apis : apis[at] = asking
    BY <1>5 DEF Hit, Cached
  <2>2. \A i, j \in DOMAIN apis : apis[i] = apis[j] => i = j
    BY CachedOnce DEF CacheInv
  <2>3. apis' \in Seq(Keys)
    BY <1>5, <2>1, <2>2, MoveToEndFacts DEF Hit
  <2> QED
    BY <1>5, <2>3 DEF Hit, Use
<1>6. CASE LoadModel \/ Evict \/ CacheFits
  <2>1. CASE LoadModel
    <3>1. apis' \in Seq(Keys)
      BY <2>1, AppendProperties DEF LoadModel
    <3> QED
      BY <2>1, <3>1 DEF LoadModel, Use
  <2>2. CASE Evict
    <3>1. apis # <<>>
      BY <2>2 DEF CacheInv, Evict
    <3>2. apis' \in Seq(Keys)
      BY <2>2, <3>1, HeadTailProperties DEF Evict
    <3>3. inMemory' \in Nat /\ unended' \in Nat
      <4>1. Len(apis) \in Nat \ {0} /\ inMemory = Len(apis) + unended
        BY <3>1, EmptySeq DEF CacheInv
      <4> QED
        BY <2>2, <4>1 DEF Evict
    <3> QED
      BY <2>2, <3>2, <3>3 DEF Evict
  <2>3. CASE CacheFits
    BY <2>3 DEF CacheFits
  <2> QED
    BY <1>6, <2>1, <2>2, <2>3
<1>7. CASE LoadFails \/ Recognised
  BY <1>7 DEF LoadFails, Recognised, Answer
<1>8. CASE Hang \/ Stall \/ Die
  <2>1. CASE Hang \/ Stall
    BY <2>1 DEF Hang, Stall
  <2>2. CASE Die
    <3>1. apis' \in Seq(Keys)
      BY <2>2 DEF Die, MemoryFreed
    <3> QED
      BY <2>2, <3>1 DEF Die, MemoryFreed
  <2> QED
    BY <1>8, <2>1, <2>2
<1>9. CASE UNCHANGED serveVars
  BY <1>9 DEF serveVars
<1> QED
  BY <1>1, <1>2, <1>3, <1>4, <1>5, <1>6, <1>7, <1>8, <1>9
     DEF ServeNext, ClientStep, HelperStep

\* A step that uses no model leaves the cache as it was, or ends with the process.
LEMMA CacheKept ==
    ASSUME ServeInv, UNCHANGED cacheVars, calls' >= calls, calls' \in Nat,
           serving' = "asked" \/ unread' > 0 => \A k \in Keys : usedAt[k] < calls',
           serving' = serving \/ serving' \notin {"evicting", "recognising"},
           serving' \in {"evicting", "recognising"} => asking' = asking,
           serving = "evicting" => serving' = "evicting"
    PROVE  CacheInv'
BY DEF ServeInv, ServeTypeOK, CacheInv, Sorted, Cached, LeastRecentlyUsed,
   AskedSurvivesEviction, cacheVars, memoryVars

LEMMA CacheLost ==
    ASSUME ServeInv, MemoryFreed, UNCHANGED <<usedAt, calls>>, serving' = "exited",
           unread' \in {0, unread}
    PROVE  CacheInv'
<1>1. /\ DOMAIN apis' = {} /\ Len(apis') = 0
      /\ Cached' = {}
  BY DEF Cached, MemoryFreed
<1>2. /\ Len(apis') <= MaxCachedApis + (IF serving' = "evicting" THEN 1 ELSE 0)
      /\ inMemory' = Len(apis') + unended'
  BY <1>1, OcrHelperAssumption DEF MemoryFreed
<1>3. \A k \in Keys : usedAt'[k] <= calls'
  BY DEF ServeInv, CacheInv
<1>4. serving' = "asked" \/ unread' > 0 => \A k \in Keys : usedAt'[k] < calls'
  BY DEF ServeInv, ServeTypeOK, CacheInv
<1>5. Sorted'
  BY <1>1 DEF Sorted
<1>6. LeastRecentlyUsed'
  BY <1>1 DEF LeastRecentlyUsed
<1>7. AskedSurvivesEviction'
  BY DEF AskedSurvivesEviction
<1> QED
  BY <1>2, <1>3, <1>4, <1>5, <1>6, <1>7 DEF CacheInv

LEMMA CacheInductive == ServeInv /\ [ServeNext]_serveVars => CacheInv'
<1> SUFFICES ASSUME ServeInv, [ServeNext]_serveVars PROVE CacheInv'
  OBVIOUS
<1> USE OcrHelperAssumption
<1>0. \A i, j \in DOMAIN apis : apis[i] = apis[j] => i = j
  BY CachedOnce DEF ServeInv, CacheInv
<1>1. CASE \E k \in Keys : Call(k)
  BY <1>1, CacheKept DEF Call, ServeInv, ServeTypeOK, LineInv, CacheInv
<1>2. CASE Write \/ ReplyTimeout \/ ReadChunk \/ LoadFails \/ Recognised \/ Hang \/ Stall
  BY <1>2, CacheKept DEF Write, ReplyTimeout, ReadChunk, LoadFails, Recognised, Hang, Stall, Answer,
                         ServeInv, ServeTypeOK, LineInv, CacheInv, pipeVars
<1>3. CASE WriteFails \/ Read
  BY <1>3, CacheKept DEF WriteFails, Read, CallOver, ServeInv, ServeTypeOK, LineInv, CacheInv
<1>4. CASE QuitSent \/ Die
  BY <1>4, CacheLost DEF QuitSent, Die, CallOver, pipeVars
<1>5. CASE Hit
  <2>0. /\ apis \in Seq(Keys) /\ Len(apis) \in Nat /\ DOMAIN apis = 1 .. Len(apis)
        /\ \A i \in 1 .. Len(apis) : apis[i] \in Keys
    BY LenProperties DEF ServeInv, ServeTypeOK
  <2>1. PICK at \in 1 .. Len(apis) : apis[at] = asking
    BY <1>5, <2>0 DEF Hit, Cached
  <2>2. /\ apis' \in Seq(Keys) /\ Len(apis') = Len(apis)
        /\ \A i \in 1 .. Len(apis) :
              apis'[i] = IF i < at THEN apis[i] ELSE IF i < Len(apis) THEN apis[i + 1] ELSE asking
    BY <1>0, <1>5, <2>0, <2>1, MoveToEndFacts DEF Hit
  <2>3. /\ asking \in Keys
        /\ \A k \in Keys : usedAt'[k] = IF k = asking THEN calls ELSE usedAt[k]
        /\ \A k \in Keys : usedAt[k] < calls
    BY <1>5 DEF Hit, Use, LineInv, CacheInv, ServeInv, ServeTypeOK
  <2>4. DOMAIN apis' = 1 .. Len(apis)
    BY <2>0, <2>2, LenProperties
  <2>5. Cached' = Cached
    <3>1. ASSUME NEW i \in 1 .. Len(apis) PROVE apis'[i] \in Cached
      <4>1. apis'[i] \in {apis[j] : j \in 1 .. Len(apis)}
        BY <2>0, <2>1, <2>2
      <4> QED
        BY <2>0, <4>1 DEF Cached
    <3>2. ASSUME NEW i \in 1 .. Len(apis) PROVE apis[i] \in Cached'
      <4>1. CASE i < at
        BY <2>2, <2>4, <4>1 DEF Cached
      <4>2. CASE i = at
        <5>1. Len(apis) \in 1 .. Len(apis) /\ apis'[Len(apis)] = apis[i]
          BY <2>0, <2>1, <2>2, <4>2
        <5> QED
          BY <2>4, <5>1 DEF Cached
      <4>3. CASE i > at
        <5>1. i - 1 \in 1 .. Len(apis) /\ apis'[i - 1] = apis[i]
          BY <2>0, <2>2, <4>3
        <5> QED
          BY <2>4, <5>1 DEF Cached
      <4> QED
        BY <2>0, <4>1, <4>2, <4>3
    <3> QED
      BY <2>0, <2>4, <3>1, <3>2, Zenon DEF Cached
  <2>6. Sorted'
    <3> SUFFICES ASSUME NEW i \in 1 .. Len(apis), NEW j \in 1 .. Len(apis), i < j
                 PROVE  usedAt'[apis'[i]] < usedAt'[apis'[j]]
      BY <2>4 DEF Sorted
    <3>1. \A m, n \in 1 .. Len(apis) : m < n => usedAt[apis[m]] < usedAt[apis[n]]
      BY <2>0 DEF ServeInv, CacheInv, Sorted
    <3>2. \A m, n \in 1 .. Len(apis) : apis[m] = apis[n] => m = n
      BY <1>0, <2>0
    <3>3. i < Len(apis) /\ apis'[i] # asking /\ usedAt'[apis'[i]] = usedAt[apis'[i]]
      BY <2>0, <2>1, <2>2, <2>3, <3>2
    <3>4. CASE apis'[j] = asking
      BY <2>0, <2>2, <2>3, <3>3, <3>4
    <3>5. CASE apis'[j] # asking
      <4>1. /\ apis'[i] = IF i < at THEN apis[i] ELSE apis[i + 1]
            /\ apis'[j] = IF j < at THEN apis[j] ELSE apis[j + 1]
            /\ j < Len(apis)
        BY <2>2, <3>3, <3>5
      <4>2. usedAt[apis'[i]] < usedAt[apis'[j]]
        BY <2>0, <3>1, <4>1
      <4>3. usedAt'[apis'[j]] = usedAt[apis'[j]]
        BY <2>0, <2>3, <3>5, <4>1
      <4> QED
        BY <3>3, <4>2, <4>3
    <3> QED
      BY <3>4, <3>5
  <2>7. asking \in Cached /\ Cached \subseteq Keys
    BY <1>5, <2>0 DEF Hit, Cached
  <2>8. LeastRecentlyUsed'
    BY <2>3, <2>5, <2>7 DEF LeastRecentlyUsed, ServeInv, CacheInv
  <2>9. calls' = calls /\ UNCHANGED memoryVars /\ asking' = asking /\ unread' = unread
        /\ serving' = "recognising" /\ unread = 0
    BY <1>5 DEF Hit, Use, pipeVars, LineInv, ServeInv
  <2>10. \A k \in Keys : usedAt'[k] <= calls
    BY <2>3 DEF ServeInv, ServeTypeOK
  <2>11. Len(apis) <= MaxCachedApis /\ inMemory' = Len(apis') + unended'
    BY <1>5, <2>2, <2>9 DEF CacheInv, ServeInv, memoryVars, Hit
  <2> QED
    BY <2>2, <2>5, <2>6, <2>7, <2>8, <2>9, <2>10, <2>11 DEF CacheInv, AskedSurvivesEviction, ServeInv
<1>6. CASE LoadModel
  <2>0. /\ apis \in Seq(Keys) /\ Len(apis) \in Nat /\ DOMAIN apis = 1 .. Len(apis)
        /\ \A i \in 1 .. Len(apis) : apis[i] \in Keys
    BY LenProperties DEF ServeInv, ServeTypeOK
  <2>1. asking \in Keys /\ asking \notin Cached /\ Cached \subseteq Keys
    BY <1>6, <2>0 DEF LoadModel, LineInv, ServeInv, Cached
  <2>2. /\ apis' \in Seq(Keys) /\ Len(apis') = Len(apis) + 1
        /\ \A i \in 1 .. Len(apis) : apis'[i] = apis[i]
        /\ apis'[Len(apis) + 1] = asking
    BY <1>6, <2>0, <2>1, AppendProperties DEF LoadModel
  <2>3. DOMAIN apis' = 1 .. Len(apis) + 1
    BY <2>0, <2>2, LenProperties
  <2>4. /\ \A k \in Keys : usedAt'[k] = IF k = asking THEN calls ELSE usedAt[k]
        /\ \A k \in Keys : usedAt[k] < calls
    BY <1>6 DEF LoadModel, Use, CacheInv, ServeInv, ServeTypeOK
  <2>5. Cached' = Cached \cup {asking}
    <3>1. {apis'[i] : i \in 1 .. Len(apis) + 1} = {apis[i] : i \in 1 .. Len(apis)} \cup {asking}
      BY <2>0, <2>2
    <3> QED
      BY <2>0, <2>3, <3>1 DEF Cached
  <2>6. Sorted'
    <3> SUFFICES ASSUME NEW i \in 1 .. Len(apis) + 1, NEW j \in 1 .. Len(apis) + 1, i < j
                 PROVE  usedAt'[apis'[i]] < usedAt'[apis'[j]]
      BY <2>3 DEF Sorted
    <3>1. \A m, n \in 1 .. Len(apis) : m < n => usedAt[apis[m]] < usedAt[apis[n]]
      BY <2>0 DEF ServeInv, CacheInv, Sorted
    <3>2. \A m \in 1 .. Len(apis) : apis[m] # asking
      BY <2>0, <2>1 DEF Cached
    <3>3. i \in 1 .. Len(apis) /\ apis'[i] = apis[i] /\ usedAt'[apis'[i]] = usedAt[apis[i]]
      BY <2>0, <2>2, <2>4, <3>2
    <3>4. CASE j <= Len(apis)
      BY <2>0, <2>2, <2>4, <3>1, <3>2, <3>3, <3>4
    <3>5. CASE ~(j <= Len(apis))
      BY <2>0, <2>1, <2>2, <2>4, <3>3, <3>5
    <3> QED
      BY <3>4, <3>5
  <2>7. LeastRecentlyUsed'
    BY <2>1, <2>4, <2>5 DEF LeastRecentlyUsed, CacheInv, ServeInv
  <2>8. /\ UNCHANGED <<calls, asking, unread, unended>> /\ unread = 0
        /\ serving = "asked" /\ serving' = "evicting" /\ inMemory' = inMemory + 1
    BY <1>6 DEF LoadModel, pipeVars, LineInv, ServeInv
  <2>9. \A k \in Keys : usedAt'[k] <= calls
    <3>1. calls \in Nat /\ \A k \in Keys : usedAt[k] \in Nat
      BY DEF ServeInv, ServeTypeOK
    <3> QED
      BY <2>4, <3>1
  <2>10. Len(apis') <= MaxCachedApis + 1 /\ inMemory' = Len(apis') + unended'
    BY <2>0, <2>2, <2>8 DEF CacheInv, ServeInv, ServeTypeOK
  <2>11. apis' # <<>> /\ apis'[Len(apis')] = asking'
    BY <2>0, <2>2, <2>8
  <2> QED
    BY <2>6, <2>7, <2>8, <2>9, <2>10, <2>11 DEF CacheInv, AskedSurvivesEviction
<1>7. CASE Evict
  <2>0. /\ apis \in Seq(Keys) /\ Len(apis) \in Nat \ {0, 1} /\ DOMAIN apis = 1 .. Len(apis)
        /\ Len(apis) <= MaxCachedApis + 1
    BY <1>7, LenProperties DEF ServeInv, ServeTypeOK, CacheInv, Evict
  <2>1. /\ apis' \in Seq(Keys) /\ Len(apis') = Len(apis) - 1
        /\ \A i \in 1 .. Len(apis) - 1 : apis'[i] = apis[i + 1]
        /\ DOMAIN apis' = 1 .. Len(apis) - 1
    <3>1. apis # <<>> /\ apis' = Tail(apis)
      BY <1>7, <2>0 DEF Evict
    <3>2. apis' \in Seq(Keys) /\ Len(apis') = Len(apis) - 1
          /\ \A i \in 1 .. Len(apis') : apis'[i] = apis[i + 1]
      BY <2>0, <3>1, HeadTailProperties
    <3> QED
      BY <2>0, <3>2, LenProperties
  <2>2. /\ UNCHANGED <<usedAt, calls, asking, serving, unread>> /\ serving = "evicting"
    BY <1>7 DEF Evict, pipeVars
  <2>3. apis'[Len(apis')] = asking' /\ apis' # <<>>
    BY <2>0, <2>1, <2>2 DEF CacheInv, ServeInv
  <2>4. Cached' \subseteq Cached /\ Cached \ Cached' \subseteq {apis[1]}
    <3>1. ASSUME NEW i \in 1 .. Len(apis) - 1 PROVE apis'[i] \in Cached
      <4>1. i + 1 \in DOMAIN apis /\ apis'[i] = apis[i + 1]
        BY <2>0, <2>1
      <4> QED
        BY <4>1 DEF Cached
    <3>2. ASSUME NEW i \in 1 .. Len(apis), i # 1 PROVE apis[i] \in Cached'
      <4>1. i - 1 \in 1 .. Len(apis) - 1 /\ apis'[i - 1] = apis[i]
        BY <2>0, <2>1, <3>2
      <4> QED
        BY <2>1, <4>1 DEF Cached
    <3>3. Cached' \subseteq Cached
      BY <2>1, <3>1, Zenon DEF Cached
    <3>4. Cached \ Cached' \subseteq {apis[1]}
      BY <2>0, <3>2, Zenon DEF Cached
    <3> QED
      BY <3>3, <3>4
  <2>5. Sorted'
    <3> SUFFICES ASSUME NEW i \in 1 .. Len(apis) - 1, NEW j \in 1 .. Len(apis) - 1, i < j
                 PROVE  usedAt[apis'[i]] < usedAt[apis'[j]]
      BY <2>1, <2>2 DEF Sorted
    <3>1. i + 1 \in DOMAIN apis /\ j + 1 \in DOMAIN apis /\ i + 1 < j + 1
      BY <2>0
    <3>2. usedAt[apis[i + 1]] < usedAt[apis[j + 1]]
      BY <3>1 DEF Sorted, CacheInv, ServeInv
    <3> QED
      BY <2>1, <3>2
  <2>6. LeastRecentlyUsed'
    <3> SUFFICES ASSUME NEW k \in Cached', NEW d \in Keys \ Cached'
                 PROVE  usedAt[d] < usedAt[k]
      BY <2>2 DEF LeastRecentlyUsed
    <3>1. CASE d \notin Cached
      BY <2>4, <3>1 DEF LeastRecentlyUsed, CacheInv, ServeInv
    <3>2. CASE d \in Cached
      <4>1. d = apis[1]
        BY <2>4, <3>2
      <4>2. PICK j \in 1 .. Len(apis) - 1 : apis'[j] = k
        BY <2>1 DEF Cached
      <4>3. 1 \in DOMAIN apis /\ j + 1 \in DOMAIN apis /\ 1 < j + 1 /\ apis[j + 1] = k
        BY <2>0, <2>1, <4>2
      <4> QED
        BY <4>1, <4>3 DEF Sorted, CacheInv, ServeInv
    <3> QED
      BY <3>1, <3>2
  <2>7. inMemory' = Len(apis') + unended'
    <3>1. inMemory = Len(apis) + unended /\ inMemory \in Nat /\ unended \in Nat
      BY DEF CacheInv, ServeInv, ServeTypeOK
    <3> QED
      BY <1>7, <2>0, <2>1, <3>1 DEF Evict
  <2>8. Len(apis') <= MaxCachedApis + 1
    BY <2>0, <2>1
  <2>9. /\ \A k \in Keys : usedAt'[k] <= calls'
        /\ unread' > 0 => \A k \in Keys : usedAt'[k] < calls'
    BY <2>2 DEF CacheInv, ServeInv
  <2> QED
    BY <2>2, <2>3, <2>5, <2>6, <2>7, <2>8, <2>9 DEF CacheInv, AskedSurvivesEviction
<1>8. CASE CacheFits
  <2>1. /\ UNCHANGED <<cacheVars, calls, asking, unread>>
        /\ Len(apis) <= MaxCachedApis /\ serving = "evicting" /\ serving' = "recognising"
    BY <1>8 DEF CacheFits, pipeVars
  <2>2. asking \in Cached
    <3>1. /\ apis \in Seq(Keys) /\ apis # <<>> /\ apis[Len(apis)] = asking
          /\ DOMAIN apis = 1 .. Len(apis) /\ Len(apis) \in Nat
      BY <2>1, LenProperties DEF CacheInv, ServeInv, ServeTypeOK
    <3>2. Len(apis) \in DOMAIN apis
      BY <3>1, EmptySeq
    <3> QED
      BY <3>1, <3>2 DEF Cached
  <2>3. Cached' = Cached /\ LeastRecentlyUsed' /\ Sorted'
    BY <2>1 DEF cacheVars, Cached, LeastRecentlyUsed, Sorted, CacheInv, ServeInv
  <2> QED
    BY <2>1, <2>2, <2>3 DEF CacheInv, ServeInv, ServeTypeOK, AskedSurvivesEviction, cacheVars, memoryVars
<1>9. CASE UNCHANGED serveVars
  BY <1>9, CacheKept DEF serveVars, ServeInv, ServeTypeOK, CacheInv, pipeVars
<1> QED
  BY <1>1, <1>2, <1>3, <1>4, <1>5, <1>6, <1>7, <1>8, <1>9 DEF ServeNext, ClientStep, HelperStep

THEOREM ServeInvariant == ServeSpec => []ServeInv
<1>1. ServeInv /\ [ServeNext]_serveVars => ServeInv'
  BY LineInductive, CacheInductive DEF ServeInv
<1> QED
  BY <1>1, ServeInitInv, PTL DEF ServeSpec

-----------------------------------------------------------------------------
\* The state of the helper, its cache and its pipe has its types (_serve, _build_api_cache).
THEOREM ServeTypesCorrect == ServeSpec => []ServeTypeOK
BY ServeInvariant, PTL DEF ServeInv

\* Whatever is asked in whatever order, the models kept are those used last (api_for).
THEOREM KeepsTheLastUsed == ServeSpec => []LeastRecentlyUsed
BY ServeInvariant, PTL DEF ServeInv, CacheInv

\* However many models are asked for, those in memory are MAX_CACHED_APIS at most, with one
\* more while a miss evicts, and those whose End() raised (api_for).
THEOREM ModelsBounded == ServeSpec => []ModelsAreBounded
<1>1. ServeInv => ModelsAreBounded
  BY OcrHelperAssumption DEF ServeInv, ServeTypeOK, CacheInv, ModelsAreBounded
<1> QED
  BY <1>1, ServeInvariant, PTL

\* The model of the request in hand is there when it is used: eviction never takes it.
THEOREM AskedIsThere == ServeSpec => []AskedSurvivesEviction
BY ServeInvariant, PTL DEF ServeInv, CacheInv
=============================================================================
