---------------------- MODULE ProjectRunSafety_proofs ----------------------
(***************************************************************************)
(* The safety theorems about ProjectRun, on top of its type correctness.   *)
(***************************************************************************)
EXTENDS ProjectRun_proofs

UserStep == \E t \in Task : RetryTask(t) \/ Approve(t) \/ RejectRead(t) \/ RejectApply(t)

-----------------------------------------------------------------------------
(***************************************************************************)
(* What one step does to the tasks.                                        *)
(***************************************************************************)

\* The ways a task's status moves: along the state machine, into existence, or
\* by the claim of a candidate.
Moves(t) == /\ <<status[t], status'[t]>> \in Transitions
            /\ status'[t] # "IN_PROGRESS"
Appears(t) == status[t] = "ABSENT" /\ status'[t] = "DRAFT"
IsClaimed(t) == /\ status[t] = "READY" /\ status'[t] = "IN_PROGRESS"
                /\ t \in run.cand
StatusStep == \A t \in Task : status'[t] = status[t] \/ Moves(t) \/ Appears(t) \/ IsClaimed(t)

LEMMA TransitionMoves ==
  ASSUME status \in StatusType, NEW t, NEW to, to # "IN_PROGRESS", TransitionTask(t, to)
  PROVE  \A u \in Task : status'[u] = status[u] \/ Moves(u)
BY DEF TransitionTask, CanTransition, Moves, StatusType

LEMMA CreateAppears ==
  ASSUME status \in StatusType, NEW n, NEW d, CreateTask(n, d)
  PROVE  \A u \in Task : status'[u] = status[u] \/ Appears(u)
BY DEF CreateTask, Appears, StatusType

LEMMA StepStatus == ASSUME Shape, [Next]_vars PROVE StatusStep
<1>0. status \in StatusType
  BY DEF Shape, TypeOK, StatusType
<1>1. CASE UNCHANGED vars
  BY <1>1 DEF vars, StatusStep
<1>2. CASE RunStart \/ Top \/ ListReady \/ (\E s \in Slots : Dispatch(s)) \/ Drained \/ Return
           \/ ContinueAfterFailure \/ RunFails \/ BlockList \/ CheckComplete \/ FinalReview
           \/ CompleteProject \/ Crash
  BY <1>2 DEF RunStart, Top, ListReady, Dispatch, Drained, Return, ContinueAfterFailure,
     RunFails, BlockList, CheckComplete, FinalReview, CompleteProject, Crash, store, StatusStep
<1>3. CASE Claim
  BY <1>0, <1>3 DEF Claim, StatusStep, StatusType, IsClaimed
<1>4. CASE BlockOne \/ DeltaQueue
  BY <1>0, <1>4, TransitionMoves DEF BlockOne, DeltaQueue, StatusStep
<1>5. CASE DeltaCreate
  BY <1>0, <1>5, CreateAppears DEF DeltaCreate, StatusStep
<1>6. CASE UserStep
  BY <1>0, <1>6, TransitionMoves DEF UserStep, RetryTask, Approve, RejectRead, RejectApply,
     StatusStep, store
<1>8. CASE PlanStep
  <2>1. CASE PlanCreate
    BY <1>0, <2>1, CreateAppears DEF PlanCreate, StatusStep
  <2>2. CASE PlanQueue
    BY <1>0, <2>2, TransitionMoves DEF PlanQueue, StatusStep
  <2>3. CASE PlanDepend \/ PlanStops
    BY <2>3 DEF PlanDepend, PlanStops, store, StatusStep
  <2> QED BY <1>8, <2>1, <2>2, <2>3 DEF PlanStep
<1>7. ASSUME NEW s \in Slots, PipelineStep(s) PROVE StatusStep
  <2>1. CASE Execute(s) \/ StartTest(s) \/ Test(s) \/ Review(s)
    BY <1>0, <2>1, TransitionMoves DEF Execute, StartTest, Test, Review, StatusStep
  <2>2. CASE MarkFailed(s) \/ QueueFix(s) \/ ReplanQueue(s) \/ CreditDone(s) \/ SupersedeOne(s)
    BY <1>0, <2>2, TransitionMoves DEF MarkFailed, QueueFix, ReplanQueue,
       CreditDone, SupersedeOne, StatusStep
  <2>3. CASE CreateFix(s) \/ ReplanCreate(s)
    BY <1>0, <2>3, CreateAppears DEF CreateFix, ReplanCreate, StatusStep
  <2>4. CASE StageErrors(s) \/ ReadFailed(s) \/ FindRoot(s) \/ LinkFix(s) \/ ReplanStart(s)
             \/ Credit(s)
             \/ SupersedeList(s) \/ PipelineAborts(s)
    BY <2>4 DEF StageErrors, ReadFailed, FindRoot, LinkFix, ReplanStart, Credit, SupersedeList,
       PipelineAborts, store, StatusStep
  <2> QED BY <1>7, <2>1, <2>2, <2>3, <2>4 DEF PipelineStep
<1> QED
  BY <1>1, <1>2, <1>3, <1>4, <1>5, <1>6, <1>7, <1>8 DEF Next, RunLoop, UserStep

\* Only a plan adds dependencies, and only ListReady adds candidates.
LEMMA StepCandidates ==
  ASSUME Shape, [Next]_vars
  PROVE  /\ UNCHANGED <<deps, early>> \/ PlanDepend
         /\ \A t \in run'.cand : t \in run.cand \/ DepsDone(t)
<1>0. run \in RunType
  BY DEF Shape, TypeOK, RunType
<1>i. IdleRun.cand = {}
  BY DEF IdleRun
<1>1. CASE UNCHANGED vars
  BY <1>1 DEF vars
<1>2. CASE RunStart \/ Crash \/ UserStep
  BY <1>0, <1>2 DEF RunStart, Crash, UserStep, RetryTask, Approve, RejectRead, RejectApply,
     store, memory, beside, IdleRun
<1>3. CASE ListReady
  BY <1>0, <1>3 DEF ListReady, NothingToClaim, FirstOf, Claimable, RunType, store, beside
<1>4. CASE Top \/ Claim \/ (\E s \in Slots : Dispatch(s))
  BY <1>0, <1>4, <1>i DEF Top, Claim, NothingToClaim, Dispatch, RunType, store, beside
<1>5. CASE Drained \/ Return \/ ContinueAfterFailure \/ RunFails \/ BlockList \/ BlockOne
  BY <1>0, <1>5, <1>i DEF Drained, Return, ContinueAfterFailure, RunFails, BlockList, BlockOne,
     RunType, store, beside
<1>6. CASE CheckComplete \/ FinalReview \/ DeltaCreate \/ DeltaQueue \/ CompleteProject
  BY <1>0, <1>6, <1>i DEF CheckComplete, FinalReview, DeltaCreate, DeltaQueue, CompleteProject,
     RunType, store, beside
<1>7. ASSUME NEW s \in Slots, PipelineStep(s)
      PROVE  UNCHANGED <<deps, early>> /\ run'.cand = run.cand
  <2>1. ASSUME NEW ok \in BOOLEAN, PipelineEnds(s, ok) PROVE run'.cand = run.cand
    BY <1>0, <2>1 DEF PipelineEnds, RunType
  <2> QED
    BY <1>7, <2>1 DEF PipelineStep, Execute, StartTest, Test, Review, StageErrors, ReadFailed,
       FindRoot,
       MarkFailed, CreateFix, LinkFix, QueueFix, ReplanStart, ReplanCreate, ReplanQueue, Credit,
       CreditDone, SupersedeList, SupersedeOne, PipelineAborts, store, beside
<1>8. CASE PlanStep
  BY <1>8, PlanFrame DEF PlanStep, PlanCreate, PlanQueue, PlanStops, store
<1> QED
  BY <1>1, <1>2, <1>3, <1>4, <1>5, <1>6, <1>7, <1>8 DEF Next, RunLoop, UserStep

-----------------------------------------------------------------------------
(***************************************************************************)
(* Dependencies.                                                           *)
(***************************************************************************)

\* The candidates the scheduler read may since have moved on, but what they
\* depended on when it read them is DONE for good.
DepsInv == DepsRespected /\ \A t \in run.cand \ early : DepsDone(t)

LEMMA DepsStep == ASSUME Shape, DepsInv, [Next]_vars PROVE DepsInv'
<1>p. CASE PlanDepend
  <2>1. PICK t \in planning.made, d \in planning.made :
          /\ deps' = deps \cup {<<t, d>>}
          /\ early' = IF status[t] \in {"DRAFT", "BLOCKED"} /\ t \notin run.cand
                      THEN early ELSE early \cup {t}
    BY <1>p DEF PlanDepend
  <2>2. status' = status /\ run' = run /\ run.cand \subseteq Task
    BY <1>p, PlanFrame DEF PlanDepend, PlanStep, Shape, TypeOK
  <2>3. ASSUME NEW u \in Task \ early', status[u] \in WasClaimed \/ u \in run.cand
        PROVE  DepsDone(u)'
    <3>1. u # t /\ u \notin early
      BY <2>1, <2>3 DEF WasClaimed
    <3>2. DepsDone(u)
      BY <2>3, <3>1 DEF DepsInv, DepsRespected
    <3> QED BY <2>1, <2>2, <3>1, <3>2 DEF DepsDone
  <2> QED BY <2>2, <2>3 DEF DepsInv, DepsRespected
<1> SUFFICES ASSUME ~PlanDepend PROVE DepsInv'
  BY <1>p
<1>0. /\ StatusStep /\ deps' = deps /\ early' = early
      /\ \A t \in run'.cand : t \in run.cand \/ DepsDone(t)
  BY StepStatus, StepCandidates
<1>1. ASSUME NEW t \in Task, DepsDone(t) PROVE DepsDone(t)'
  <2> SUFFICES ASSUME NEW d \in Task, <<t, d>> \in deps PROVE status'[d] = "DONE"
    BY <1>0 DEF DepsDone
  <2>1. status[d] = "DONE"
    BY <1>1 DEF DepsDone
  <2> QED BY <1>0, <2>1 DEF StatusStep, Moves, Appears, IsClaimed, Transitions
<1>2. run' \in RunType /\ run \in RunType
  BY ShapeStep DEF Shape, TypeOK, RunType
<1>3. \A t \in run'.cand \ early' : DepsDone(t)'
  BY <1>0, <1>1, <1>2 DEF DepsInv, RunType
<1>4. ASSUME NEW t \in Task \ early', status'[t] \in WasClaimed PROVE DepsDone(t)'
  <2>1. status[t] \in WasClaimed \/ t \in run.cand
    BY <1>0, <1>4 DEF StatusStep, Moves, Appears, IsClaimed, Transitions, WasClaimed
  <2> QED BY <1>0, <2>1, <1>1 DEF DepsInv, DepsRespected
<1> QED BY <1>3, <1>4 DEF DepsInv, DepsRespected

\* A task that was ever claimed has all its dependencies DONE, whatever the
\* users, the repairs, a re-plan and the crashes did between the scheduler's
\* reads and the claim, and since - unless a retry made it READY before its own
\* plan had stored them (ready.go:83-126, sqlite_tasks.go:379-425,
\* service_planning.go:69-117).
THEOREM DependenciesRespected == Spec => []DepsRespected
<1>1. Init => Shape /\ DepsInv
  BY InitShape DEF Init, DepsInv, DepsRespected, WasClaimed, IdleRun
<1>2. Shape /\ DepsInv /\ [Next]_vars => Shape' /\ DepsInv'
  BY DepsStep, ShapeStep
<1>3. DepsInv => DepsRespected
  BY DEF DepsInv
<1> QED BY <1>1, <1>2, <1>3, PTL DEF Spec

-----------------------------------------------------------------------------
(***************************************************************************)
(* The loop and its goroutines.                                            *)
(***************************************************************************)

AtMostOne(S) == \A x, y \in S : x = y

\* With one goroutine the loop waits for it; with several it ends, and asks
\* again what is ready, only when all have ended.
Control ==
  /\ run.pc \in {"idle", "relist", "reclaim"} \cup FinalPC => AllFree
  /\ ~Parallel /\ run.pc # "wait" => AllFree
  /\ Parallel => run.pc \notin {"failed", "wait"}
  /\ handoff # {} => run.pc = "dispatch"
  /\ ~Parallel => AtMostOne(run.cand) /\ AtMostOne(handoff)

LEMMA OneSlot == ASSUME ~Parallel PROVE AtMostOne(Slots) /\ Parallelism = 1
<1>1. Parallelism \in Nat /\ Parallelism # 0
  BY SlotsAssumption, FS_CardinalityType, FS_EmptySet DEF Parallelism
<1>2. Parallelism = 1
  BY <1>1 DEF Parallel
<1>3. PICK s : Slots = {s}
  BY <1>2, SlotsAssumption, FS_Singleton DEF Parallelism
<1> QED BY <1>2, <1>3 DEF AtMostOne

LEMMA FirstIsOne == ASSUME ~Parallel PROVE AtMostOne(FirstOf(Claimable, Parallelism))
<1>1. Parallelism = 1
  BY OneSlot
<1>2. SUFFICES ASSUME NEW x \in FirstOf(Claimable, 1), NEW y \in FirstOf(Claimable, 1), x < y
               PROVE  FALSE
  BY <1>1, MaxTasksAssumption DEF AtMostOne, FirstOf, Claimable, Task
<1> DEFINE before == {u \in Claimable : u < y}
<1>3. IsFiniteSet(before)
  <2>1. IsFiniteSet(Task)
    BY MaxTasksAssumption, FS_Interval DEF Task
  <2>2. before \subseteq Task
    BY DEF Claimable
  <2> HIDE DEF before
  <2> QED BY <2>1, <2>2, FS_Subset
<1>4. Cardinality(before) < 1
  BY <1>2 DEF FirstOf
<1>5. before = {}
  <2> HIDE DEF before
  <2>1. Cardinality(before) = 0
    BY <1>3, <1>4, FS_CardinalityType
  <2> QED BY <1>3, <2>1, FS_EmptySet
<1>6. x \in before
  BY <1>2 DEF FirstOf
<1> QED BY <1>5, <1>6

\* A goroutine that takes a step is busy, and stays so unless it ends.
LEMMA PipelineRuns ==
  ASSUME Shape, NEW s \in Slots, PipelineStep(s)
  PROVE  /\ Busy(s) /\ UNCHANGED <<handoff, project>>
         /\ \/ run' = run
            \/ \E ok \in BOOLEAN : PipelineEnds(s, ok)
BY DEF Busy, At, PipelineStep, Execute, StartTest, Test, Review, StageErrors, ReadFailed,
   FindRoot,
   MarkFailed, CreateFix, LinkFix, QueueFix, ReplanStart, ReplanCreate, ReplanQueue, Credit,
   CreditDone, SupersedeList, SupersedeOne, PipelineAborts, store

LEMMA ControlPipeline ==
  ASSUME Shape, Control, NEW s \in Slots, PipelineStep(s)
  PROVE  Control'
<1>0. PipeOK /\ run \in RunType
  BY DEF Shape, TypeOK, PipeOK, SlotType, RunType
<1>1. Busy(s) /\ UNCHANGED <<handoff, project>>
  BY PipelineRuns
<1>2. run.pc \notin {"idle", "relist", "reclaim"} \cup FinalPC /\ (~Parallel => run.pc = "wait")
  BY <1>1 DEF Control, AllFree
<1>3. CASE run' = run
  BY <1>1, <1>2, <1>3 DEF Control
<1>4. ASSUME NEW ok \in BOOLEAN, PipelineEnds(s, ok) PROVE Control'
  <2>1. CASE Parallel
    <3>1. run'.pc = run.pc
      BY <1>0, <1>4, <2>1 DEF PipelineEnds, RunType
    <3> QED BY <1>1, <1>2, <2>1, <3>1 DEF Control
  <2>2. CASE ~Parallel
    <3>1. run'.pc \in {"top", "failed"} /\ run'.cand = run.cand
      BY <1>0, <1>4, <2>2 DEF PipelineEnds, RunType
    <3>2. pipe'[s].pc = "free"
      BY <1>0, <1>4 DEF PipelineEnds, PipeOK, FreeSlot
    <3>3. AllFree'
      BY <2>2, <3>2, OneSlot DEF AllFree, Busy, AtMostOne
    <3>4. handoff' = {}
      BY <1>1, <1>2, <2>2 DEF Control
    <3> QED BY <2>2, <3>1, <3>3, <3>4 DEF Control, FinalPC, AtMostOne
  <2> QED BY <2>1, <2>2
<1> QED BY <1>3, <1>4, PipelineRuns

LEMMA ControlLoop == ASSUME Shape, Control, RunStart \/ RunLoop PROVE Control'
<1>0. PipeOK /\ run \in RunType
  BY DEF Shape, TypeOK, PipeOK, SlotType, RunType
<1>i. IdleRun.pc = "idle" /\ IdleRun.cand = {}
  BY DEF IdleRun
<1>1. CASE RunStart \/ Top
  <2>1. /\ UNCHANGED <<handoff, pipe>> /\ handoff = {}
        /\ run'.pc \in {"top", "list", "over_limit", "idle"} /\ run'.cand \in {run.cand, {}}
        /\ run'.pc = "idle" => ~Parallel
        /\ ~Parallel => AllFree
    <3>1. UNCHANGED <<handoff, pipe>> /\ run.pc \in {"idle", "top"}
      BY <1>1 DEF RunStart, Top
    <3>2. handoff = {} /\ (~Parallel => AllFree)
      BY <3>1 DEF Control
    <3>3. CASE RunStart
      BY <3>1, <3>2, <3>3 DEF RunStart, IdleRun
    <3>4. CASE Top
      BY <1>0, <1>i, <3>1, <3>2, <3>4 DEF Top, RunType
    <3> QED BY <1>1, <3>3, <3>4
  <2> QED BY <2>1 DEF Control, FinalPC, AllFree, Busy, AtMostOne
<1>2. CASE ListReady
  <2>1. UNCHANGED <<handoff, pipe>> /\ handoff = {}
    BY <1>2 DEF ListReady, Control
  <2>2. ~Parallel \/ run.pc = "relist" => AllFree
    BY <1>2 DEF ListReady, Control
  <2>3. /\ run'.pc \in {"drain", "block", "claim", "reclaim"}
        /\ run'.pc \in {"block", "reclaim"} => ~Parallel \/ run.pc = "relist"
    BY <1>0, <1>2 DEF ListReady, NothingToClaim, FirstAttempt, RunType
  <2>4. ~Parallel => AtMostOne(run'.cand)
    <3>1. run'.cand \in {{}, FirstOf(Claimable, Parallelism)}
      BY <1>0, <1>2 DEF ListReady, NothingToClaim, RunType
    <3> QED BY <3>1, FirstIsOne DEF AtMostOne
  <2>5. ~Parallel => AtMostOne(handoff')
    BY <2>1 DEF AtMostOne
  <2>6. AllFree' <=> AllFree
    BY <2>1 DEF AllFree, Busy
  <2> QED BY <2>1, <2>2, <2>3, <2>4, <2>5, <2>6 DEF Control, FinalPC
<1>3. CASE Claim
  <2>1. pipe' = pipe /\ handoff = {} /\ handoff' \subseteq run.cand
    BY <1>3 DEF Claim, Control
  <2>2. ~Parallel \/ run.pc = "reclaim" => AllFree
    BY <1>3 DEF Claim, Control
  <2>3. /\ run'.pc \in {"drain", "block", "dispatch"} /\ run'.cand = {}
        /\ run'.pc = "block" => ~Parallel \/ run.pc = "reclaim"
        /\ handoff' # {} => run'.pc = "dispatch"
    BY <1>0, <1>3 DEF Claim, NothingToClaim, FirstAttempt, RunType
  <2>4. ~Parallel => AtMostOne(run.cand)
    BY DEF Control
  <2>5. ~Parallel => AtMostOne(handoff') /\ AtMostOne(run'.cand)
    BY <2>1, <2>3, <2>4 DEF AtMostOne
  <2>6. AllFree' <=> AllFree
    BY <2>1 DEF AllFree, Busy
  <2> QED BY <2>1, <2>2, <2>3, <2>5, <2>6 DEF Control, FinalPC
<1>4. CASE \E s \in Slots : Dispatch(s)
  <2> PICK s \in Slots : Dispatch(s)
    BY <1>4
  <2> PICK t \in handoff :
        /\ handoff' = handoff \ {t}
        /\ \/ ~Parallel /\ run' = [run EXCEPT !.pc = "wait"]
           \/ Parallel /\ handoff = {t} /\ run' = [run EXCEPT !.iter = @ + 1, !.pc = "top"]
           \/ Parallel /\ handoff # {t} /\ run' = [run EXCEPT !.iter = @ + 1]
    BY DEF Dispatch
  <2>1. run.pc = "dispatch"
    BY DEF Dispatch
  <2>2. CASE ~Parallel
    <3>1. run'.pc = "wait" /\ run'.cand = run.cand
      BY <1>0, <2>2 DEF RunType
    <3>2. handoff' = {}
      BY <2>2 DEF Control, AtMostOne
    <3> QED BY <2>2, <3>1, <3>2 DEF Control, FinalPC, AtMostOne
  <2>3. CASE Parallel
    <3>1. run'.pc \in {"top", "dispatch"} /\ (handoff' # {} => run'.pc = "dispatch")
      BY <1>0, <2>1, <2>3 DEF RunType
    <3> QED BY <2>3, <3>1 DEF Control, FinalPC
  <2> QED BY <2>2, <2>3
<1>5. CASE Drained \/ Return
  <2>1. AllFree /\ UNCHANGED <<handoff, pipe>> /\ handoff = {}
    BY <1>5 DEF Drained, Return, Control
  <2>2. run'.pc \in {"relist", "idle"} /\ run'.cand \in {run.cand, {}}
    BY <1>0, <1>5, <1>i DEF Drained, Return, RunType
  <2> QED BY <2>1, <2>2 DEF Control, FinalPC, AllFree, Busy, AtMostOne
<1>6. CASE ContinueAfterFailure
  <2>1. ~Parallel /\ AllFree /\ UNCHANGED <<handoff, pipe>> /\ handoff = {}
    BY <1>6 DEF ContinueAfterFailure, Control
  <2>2. run'.pc \in {"top", "idle"} /\ run'.cand \in {run.cand, {}}
    BY <1>0, <1>6, <1>i DEF ContinueAfterFailure, RunType
  <2> QED BY <2>1, <2>2 DEF Control, FinalPC, AllFree, Busy, AtMostOne
<1>7. CASE RunFails
  <2>1. UNCHANGED <<handoff, pipe>> /\ handoff = {}
    BY <1>7 DEF RunFails, FirstAttempt, Control, FinalPC
  <2>2. /\ run'.pc \in {"stop", "failed", "idle"} /\ run'.cand = {}
        /\ run'.pc = "failed" => ~Parallel
        /\ run'.pc = "stop" => Parallel
        /\ run'.pc = "idle" => run.pc \in {"relist", "reclaim", "failed"} \cup FinalPC
    BY <1>0, <1>7, <1>i DEF RunFails, RunType
  <2>3. run'.pc # "stop" => AllFree
    BY <1>7, <2>2 DEF Control, RunFails, FirstAttempt
  <2>4. AllFree' <=> AllFree
    BY <2>1 DEF AllFree, Busy
  <2> QED BY <2>1, <2>2, <2>3, <2>4 DEF Control, FinalPC, AtMostOne
<1>8. CASE BlockList \/ BlockOne \/ CheckComplete \/ FinalReview \/ DeltaCreate \/ DeltaQueue
           \/ CompleteProject
  <2>1. run.pc \in FinalPC /\ UNCHANGED <<handoff, pipe>>
    BY <1>8 DEF BlockList, BlockOne, CheckComplete, FinalReview, DeltaCreate, DeltaQueue,
       CompleteProject, FinalPC
  <2>2. AllFree /\ handoff = {}
    BY <2>1 DEF Control, FinalPC
  <2>3. run'.pc \in {"top", "idle"} \cup FinalPC /\ run'.cand \in {run.cand, {}}
    <3>1. CASE BlockList \/ BlockOne \/ CheckComplete
      BY <1>0, <1>i, <3>1 DEF BlockList, BlockOne, CheckComplete, RunType, FinalPC
    <3>2. CASE FinalReview \/ DeltaCreate \/ DeltaQueue \/ CompleteProject
      BY <1>0, <1>i, <3>2 DEF FinalReview, DeltaCreate, DeltaQueue, CompleteProject, RunType,
         FinalPC
    <3> QED BY <1>8, <3>1, <3>2
  <2> QED BY <2>1, <2>2, <2>3 DEF Control, FinalPC, AllFree, Busy, AtMostOne
<1> QED
  BY <1>1, <1>2, <1>3, <1>4, <1>5, <1>6, <1>7, <1>8 DEF RunLoop

LEMMA ControlStep == ASSUME Shape, Control, [Next]_vars PROVE Control'
<1>1. CASE UNCHANGED vars \/ UserStep \/ PlanStep
  <2>1. UNCHANGED <<run, handoff, pipe>>
    BY <1>1, PlanFrame DEF vars, UserStep, RetryTask, Approve, RejectRead, RejectApply, memory
  <2> QED BY <2>1 DEF Control, AllFree, Busy, AtMostOne
<1>2. CASE Crash
  BY <1>2 DEF Crash, Control, AllFree, Busy, AtMostOne, FreeSlot, IdleRun, FinalPC
<1> QED BY <1>1, <1>2, ControlLoop, ControlPipeline DEF Next, UserStep

\* RunProjectTasks returns, on every path, only when its goroutines have ended:
\* the queue may then start the next run of the project (service_run.go:493-551).
THEOREM RunEndsLast == Spec => []NoPipelineOutlivesRun
<1>1. Init => Shape /\ Control
  <2>1. Init => Control
    BY DEF Init, Control, IdleRun, AllFree, Busy, FreeSlot, AtMostOne, FinalPC
  <2> QED BY <2>1, InitShape
<1>2. Control => NoPipelineOutlivesRun
  BY DEF Control, NoPipelineOutlivesRun
<1> QED BY <1>1, <1>2, ShapeStep, ControlStep, PTL DEF Spec

-----------------------------------------------------------------------------
(***************************************************************************)
(* The limits of the parallel loop.                                        *)
(***************************************************************************)

\* ClaimNextReadyTasks returns no more tasks than it is asked for: no two tasks
\* have as many others before them.
LEMMA FirstAtMost ==
  ASSUME NEW S \in SUBSET Task, NEW n \in Nat
  PROVE  Cardinality(FirstOf(S, n)) <= n
<1> DEFINE F == FirstOf(S, n)
           before(t) == {u \in S : u < t}
           place == [t \in F |-> Cardinality(before(t))]
<1>1. IsFiniteSet(Task)
  BY MaxTasksAssumption, FS_Interval DEF Task
<1>2. F \subseteq S /\ S \subseteq Nat /\ \A t \in F : Cardinality(before(t)) < n
  BY MaxTasksAssumption DEF FirstOf, Task
<1>3. ASSUME NEW t \in F PROVE IsFiniteSet(before(t)) /\ Cardinality(before(t)) \in Nat
  <2>1. before(t) \subseteq Task
    OBVIOUS
  <2> HIDE DEF before
  <2> QED BY <1>1, <2>1, FS_Subset, FS_CardinalityType
<1>4. ASSUME NEW t \in F, NEW u \in F, t < u PROVE Cardinality(before(t)) < Cardinality(before(u))
  <2>0. t \in S /\ t \in Nat /\ u \in Nat /\ S \subseteq Nat
    BY <1>2
  <2> HIDE DEF F
  <2>1. before(t) \subseteq before(u) /\ t \in before(u) /\ t \notin before(t)
    <3>1. t < u
      BY <1>4
    <3>2. ~ (t < t) /\ \A x \in S : x < t => x < u
      BY ONLY <2>0, <3>1
    <3> QED BY <2>0, <3>1, <3>2
  <2> HIDE DEF before
  <2>2. Cardinality(before(t)) <= Cardinality(before(u)) /\ Cardinality(before(t)) # Cardinality(before(u))
    BY <1>3, <2>1, FS_Subset
  <2> QED BY <1>3, <2>2
<1> HIDE DEF before, F
<1>5. \A t, u \in F : t # u => place[t] # place[u]
  <2> SUFFICES ASSUME NEW t \in F, NEW u \in F, t < u PROVE place[t] # place[u]
    BY <1>2
  <2> QED BY <1>3, <1>4
<1>6. place \in Injection(F, 0 .. n - 1)
  BY <1>2, <1>3, <1>5 DEF Injection, IsInjective
<1>7. IsFiniteSet(0 .. n - 1) /\ Cardinality(0 .. n - 1) <= n
  <2>1. 0 \in Int /\ n - 1 \in Int
    OBVIOUS
  <2>2. /\ IsFiniteSet(0 .. n - 1)
        /\ Cardinality(0 .. n - 1) = IF 0 > n - 1 THEN 0 ELSE n - 1 - 0 + 1
    BY ONLY <2>1, FS_Interval
  <2> QED BY <2>2
<1>8. IsFiniteSet(F) /\ Cardinality(F) <= Cardinality(0 .. n - 1)
  BY ONLY <1>6, <1>7, FS_Injection
<1>9. Cardinality(F) \in Nat /\ Cardinality(0 .. n - 1) \in Nat
  BY <1>7, <1>8, FS_CardinalityType
<1> QED BY <1>7, <1>8, <1>9 DEF F

BusySlots == {s \in Slots : Busy(s)}

\* From the check of the two limits to the claim that follows it.
Claiming == {"list", "claim", "drain", "relist", "reclaim"}

\* Every task dispatched is running or counted; what a claim returned and is
\* still to be dispatched is part of the overshoot.
Counting ==
  Parallel =>
    /\ run.iter = run.ran + Cardinality(BusySlots)
    /\ Cardinality(run.cand) <= Parallelism
    /\ run.iter + Cardinality(handoff) <= 2 * RunLimit - 1 + Parallelism
    /\ run.iter + Cardinality(handoff) <= RunLimit - 1 + 2 * Parallelism
    /\ run.pc \in Claiming => run.iter <= 2 * RunLimit - 1 /\ run.iter <= RunLimit - 1 + Parallelism
    /\ run.pc = "over_limit" => run.iter >= RunLimit

\* The sequential loop ends without the task limit's error.
LimitIsParallel == run.pc = "over_limit" => Parallel

LEMMA FiniteParts ==
  ASSUME Shape
  PROVE  /\ IsFiniteSet(Slots) /\ Parallelism \in Nat /\ RunLimit \in Nat /\ RunLimit # 0
         /\ IsFiniteSet(BusySlots) /\ Cardinality(BusySlots) \in Nat /\ Cardinality(BusySlots) <= Parallelism
         /\ IsFiniteSet(run.cand) /\ Cardinality(run.cand) \in Nat
         /\ IsFiniteSet(handoff) /\ Cardinality(handoff) \in Nat
<1>1. IsFiniteSet(Slots) /\ Parallelism \in Nat /\ RunLimit \in Nat /\ RunLimit # 0
  BY SlotsAssumption, RunLimitAssumption, FS_CardinalityType DEF Parallelism
<1>2. BusySlots \subseteq Slots
  BY DEF BusySlots
<1>3. IsFiniteSet(BusySlots) /\ Cardinality(BusySlots) \in Nat /\ Cardinality(BusySlots) <= Parallelism
  BY <1>1, <1>2, FS_Subset, FS_CardinalityType DEF Parallelism
<1>4. IsFiniteSet(Task) /\ run.cand \subseteq Task /\ handoff \subseteq Task
  <2>1. IsFiniteSet(Task)
    BY MaxTasksAssumption, FS_Interval DEF Task
  <2> QED BY <2>1 DEF Shape, TypeOK
<1> QED
  BY <1>1, <1>3, <1>4, FS_Subset, FS_CardinalityType

\* Busy goroutines: one more after a dispatch, one less when one ends.
LEMMA BusyKept == ASSUME UNCHANGED pipe PROVE BusySlots' = BusySlots
BY DEF BusySlots, Busy

LEMMA NoneBusy == ASSUME AllFree PROVE BusySlots = {} /\ Cardinality(BusySlots) = 0
BY FS_EmptySet DEF AllFree, BusySlots

LEMMA BusyAfterStep ==
  ASSUME Shape, NEW s \in Slots, PipelineStep(s)
  PROVE  (run' = run /\ BusySlots' = BusySlots) \/ \E ok \in BOOLEAN : PipelineEnds(s, ok)
<1>0. pipe \in [Slots -> SlotType]
  BY DEF Shape, TypeOK, SlotType
<1>1. Busy(s) /\ \A r \in Slots : r # s => pipe'[r] = pipe[r]
  BY PipelineRuns, OtherSlots DEF Shape, TypeOK, PipeOK, SlotType
<1>2. ASSUME run' = run, pipe'[s].pc # "free" PROVE BusySlots' = BusySlots
  BY <1>1, <1>2 DEF BusySlots, Busy
<1>3. \/ run' = run /\ pipe'[s].pc # "free"
      \/ \E ok \in BOOLEAN : PipelineEnds(s, ok)
  <2>1. CASE Execute(s) \/ StartTest(s) \/ Test(s) \/ Review(s) \/ StageErrors(s)
    BY <1>0, <2>1 DEF Execute, StartTest, Test, Review, StageErrors, Goto, GotoRepair, SlotType
  <2>2. CASE ReadFailed(s) \/ FindRoot(s) \/ MarkFailed(s) \/ CreateFix(s) \/ LinkFix(s)
    BY <1>0, <1>1, <2>2 DEF ReadFailed, FindRoot, MarkFailed, CreateFix, LinkFix, Goto, SlotType, Busy
  <2>3. CASE QueueFix(s) \/ ReplanStart(s) \/ ReplanCreate(s) \/ ReplanQueue(s)
    BY <1>0, <2>3 DEF QueueFix, ReplanStart, ReplanCreate, ReplanQueue, Goto, SlotType
  <2>4. CASE Credit(s) \/ CreditDone(s) \/ SupersedeList(s) \/ SupersedeOne(s) \/ PipelineAborts(s)
    BY <1>0, <1>1, <2>4 DEF Credit, CreditDone, SupersedeList, SupersedeOne, PipelineAborts, Goto, SlotType,
       Busy, At
  <2> QED BY <2>1, <2>2, <2>3, <2>4 DEF PipelineStep
<1> QED BY <1>2, <1>3

\* A step that neither dispatches nor ends a task, and starts no new round.
LEMMA CountingKept ==
  ASSUME Counting, UNCHANGED <<handoff, pipe>>,
         run'.iter = run.iter, run'.ran = run.ran, Parallel => Cardinality(run'.cand) <= Parallelism,
         run'.pc \in Claiming => run.pc \in Claiming,
         run'.pc = "over_limit" => run.pc = "over_limit"
  PROVE  Counting'
BY BusyKept DEF Counting, Parallelism, Parallel

\* The loop returns: nothing is running, and nothing was dispatched yet.
LEMMA CountingReset ==
  ASSUME Shape, Counting, UNCHANGED <<handoff, pipe>>, AllFree, run'.iter = 0, run'.ran = 0, run'.cand = {},
         run'.pc \in {"idle", "top"}
  PROVE  Counting'
<1>1. BusySlots' = BusySlots /\ Cardinality(BusySlots) = 0 /\ Cardinality({}) = 0
  BY BusyKept, NoneBusy, FS_EmptySet
<1>2. /\ Parallelism \in Nat /\ RunLimit \in Nat /\ RunLimit # 0 /\ Cardinality(handoff) \in Nat
      /\ run.iter \in Nat
  BY FiniteParts DEF Shape, TypeOK
<1> QED BY <1>1, <1>2 DEF Counting, Parallelism, Parallel, Claiming

LEMMA CountingLoop == ASSUME Shape, Control, Counting, RunStart \/ RunLoop PROVE Counting'
<1>0. run \in RunType /\ run.iter \in Nat /\ run.ran \in Nat
  BY DEF Shape, TypeOK, RunType
<1>i. IdleRun.pc = "idle" /\ IdleRun.cand = {} /\ IdleRun.iter = 0 /\ IdleRun.ran = 0 /\ IdleRun \in RunType
  BY IdleRunOK DEF IdleRun
<1>f. /\ IsFiniteSet(Slots) /\ Parallelism \in Nat /\ RunLimit \in Nat /\ RunLimit # 0
      /\ IsFiniteSet(BusySlots) /\ Cardinality(BusySlots) \in Nat /\ Cardinality(BusySlots) <= Parallelism
      /\ IsFiniteSet(run.cand) /\ Cardinality(run.cand) \in Nat
      /\ IsFiniteSet(handoff) /\ Cardinality(handoff) \in Nat
  BY FiniteParts
<1>e. Cardinality({}) = 0
  BY FS_EmptySet
<1>p. SUFFICES ASSUME Parallel PROVE Counting'
  BY DEF Counting, Parallel, Parallelism
<1>c. /\ run.iter = run.ran + Cardinality(BusySlots)
      /\ Cardinality(run.cand) <= Parallelism
      /\ run.iter + Cardinality(handoff) <= 2 * RunLimit - 1 + Parallelism
      /\ run.iter + Cardinality(handoff) <= RunLimit - 1 + 2 * Parallelism
      /\ run.pc \in Claiming => run.iter <= 2 * RunLimit - 1 /\ run.iter <= RunLimit - 1 + Parallelism
      /\ run.pc = "over_limit" => run.iter >= RunLimit
  BY <1>p DEF Counting
<1>1. CASE RunStart
  <2>1. /\ AllFree /\ UNCHANGED <<handoff, pipe>> /\ run'.iter = 0 /\ run'.ran = 0 /\ run'.cand = {}
        /\ run'.pc = "top"
    BY <1>1, <1>i DEF RunStart, Control, RunType
  <2> QED BY <2>1, CountingReset
<1>2. CASE Top
  <2>1. /\ UNCHANGED <<handoff, pipe>> /\ run'.iter = run.iter /\ run'.ran = run.ran /\ run'.cand = run.cand
        /\ \/ run'.pc = "list" /\ run.iter < 2 * RunLimit /\ run.ran < RunLimit
           \/ run'.pc = "over_limit" /\ (run.iter >= 2 * RunLimit \/ run.ran >= RunLimit)
    BY <1>0, <1>2, <1>p DEF Top, RunType
  <2>2. BusySlots' = BusySlots
    BY <2>1, BusyKept
  <2> QED BY <1>0, <1>c, <1>f, <2>1, <2>2 DEF Counting, Parallelism, Parallel, Claiming
<1>3. CASE ListReady
  <2>1. /\ UNCHANGED <<handoff, pipe>> /\ run'.iter = run.iter /\ run'.ran = run.ran
        /\ run'.pc \in {"drain", "block", "claim", "reclaim"} /\ run.pc \in Claiming
        /\ run'.cand \in {{}, FirstOf(Claimable, Parallelism)}
    BY <1>0, <1>3 DEF ListReady, NothingToClaim, FirstAttempt, RunType, Claiming
  <2>2. Cardinality(FirstOf(Claimable, Parallelism)) <= Parallelism
    BY <1>f, FirstAtMost DEF Claimable
  <2>3. Cardinality(run'.cand) <= Parallelism
    BY <1>e, <1>f, <2>1, <2>2
  <2> QED BY <2>1, <2>3, CountingKept
<1>4. CASE Claim
  <2>1. /\ pipe' = pipe /\ run.pc \in Claiming /\ handoff' \subseteq run.cand
        /\ run'.pc \in {"drain", "block", "dispatch"} /\ run'.cand = {}
        /\ run'.iter = run.iter /\ run'.ran = run.ran
    BY <1>0, <1>4 DEF Claim, NothingToClaim, FirstAttempt, RunType, Claiming
  <2>2. Cardinality(handoff') <= Parallelism /\ Cardinality(handoff') \in Nat
    BY <1>c, <1>f, <2>1, FS_Subset, FS_CardinalityType
  <2>3. BusySlots' = BusySlots
    BY <2>1, BusyKept
  <2> QED BY <1>0, <1>c, <1>e, <1>f, <2>1, <2>2, <2>3 DEF Counting, Parallelism, Parallel, Claiming
<1>5. ASSUME NEW s \in Slots, Dispatch(s) PROVE Counting'
  <2>1. PICK t \in handoff : handoff' = handoff \ {t} /\ pipe' = [pipe EXCEPT ![s] = Pipeline(t)]
    BY <1>5 DEF Dispatch
  <2>2. /\ run.pc = "dispatch" /\ ~ Busy(s)
        /\ run'.iter = run.iter + 1 /\ run'.ran = run.ran /\ run'.cand = run.cand
        /\ run'.pc \in {"dispatch", "top"}
    BY <1>0, <1>5, <1>p DEF Dispatch, RunType
  <2>3. Cardinality(handoff') = Cardinality(handoff) - 1
    BY <1>f, <2>1, FS_RemoveElement
  <2>4. BusySlots' = BusySlots \cup {s}
    <3>1. pipe \in [Slots -> SlotType] /\ Pipeline(t).pc = "execute"
      BY DEF Shape, TypeOK, SlotType, Pipeline, FreeSlot
    <3> QED BY <2>1, <3>1 DEF BusySlots, Busy
  <2>5. s \notin BusySlots
    BY <2>2 DEF BusySlots
  <2>6. Cardinality(BusySlots') = Cardinality(BusySlots) + 1
    BY <1>f, <2>4, <2>5, FS_AddElement
  <2> QED BY <1>0, <1>c, <1>f, <2>2, <2>3, <2>6 DEF Counting, Parallelism, Parallel, Claiming
<1>6. CASE Drained
  <2>1. /\ UNCHANGED <<handoff, pipe>> /\ run'.iter = run.iter /\ run'.ran = run.ran /\ run'.cand = run.cand
        /\ run'.pc = "relist" /\ run.pc \in Claiming
    BY <1>0, <1>6 DEF Drained, RunType, Claiming
  <2> QED BY <1>c, <2>1, CountingKept
<1>7. CASE Return \/ ContinueAfterFailure \/ RunFails
  <2>1. UNCHANGED <<handoff, pipe>>
    BY <1>7 DEF Return, ContinueAfterFailure, RunFails
  <2>2. CASE run' = IdleRun
    <3>1. AllFree
      BY <1>7, <1>p, <2>2, <1>i DEF Return, ContinueAfterFailure, RunFails, Control, RunType, FirstAttempt
    <3> QED BY <1>i, <2>1, <2>2, <3>1, CountingReset
  <2>3. CASE run' # IdleRun
    <3>1. /\ run'.iter = run.iter /\ run'.ran = run.ran /\ run'.cand = {} /\ run'.pc = "stop"
      BY <1>0, <1>7, <1>p, <2>3 DEF Return, ContinueAfterFailure, RunFails, Control, RunType
    <3> QED BY <1>e, <1>f, <2>1, <3>1, CountingKept DEF Claiming
  <2> QED BY <2>2, <2>3
<1>8. CASE BlockList \/ BlockOne \/ CheckComplete \/ FinalReview \/ DeltaCreate \/ DeltaQueue
           \/ CompleteProject
  <2>1. run.pc \in FinalPC /\ UNCHANGED <<handoff, pipe>>
    BY <1>8 DEF BlockList, BlockOne, CheckComplete, FinalReview, DeltaCreate, DeltaQueue,
       CompleteProject, FinalPC
  <2>2. AllFree
    BY <2>1 DEF Control, FinalPC
  <2>3. \/ run' = IdleRun
        \/ /\ run'.iter = run.iter /\ run'.ran = run.ran /\ run'.cand = run.cand
           /\ run'.pc \in {"top"} \cup FinalPC
    <3>1. CASE BlockList \/ BlockOne \/ CheckComplete
      BY <1>0, <3>1 DEF BlockList, BlockOne, CheckComplete, RunType, FinalPC
    <3>2. CASE FinalReview \/ DeltaCreate \/ DeltaQueue \/ CompleteProject
      BY <1>0, <3>2 DEF FinalReview, DeltaCreate, DeltaQueue, CompleteProject, RunType, FinalPC
    <3> QED BY <1>8, <3>1, <3>2
  <2>4. CASE run' = IdleRun
    BY <1>i, <2>1, <2>2, <2>4, CountingReset
  <2>5. CASE run' # IdleRun
    <3>1. /\ run'.iter = run.iter /\ run'.ran = run.ran /\ run'.cand = run.cand
          /\ run'.pc \notin Claiming /\ run'.pc # "over_limit"
      BY <2>3, <2>5 DEF FinalPC, Claiming
    <3> QED BY <1>c, <2>1, <3>1, CountingKept
  <2> QED BY <2>4, <2>5
<1> QED
  BY <1>1, <1>2, <1>3, <1>4, <1>5, <1>6, <1>7, <1>8 DEF RunLoop

LEMMA CountingStep == ASSUME Shape, Control, Counting, [Next]_vars PROVE Counting'
<1>1. CASE UNCHANGED vars \/ UserStep \/ PlanStep
  <2>1. UNCHANGED <<run, handoff, pipe>>
    BY <1>1, PlanFrame DEF vars, UserStep, RetryTask, Approve, RejectRead, RejectApply, memory
  <2> QED BY <2>1, BusyKept DEF Counting, Parallelism, Parallel
<1>2. CASE Crash
  <2>1. run' = IdleRun /\ handoff' = {} /\ AllFree'
    BY <1>2 DEF Crash, AllFree, Busy, FreeSlot
  <2>2. run'.iter = 0 /\ run'.ran = 0 /\ run'.cand = {} /\ run'.pc = "idle"
    BY <2>1 DEF IdleRun
  <2>3. BusySlots' = {}
    BY <2>1 DEF BusySlots, AllFree
  <2>4. Cardinality({}) = 0 /\ Parallelism \in Nat /\ RunLimit \in Nat /\ RunLimit # 0
    BY FiniteParts, FS_EmptySet
  <2> QED BY <2>1, <2>2, <2>3, <2>4 DEF Counting, Parallelism, Parallel, Claiming
<1>3. ASSUME NEW s \in Slots, PipelineStep(s) PROVE Counting'
  <2>0. run \in RunType /\ run.iter \in Nat /\ run.ran \in Nat
    BY DEF Shape, TypeOK, RunType
  <2>1. Busy(s) /\ UNCHANGED handoff
    BY <1>3, PipelineRuns
  <2>2. CASE run' = run /\ BusySlots' = BusySlots
    BY <2>1, <2>2 DEF Counting, Parallelism, Parallel
  <2>3. ASSUME NEW ok \in BOOLEAN, PipelineEnds(s, ok), Parallel PROVE Counting'
    <3>1. run'.ran = run.ran + 1 /\ run'.iter = run.iter /\ run'.cand = run.cand /\ run'.pc = run.pc
      BY <2>0, <2>3 DEF PipelineEnds, RunType
    <3>2. BusySlots' = BusySlots \ {s}
      BY <2>3 DEF PipelineEnds, BusySlots, Busy, FreeSlot, Shape, TypeOK
    <3>3. Cardinality(BusySlots') = Cardinality(BusySlots) - 1 /\ Cardinality(BusySlots) \in Nat
      <4>1. s \in BusySlots
        BY <2>1 DEF BusySlots
      <4> QED BY <3>2, <4>1, FiniteParts, FS_RemoveElement
    <3> QED BY <2>0, <2>1, <3>1, <3>3 DEF Counting, Parallelism, Parallel
  <2>4. CASE ~ Parallel
    BY <2>4 DEF Counting, Parallelism, Parallel
  <2> QED BY <1>3, <2>2, <2>3, <2>4, BusyAfterStep
<1> QED BY <1>1, <1>2, <1>3, CountingLoop DEF Next, UserStep

LEMMA LimitStep == ASSUME Shape, Control, LimitIsParallel, [Next]_vars PROVE LimitIsParallel'
<1>0. run \in RunType
  BY DEF Shape, TypeOK, RunType
<1>i. IdleRun.pc = "idle"
  BY DEF IdleRun
<1>p. Parallel' <=> Parallel
  BY DEF Parallel, Parallelism
<1>1. CASE UNCHANGED vars \/ UserStep \/ PlanStep
  BY <1>1, <1>p, PlanFrame DEF vars, UserStep, RetryTask, Approve, RejectRead, RejectApply, memory, LimitIsParallel
<1>2. CASE Crash \/ RunStart
  BY <1>2, <1>i DEF Crash, RunStart, LimitIsParallel, IdleRun
<1>3. CASE RunLoop
  <2>1. CASE Top
    BY <1>0, <1>i, <1>p, <2>1 DEF Top, RunType, LimitIsParallel
  <2>2. CASE ListReady \/ Claim \/ \E s \in Slots : Dispatch(s)
    BY <1>0, <2>2 DEF ListReady, NothingToClaim, Claim, Dispatch, RunType, LimitIsParallel
  <2>3. CASE Drained \/ Return \/ ContinueAfterFailure \/ RunFails
    BY <1>0, <1>i, <2>3 DEF Drained, Return, ContinueAfterFailure, RunFails, RunType, LimitIsParallel
  <2>4. CASE BlockList \/ BlockOne \/ CheckComplete
    BY <1>0, <1>i, <2>4 DEF BlockList, BlockOne, CheckComplete, RunType, LimitIsParallel
  <2>5. CASE FinalReview \/ DeltaCreate \/ DeltaQueue \/ CompleteProject
    BY <1>0, <1>i, <2>5 DEF FinalReview, DeltaCreate, DeltaQueue, CompleteProject, RunType, LimitIsParallel
  <2> QED BY <1>3, <2>1, <2>2, <2>3, <2>4, <2>5 DEF RunLoop
<1>4. ASSUME NEW s \in Slots, PipelineStep(s) PROVE LimitIsParallel'
  <2>1. ASSUME NEW ok \in BOOLEAN, PipelineEnds(s, ok) PROVE LimitIsParallel'
    BY <1>0, <1>p, <2>1 DEF PipelineEnds, RunType, LimitIsParallel
  <2> QED BY <1>4, <1>p, <2>1, PipelineRuns DEF LimitIsParallel
<1> QED BY <1>1, <1>2, <1>3, <1>4 DEF Next, UserStep

LEMMA CountingInv == Spec => [](Shape /\ Control /\ Counting /\ LimitIsParallel)
<1>1. ASSUME Init PROVE Shape /\ Control /\ Counting /\ LimitIsParallel
  <2>1. Shape /\ Control
    BY <1>1, InitShape DEF Init, Control, IdleRun, AllFree, Busy, FreeSlot, AtMostOne, FinalPC
  <2>2. AllFree /\ handoff = {} /\ run.iter = 0 /\ run.ran = 0 /\ run.cand = {} /\ run.pc = "idle"
    BY <1>1 DEF Init, IdleRun, AllFree, Busy, FreeSlot
  <2>3. Cardinality(BusySlots) = 0 /\ Cardinality({}) = 0
    BY <2>2, NoneBusy, FS_EmptySet
  <2>4. Parallelism \in Nat /\ RunLimit \in Nat /\ RunLimit # 0
    BY <2>1, FiniteParts
  <2> QED BY <2>1, <2>2, <2>3, <2>4 DEF Counting, LimitIsParallel, Claiming
<1>2. ASSUME Shape, Control, Counting, LimitIsParallel, [Next]_vars
      PROVE  Shape' /\ Control' /\ Counting' /\ LimitIsParallel'
  BY <1>2, ShapeStep, ControlStep, CountingStep, LimitStep
<1> QED BY <1>1, <1>2, PTL DEF Spec

\* The parallel loop overshoots its two limits by what was in flight and what
\* one claim returns, and by no more, for every limit and any number of
\* goroutines (service_run.go:486-536).
THEOREM OvershootIsBounded == Spec => []OvershootBounded
<1>1. ASSUME Shape, Counting PROVE OvershootBounded
  <2>1. run.iter \in Nat /\ run.ran \in Nat
    BY <1>1 DEF Shape, TypeOK
  <2> QED BY <1>1, <2>1, FiniteParts DEF Counting, OvershootBounded
<1> QED BY <1>1, CountingInv, PTL

\* The parallel loop that ran into its limits has counted as many tasks as the
\* task limit once they have ended: the finalization below it is dead code
\* (service_run.go:537-550).
THEOREM LimitEndsTheLoop == Spec => []LoopExitMeansLimit
<1>1. ASSUME Shape, Counting, LimitIsParallel PROVE LoopExitMeansLimit
  <2>1. run.iter \in Nat /\ run.ran \in Nat
    BY <1>1 DEF Shape, TypeOK
  <2> QED BY <1>1, <2>1, NoneBusy DEF Counting, LimitIsParallel, LoopExitMeansLimit
<1> QED BY <1>1, CountingInv, PTL

-----------------------------------------------------------------------------
(***************************************************************************)
(* The final review.                                                       *)
(***************************************************************************)

\* What CheckComplete found stays so until the project is completed, but for
\* what a plan adds: no goroutine runs, and no step of a user or of a plan leads
\* away from a complete status.
Settled == \A t \in Task \ late : status[t] \in Complete \cup {"ABSENT"}
Reviewing == IF FoundComplete THEN Settled ELSE late = {}

LEMMA ReviewingStep == ASSUME Shape, Control, Reviewing, [Next]_vars PROVE Reviewing'
<1>0. run \in RunType /\ status \in StatusType
  BY DEF Shape, TypeOK, RunType, StatusType
<1>f. FoundComplete' <=> run'.pc \in {"review", "complete"}
  BY DEF FoundComplete
<1>i. IdleRun.pc = "idle"
  BY DEF IdleRun
<1>a. ASSUME run'.pc \notin {"review", "complete"}, late' = {} PROVE Reviewing'
  BY <1>a, <1>f DEF Reviewing
<1>b. ASSUME run.pc \notin {"review", "complete"}, run'.pc \notin {"review", "complete"}, late' = late
      PROVE  Reviewing'
  BY <1>b, <1>f DEF Reviewing, FoundComplete
<1>c. ASSUME run' = run, late' = late,
             \/ status' = status
             \/ \E t \in Task : /\ status[t] \notin Complete \cup {"ABSENT"}
                               /\ \E to : status' = [status EXCEPT ![t] = to]
      PROVE  Reviewing'
  BY <1>0, <1>c DEF Reviewing, Settled, FoundComplete, StatusType
<1>d. ASSUME NEW t \in Task, NEW to \in {"READY", "BLOCKED"}, TransitionTask(t, to)
      PROVE  \/ status' = status
             \/ /\ status[t] \notin Complete \cup {"ABSENT"}
                /\ \E st : status' = [status EXCEPT ![t] = st]
  BY <1>0, <1>d DEF TransitionTask, CanTransition, Transitions, Complete, StatusType
<1>1. CASE UNCHANGED vars
  BY <1>1, <1>c DEF vars
<1>2. CASE UserStep
  <2>1. run' = run /\ late' = late
    BY <1>2 DEF UserStep, RetryTask, Approve, RejectRead, RejectApply, memory, beside
  <2>2. \/ status' = status
        \/ \E t \in Task : TransitionTask(t, "READY") \/ TransitionTask(t, "BLOCKED")
    BY <1>2 DEF UserStep, RetryTask, Approve, RejectRead, RejectApply, store
  <2> QED BY <1>c, <1>d, <2>1, <2>2
<1>3. CASE PlanStep
  <2>1. run' = run
    BY <1>3, PlanFrame
  <2>2. CASE PlanCreate
    <3>1. PICK n \in Task : /\ \E d \in TitleDepths : CreateTask(n, d)
                            /\ late' = IF FoundComplete THEN late \cup {n} ELSE late
      BY <2>2 DEF PlanCreate
    <3>2. \A t \in Task : t # n => status'[t] = status[t]
      BY <1>0, <3>1 DEF CreateTask, StatusType
    <3> QED BY <2>1, <3>1, <3>2 DEF Reviewing, Settled, FoundComplete
  <2>3. CASE PlanQueue
    <3>1. late' = late /\ \E t \in Task : TransitionTask(t, "READY") \/ TransitionTask(t, "BLOCKED")
      BY <2>3 DEF PlanQueue, Shape, TypeOK, BesideOK
    <3> QED BY <1>c, <1>d, <2>1, <3>1
  <2>4. CASE PlanDepend \/ PlanStops
    BY <1>c, <2>1, <2>4 DEF PlanDepend, PlanStops, store
  <2> QED BY <1>3, <2>2, <2>3, <2>4 DEF PlanStep
<1>4. ASSUME NEW s \in Slots, PipelineStep(s) PROVE Reviewing'
  <2>1. Busy(s) /\ late' = late
    BY <1>4, PipelineRuns, PipelineBeside DEF beside
  <2>2. run.pc \notin {"review", "complete"}
    BY <2>1 DEF Control, AllFree, FinalPC
  <2>3. ASSUME NEW ok \in BOOLEAN, PipelineEnds(s, ok) PROVE run'.pc \in {run.pc, "top", "failed"}
    BY <1>0, <2>3 DEF PipelineEnds, RunType
  <2> QED BY <1>4, <1>b, <2>1, <2>2, <2>3, PipelineRuns
<1>5. CASE CheckComplete
  <2>1. status' = status /\ late' = late /\ run.pc = "check"
    BY <1>5 DEF CheckComplete, store, beside
  <2>2. CASE AllComplete
    BY <2>1, <2>2, <1>f, <1>i, <1>5 DEF CheckComplete, Reviewing, Settled, AllComplete, FoundComplete
  <2>3. CASE ~AllComplete
    BY <1>b, <1>i, <1>5, <2>1, <2>3 DEF CheckComplete
  <2> QED BY <2>2, <2>3
<1>6. CASE FinalReview
  <2>1. CASE run' = [run EXCEPT !.pc = "complete"] /\ late' = late
    <3>1. status' = status /\ FoundComplete
      BY <1>6 DEF FinalReview, store, FoundComplete
    <3> QED BY <2>1, <3>1, <1>0, <1>f DEF Reviewing, Settled, RunType
  <2>2. CASE run' = IdleRun /\ late' = {}
    BY <1>a, <1>i, <2>2
  <2>3. ASSUME NEW n \in 1..MaxDelta, run' = [run EXCEPT !.pc = "delta", !.left = n], late' = {}
        PROVE  Reviewing'
    BY <1>0, <1>a, <2>3 DEF RunType
  <2> QED BY <1>6, <2>1, <2>2, <2>3 DEF FinalReview
<1>7. CASE Crash \/ RunFails \/ CompleteProject
  <2>1. late' = {} /\ run'.pc \in {"idle", "stop", "failed"}
    BY <1>0, <1>i, <1>7 DEF Crash, RunFails, CompleteProject, RunType
  <2> QED BY <1>a, <2>1
<1>8. CASE RunStart \/ Top \/ ListReady \/ Claim \/ \E s \in Slots : Dispatch(s)
  <2>1. late' = late /\ run.pc \notin {"review", "complete"}
    BY <1>8 DEF RunStart, Top, ListReady, Claim, Dispatch, FirstAttempt, beside
  <2>2. CASE RunStart \/ Top
    BY <1>0, <1>b, <1>i, <2>1, <2>2 DEF RunStart, IdleRun, Top, RunType
  <2>3. CASE ListReady
    BY <1>0, <1>b, <2>1, <2>3 DEF ListReady, NothingToClaim, RunType
  <2>4. CASE Claim
    BY <1>0, <1>b, <2>1, <2>4 DEF Claim, NothingToClaim, RunType
  <2>5. ASSUME NEW s \in Slots, Dispatch(s) PROVE run'.pc \in {"wait", "top", "dispatch"}
    BY <1>0, <2>5 DEF Dispatch, RunType
  <2> QED BY <1>8, <1>b, <2>1, <2>2, <2>3, <2>4, <2>5
<1>9. CASE Drained \/ Return \/ ContinueAfterFailure \/ BlockList \/ BlockOne
  <2>1. late' = late /\ run.pc \notin {"review", "complete"}
    BY <1>9 DEF Drained, Return, ContinueAfterFailure, BlockList, BlockOne, beside
  <2>2. run'.pc \in {"relist", "idle", "top", "check", "blocking"}
    BY <1>0, <1>i, <1>9 DEF Drained, Return, ContinueAfterFailure, BlockList, BlockOne, RunType
  <2> QED BY <1>b, <2>1, <2>2
<1>10. CASE DeltaCreate \/ DeltaQueue
  <2>1. late' = late /\ run.pc \notin {"review", "complete"}
    BY <1>10 DEF DeltaCreate, DeltaQueue, beside
  <2>2. run'.pc \in {"delta_queue", "top", "delta"}
    BY <1>0, <1>10 DEF DeltaCreate, DeltaQueue, RunType
  <2> QED BY <1>b, <2>1, <2>2
<1> QED
  BY <1>1, <1>2, <1>3, <1>4, <1>5, <1>6, <1>7, <1>8, <1>9, <1>10 DEF Next, RunLoop, UserStep

LEMMA ReviewingInv == Spec => [](Shape /\ Control /\ Reviewing)
<1>1. Init => Shape /\ Control /\ Reviewing
  BY InitShape DEF Init, Control, IdleRun, AllFree, Busy, FreeSlot, AtMostOne, FinalPC, Reviewing,
     FoundComplete
<1>2. Shape /\ Control /\ Reviewing /\ [Next]_vars => (Shape /\ Control /\ Reviewing)'
  BY ShapeStep, ControlStep, ReviewingStep
<1> QED BY <1>1, <1>2, PTL DEF Spec

\* The final review and the completion see the state CheckComplete saw, and
\* beyond it only tasks that a plan added since: no retry, rejection or goroutine
\* opens work in between (final_review.go:28-68).
THEOREM ReviewIsSettled == Spec => []ReviewsOnlyCompleteWork
<1>1. Control /\ Reviewing => ReviewsOnlyCompleteWork
  BY DEF Control, Reviewing, Settled, FoundComplete, ReviewsOnlyCompleteWork, FinalPC
<1> QED BY <1>1, ReviewingInv, PTL

\* The project's status changes only in a state where every task is complete
\* that did not come late, and by the completion (final_review.go:61-68).
LEMMA StepProject ==
  ASSUME Shape, Reviewing, [Next]_vars, project' # project
  PROVE  CompleteProject /\ FoundComplete /\ Settled
<1>1. ASSUME NEW s \in Slots PROVE ~PipelineStep(s)
  BY PipelineRuns
<1>2. ~UserStep /\ ~Crash /\ ~RunStart /\ ~PlanStep /\ Next
  BY PlanFrame DEF UserStep, RetryTask, Approve, RejectRead, RejectApply, Crash, RunStart, store, vars
<1>3. RunLoop
  BY <1>1, <1>2 DEF Next, UserStep
<1>4. CompleteProject
  BY <1>3 DEF RunLoop, Top, ListReady, Claim, Dispatch, Drained, Return,
     ContinueAfterFailure, RunFails, BlockList, BlockOne, CheckComplete, FinalReview,
     DeltaCreate, DeltaQueue, store
<1> QED BY <1>4 DEF CompleteProject, Reviewing, FoundComplete

-----------------------------------------------------------------------------
(***************************************************************************)
(* Completion is earned.                                                   *)
(***************************************************************************)

\* A repair is linked once: goroutines about to write a link each have a new
\* task of their own, without one.
LinkInv ==
  /\ \A t \in Task : status[t] = "ABSENT" => link[t] = NoTask
  /\ \A s \in Slots : pipe[s].pc = "linking" =>
       status[pipe[s].new] # "ABSENT" /\ link[pipe[s].new] = NoTask
  /\ \A r, s \in Slots : r # s /\ pipe[r].pc = "linking" /\ pipe[s].pc = "linking" =>
       pipe[r].new # pipe[s].new

EarnedTasks == {t \in Task : Earned(t)}

\* completeRepairedTask climbs along links from an approved task.
CreditInv ==
  /\ DoneIsEarned
  /\ \A s \in Slots : pipe[s].pc \in {"credit", "crediting"} => pipe[s].target \in EarnedTasks
  /\ \A s \in Slots : pipe[s].pc = "supersede" => \E r \in EarnedTasks : link[r] = pipe[s].target
  /\ \A s \in Slots : pipe[s].pc = "superseding" =>
       pipe[s].target \in EarnedTasks /\ pipe[s].todo \subseteq EarnedTasks

\* An earned repair completes the task it repairs and that task's other repairs.
LEMMA EarnedLink ==
  ASSUME link \in [Task -> TaskOrNone], NEW r \in EarnedTasks, link[r] # NoTask
  PROVE  link[r] \in EarnedTasks /\ \A u \in Task : link[u] = link[r] => u \in EarnedTasks
BY DEF EarnedTasks, Earned, Closed, TaskOrNone

\* What a step of a goroutine does to the slot, where it matters for credit.
SlotCredit(s) ==
  LET p == pipe[s]
      q == pipe'[s]
  IN  /\ q.pc \in {"credit", "crediting"} =>
           \/ q.target \in approved'
           \/ p.pc \in {"credit", "superseding"} /\ q.target = p.target
           \/ p.pc = "supersede" /\ q.target = p.target
           \/ p.pc = "credit" /\ link[p.target] # NoTask /\ q.target = link[p.target]
      /\ q.pc = "supersede" => p.pc = "crediting" /\ q.target = link[p.target]
      /\ q.pc = "superseding" =>
           /\ q.target = p.target
           /\ \/ p.pc = "supersede" /\ \A t \in q.todo : t \in Task /\ link[t] = p.target
              \/ p.pc = "superseding" /\ q.todo \subseteq p.todo
      /\ q.pc = "linking" =>
           /\ q.new \in Task /\ status[q.new] = "ABSENT" /\ status'[q.new] = "DRAFT"
           /\ link' = link

LEMMA StepCredit == ASSUME Shape, NEW s \in Slots, PipelineStep(s) PROVE SlotCredit(s)
<1>0. PipeOK /\ pipe[s] \in SlotType /\ SlotOK(pipe[s]) /\ status \in StatusType
  BY DEF Shape, TypeOK, PipeOK, SlotType, StatusType
<1>1. CASE Execute(s) \/ StartTest(s) \/ Test(s)
  <2>1. pipe'[s].pc \in {"test", "testing", "review", "repair"}
    BY <1>0, <1>1 DEF Execute, StartTest, Test, Goto, GotoRepair, PipeOK, SlotType
  <2> QED BY <2>1 DEF SlotCredit
<1>2. CASE Review(s)
  <2>1. pipe'[s].pc = "repair" \/ (pipe'[s].pc = "credit" /\ pipe'[s].target \in approved')
    BY <1>0, <1>2 DEF Review, GotoRepair, PipeOK, SlotType
  <2> QED BY <2>1 DEF SlotCredit
<1>3. CASE StageErrors(s) \/ ReadFailed(s) \/ FindRoot(s) \/ MarkFailed(s) \/ LinkFix(s)
  <2>1. pipe'[s].pc \in {"repair", "marking", "keeping", "create", "replan", "queueing"}
    BY <1>0, <1>3 DEF StageErrors, ReadFailed, FindRoot, At, MarkFailed, LinkFix, Goto,
       GotoRepair, PipeOK, SlotType
  <2> QED BY <2>1 DEF SlotCredit
<1>4. CASE CreateFix(s)
  <2>1. PICK n \in Task : /\ CreateTask(n, depth[pipe[s].task] + 1)
                          /\ pipe' = [pipe EXCEPT ![s].pc = "linking", ![s].new = n]
    BY <1>4 DEF CreateFix
  <2>2. pipe'[s].pc = "linking" /\ pipe'[s].new = n
    BY <1>0, <2>1 DEF PipeOK, SlotType
  <2>3. status[n] = "ABSENT" /\ status'[n] = "DRAFT" /\ link' = link
    BY <1>0, <1>4, <2>1 DEF CreateFix, CreateTask, StatusType
  <2> QED BY <2>2, <2>3 DEF SlotCredit
<1>5. CASE QueueFix(s) \/ PipelineAborts(s)
  <2>1. pipe'[s].pc = "free"
    BY <1>0, <1>5 DEF QueueFix, PipelineAborts, PipelineEnds, FreeSlot, PipeOK
  <2> QED BY <2>1 DEF SlotCredit
<1>6. CASE ReplanStart(s) \/ ReplanCreate(s) \/ ReplanQueue(s)
  <2>1. pipe'[s].pc \in {"delta", "delta_queue", "free"}
    BY <1>0, <1>6 DEF ReplanStart, ReplanCreate, ReplanQueue, PipelineEnds, FreeSlot, PipeOK,
       SlotType
  <2> QED BY <2>1 DEF SlotCredit
<1>7. CASE Credit(s)
  <2>1. /\ pipe[s].pc = "credit"
        /\ \/ pipe'[s].pc = "free"
           \/ pipe'[s].pc = "crediting" /\ pipe'[s].target = pipe[s].target
           \/ /\ link[pipe[s].target] # NoTask
              /\ pipe'[s].pc = "credit" /\ pipe'[s].target = link[pipe[s].target]
    BY <1>0, <1>7 DEF Credit, At, Goto, PipelineEnds, FreeSlot, PipeOK, SlotType
  <2> QED BY <2>1 DEF SlotCredit
<1>8. CASE CreditDone(s)
  <2>1. /\ pipe[s].pc = "crediting" /\ pipe'[s].pc = "supersede"
        /\ pipe'[s].target = link[pipe[s].target]
    BY <1>0, <1>8 DEF CreditDone, At, PipeOK, SlotType
  <2> QED BY <2>1 DEF SlotCredit
<1>9. CASE SupersedeList(s)
  <2>1. /\ pipe[s].pc = "supersede" /\ pipe'[s].target = pipe[s].target
        /\ \/ pipe'[s].pc = "credit"
           \/ /\ pipe'[s].pc = "superseding"
              /\ \A t \in pipe'[s].todo : t \in Task /\ link[t] = pipe[s].target
    BY <1>0, <1>9 DEF SupersedeList, At, Goto, PipeOK, SlotType
  <2> QED BY <2>1 DEF SlotCredit
<1>10. CASE SupersedeOne(s)
  <2>1. /\ pipe[s].pc = "superseding" /\ pipe'[s].target = pipe[s].target
        /\ pipe'[s].pc \in {"credit", "superseding"} /\ pipe'[s].todo \subseteq pipe[s].todo
    BY <1>0, <1>10 DEF SupersedeOne, At, PipeOK, SlotType
  <2> QED BY <2>1 DEF SlotCredit
<1> QED
  BY <1>1, <1>2, <1>3, <1>4, <1>5, <1>6, <1>7, <1>8, <1>9, <1>10 DEF PipelineStep

\* What a step does to the slots: one goroutine steps, one is given a task, all
\* are gone, or nothing changes.
StartsSlot(s) == /\ pipe'[s].pc = "execute"
                 /\ \A r \in Slots : r # s => pipe'[r] = pipe[r]

LEMMA StepOfSlots ==
  ASSUME Shape, [Next]_vars
  PROVE  \/ pipe' = pipe
         \/ \A s \in Slots : pipe'[s].pc = "free"
         \/ \E s \in Slots : Dispatch(s)
         \/ \E s \in Slots : PipelineStep(s)
<1>1. CASE UNCHANGED vars \/ RunStart \/ UserStep \/ PlanStep
  BY <1>1, PlanFrame DEF vars, RunStart, UserStep, RetryTask, Approve, RejectRead, RejectApply, memory
<1>2. CASE RunLoop /\ ~\E s \in Slots : Dispatch(s)
  BY <1>2 DEF RunLoop, Top, ListReady, Claim, Drained, Return, ContinueAfterFailure,
     RunFails, BlockList, BlockOne, CheckComplete, FinalReview, DeltaCreate, DeltaQueue,
     CompleteProject
<1>4. CASE Crash
  BY <1>4 DEF Crash, FreeSlot
<1> QED BY <1>1, <1>2, <1>4 DEF Next, UserStep

LEMMA StepSlots ==
  ASSUME Shape, [Next]_vars
  PROVE  \/ pipe' = pipe
         \/ \A s \in Slots : pipe'[s].pc = "free"
         \/ \E s \in Slots : StartsSlot(s)
         \/ \E s \in Slots : PipelineStep(s)
<1>1. ASSUME NEW s \in Slots, Dispatch(s) PROVE StartsSlot(s)
  <2>1. PICK t \in handoff : pipe' = [pipe EXCEPT ![s] = Pipeline(t)]
    BY <1>1 DEF Dispatch
  <2> QED BY <2>1 DEF StartsSlot, Pipeline, FreeSlot, Shape, TypeOK
<1> QED BY <1>1, StepOfSlots

\* Only Claim hands out more tasks.
LEMMA StepHandoff == ASSUME Shape, [Next]_vars PROVE Claim \/ handoff' \subseteq handoff
<1>1. CASE UNCHANGED vars \/ RunStart \/ UserStep \/ PlanStep \/ Crash
  BY <1>1, PlanFrame DEF vars, RunStart, UserStep, RetryTask, Approve, RejectRead, RejectApply, memory, Crash
<1>2. CASE RunLoop
  BY <1>2 DEF RunLoop, Top, ListReady, Dispatch, Drained, Return, ContinueAfterFailure,
     RunFails, BlockList, BlockOne, CheckComplete, FinalReview, DeltaCreate, DeltaQueue,
     CompleteProject
<1>3. ASSUME NEW s \in Slots, PipelineStep(s) PROVE handoff' = handoff
  BY <1>3, PipelineRuns
<1> QED BY <1>1, <1>2, <1>3 DEF Next, UserStep

\* A step writes at most one link, that of a new repair.
LEMMA StepLink ==
  ASSUME Shape, [Next]_vars
  PROVE  \/ link' = link
         \/ \E s \in Slots :
              /\ pipe[s].pc = "linking" /\ LinkFix(s)
              /\ \A t \in Task : t # pipe[s].new => link'[t] = link[t]
<1>1. CASE UNCHANGED vars \/ RunStart \/ UserStep \/ PlanStep \/ Crash
  BY <1>1, PlanFrame DEF vars, RunStart, UserStep, RetryTask, Approve, RejectRead, RejectApply, Crash, store
<1>2. CASE RunLoop
  BY <1>2 DEF RunLoop, Top, ListReady, Claim, Dispatch, Drained, Return, ContinueAfterFailure,
     RunFails, BlockList, BlockOne, CheckComplete, FinalReview, DeltaCreate, DeltaQueue,
     CompleteProject, store
<1>3. ASSUME NEW s \in Slots, PipelineStep(s), ~LinkFix(s) PROVE link' = link
  BY <1>3 DEF PipelineStep, Execute, StartTest, Test, Review, StageErrors, ReadFailed,
     FindRoot, MarkFailed,
     CreateFix, QueueFix, ReplanStart, ReplanCreate, ReplanQueue, Credit, CreditDone,
     SupersedeList, SupersedeOne, PipelineAborts, store
<1>4. ASSUME NEW s \in Slots, LinkFix(s)
      PROVE  /\ pipe[s].pc = "linking" /\ LinkFix(s)
             /\ \A t \in Task : t # pipe[s].new => link'[t] = link[t]
  BY <1>4 DEF LinkFix, At, Shape, TypeOK
<1> QED BY <1>1, <1>2, <1>3, <1>4 DEF Next, UserStep

LEMMA LinkStep ==
  ASSUME Shape, LinkInv, [Next]_vars
  PROVE  LinkInv' /\ \A t \in Task : link[t] # NoTask => link'[t] = link[t]
<1>0. StatusStep /\ PipeOK /\ \A s \in Slots : SlotOK(pipe[s])
  BY StepStatus DEF Shape, TypeOK, PipeOK, SlotType
<1>1. \A t \in Task : status[t] # "ABSENT" => status'[t] # "ABSENT"
  BY <1>0 DEF StatusStep, Moves, Appears, IsClaimed, Transitions
<1>2. CASE link' = link
  <2>1. \A t \in Task : status'[t] = "ABSENT" => link'[t] = NoTask
    BY <1>1, <1>2 DEF LinkInv
  <2>2. \A s \in Slots : pipe[s].pc = "linking" => pipe[s].new \in Task
    BY <1>0 DEF SlotOK
  <2>3. CASE pipe' = pipe
    BY <1>1, <1>2, <2>1, <2>2, <2>3 DEF LinkInv
  <2>4. CASE \A s \in Slots : pipe'[s].pc = "free"
    BY <1>2, <2>1, <2>4 DEF LinkInv
  <2>5. ASSUME NEW s \in Slots, StartsSlot(s) PROVE LinkInv'
    BY <1>1, <1>2, <2>1, <2>2, <2>5 DEF LinkInv, StartsSlot
  <2>6. ASSUME NEW s \in Slots, PipelineStep(s) PROVE LinkInv'
    <3>1. \A r \in Slots : r # s => pipe'[r] = pipe[r]
      BY <1>0, <2>6, OtherSlots
    <3>2. pipe'[s].pc = "linking" => /\ pipe'[s].new \in Task /\ status[pipe'[s].new] = "ABSENT"
                                     /\ status'[pipe'[s].new] = "DRAFT"
      BY <2>6, StepCredit DEF SlotCredit
    <3>3. \A r \in Slots : pipe'[r].pc = "linking" =>
            status'[pipe'[r].new] # "ABSENT" /\ link'[pipe'[r].new] = NoTask
      BY <1>1, <1>2, <2>2, <3>1, <3>2 DEF LinkInv
    <3>4. \A r \in Slots : r # s /\ pipe'[r].pc = "linking" /\ pipe'[s].pc = "linking" =>
            pipe'[r].new # pipe'[s].new
      BY <3>1, <3>2 DEF LinkInv
    <3> QED BY <2>1, <3>1, <3>3, <3>4 DEF LinkInv
  <2>7. LinkInv'
    BY <2>3, <2>4, <2>5, <2>6, StepSlots
  <2> QED BY <1>2, <2>7
<1>3. ASSUME NEW s \in Slots, pipe[s].pc = "linking", LinkFix(s),
             \A t \in Task : t # pipe[s].new => link'[t] = link[t]
      PROVE  LinkInv' /\ \A t \in Task : link[t] # NoTask => link'[t] = link[t]
  <2>1. /\ pipe[s].new \in Task /\ status[pipe[s].new] # "ABSENT"
        /\ link[pipe[s].new] = NoTask /\ status' = status
    BY <1>0, <1>3 DEF LinkInv, SlotOK, LinkFix
  <2>2. /\ pipe'[s].pc = "queueing"
        /\ \A r \in Slots : r # s => pipe'[r] = pipe[r]
    BY <1>0, <1>3 DEF LinkFix, Goto, PipeOK, SlotType
  <2>3. \A r \in Slots : r # s /\ pipe[r].pc = "linking" =>
          pipe[r].new \in Task /\ pipe[r].new # pipe[s].new
    BY <1>0, <1>3 DEF LinkInv, SlotOK
  <2>4. LinkInv'
    BY <1>3, <2>1, <2>2, <2>3 DEF LinkInv
  <2> QED BY <1>3, <2>1, <2>4
<1> QED BY <1>2, <1>3, StepLink

-----------------------------------------------------------------------------
(***************************************************************************)
(* The depth of repairs.                                                   *)
(***************************************************************************)

\* A goroutine looks for the task its repair will be linked to.
Climbing == {"repair", "marking", "keeping", "create"}

\* What goroutine s works on exists.  Climbing, it is at a task of no greater
\* depth than its own; MarkFailed compared the depth before it creates a fix,
\* and the fix is deeper than what it is about to be linked to.
Descends(s) ==
  LET p == pipe[s]
  IN  /\ Busy(s) => status[p.task] # "ABSENT"
      /\ p.pc \in Climbing => status[p.target] # "ABSENT" /\ depth[p.target] <= depth[p.task]
      /\ p.pc = "create" => depth[p.task] < MaxRepairDepth
      /\ p.pc = "linking" =>
           /\ status[p.target] # "ABSENT" /\ status[p.new] # "ABSENT"
           /\ depth[p.target] < depth[p.new] /\ depth[p.new] <= MaxRepairDepth

RepairInv ==
  /\ \A t \in Task : link[t] # NoTask =>
       status[link[t]] # "ABSENT" /\ depth[link[t]] < depth[t] /\ depth[t] <= MaxRepairDepth
  /\ \A t \in handoff : status[t] # "ABSENT"
  /\ \A s \in Slots : Descends(s)

\* The depth of a task is settled when it is created.
LEMMA StepDepth ==
  ASSUME Shape, [Next]_vars
  PROVE  \A t \in Task : depth'[t] = depth[t] \/ status[t] = "ABSENT"
<1>0. depth \in [Task -> Nat]
  BY DEF Shape, TypeOK
<1>1. ASSUME NEW n \in Task, NEW d, CreateTask(n, d)
      PROVE  \A t \in Task : depth'[t] = depth[t] \/ status[t] = "ABSENT"
  BY <1>0, <1>1 DEF CreateTask
<1>2. CASE DeltaCreate \/ \E s \in Slots : ReplanCreate(s) \/ CreateFix(s)
  BY <1>1, <1>2 DEF DeltaCreate, ReplanCreate, CreateFix
<1>3. CASE PlanStep
  BY <1>1, <1>3 DEF PlanStep, PlanCreate, PlanDepend, PlanQueue, PlanStops, store
<1>4. CASE UNCHANGED vars \/ RunStart \/ Crash \/ UserStep
  BY <1>4 DEF vars, RunStart, Crash, UserStep, RetryTask, Approve, RejectRead, RejectApply, store
<1>5. CASE RunLoop /\ ~DeltaCreate
  BY <1>5 DEF RunLoop, Top, ListReady, Claim, Dispatch, Drained, Return, ContinueAfterFailure,
     RunFails, BlockList, BlockOne, CheckComplete, FinalReview, DeltaQueue, CompleteProject, store
<1>6. ASSUME NEW s \in Slots, PipelineStep(s), ~CreateFix(s), ~ReplanCreate(s)
      PROVE  depth' = depth
  BY <1>6 DEF PipelineStep, Execute, StartTest, Test, Review, StageErrors, ReadFailed,
     FindRoot, MarkFailed,
     LinkFix, QueueFix, ReplanStart, ReplanQueue, Credit, CreditDone, SupersedeList,
     SupersedeOne, PipelineAborts, store
<1> QED
  BY <1>2, <1>3, <1>4, <1>5, <1>6 DEF Next, UserStep

\* What a step of a goroutine does to the slot, where it matters for repairs.
SlotRepair(s) ==
  LET p == pipe[s]
      q == pipe'[s]
  IN  /\ q.pc = "free" \/ q.task = p.task
      /\ q.pc \in Climbing =>
           \/ q.target = p.task
           \/ p.pc \in Climbing /\ q.target = p.target
           \/ p.pc \in Climbing /\ link[p.target] # NoTask /\ q.target = link[p.target]
      /\ q.pc = "create" => depth[p.task] < MaxRepairDepth
      /\ q.pc = "linking" =>
           /\ p.pc = "create" /\ q.target = p.target
           /\ q.new \in Task /\ status'[q.new] # "ABSENT" /\ depth'[q.new] = depth[p.task] + 1

LEMMA StepRepair == ASSUME Shape, NEW s \in Slots, PipelineStep(s) PROVE SlotRepair(s)
<1>0. /\ PipeOK /\ depth \in [Task -> Nat] /\ status \in StatusType
      /\ pipe[s] \in SlotType /\ SlotOK(pipe[s])
  BY DEF Shape, TypeOK, PipeOK, SlotType, StatusType
<1>1. CASE Execute(s) \/ StartTest(s) \/ Test(s) \/ Review(s) \/ StageErrors(s)
  <2>1. /\ pipe'[s].task = pipe[s].task
        /\ pipe'[s].pc \in {"test", "testing", "review", "credit", "repair"}
        /\ pipe'[s].pc = "repair" => pipe'[s].target = pipe[s].task
    BY <1>0, <1>1 DEF Execute, StartTest, Test, Review, StageErrors, Goto, GotoRepair, PipeOK,
       SlotType
  <2> QED BY <2>1 DEF SlotRepair, Climbing
<1>2. CASE ReadFailed(s)
  <2>1. /\ pipe'[s].task = pipe[s].task /\ pipe'[s].target = pipe[s].target
        /\ pipe[s].pc = "repair" /\ pipe'[s].pc \in {"marking", "keeping"}
    BY <1>0, <1>2 DEF ReadFailed, At, Goto, PipeOK, SlotType
  <2> QED BY <2>1 DEF SlotRepair, Climbing
<1>3. CASE FindRoot(s)
  <2>1. /\ pipe'[s].task = pipe[s].task /\ pipe'[s].pc = pipe[s].pc
        /\ link[pipe[s].target] # NoTask /\ pipe'[s].target = link[pipe[s].target]
        /\ pipe[s].pc \in {"marking", "keeping"}
    BY <1>0, <1>3 DEF FindRoot, At, PipeOK, SlotType
  <2> QED BY <2>1 DEF SlotRepair, Climbing
<1>4. CASE MarkFailed(s)
  <2>1. /\ pipe'[s].task = pipe[s].task /\ pipe'[s].target = pipe[s].target
        /\ pipe[s].pc \in {"marking", "keeping"} /\ pipe'[s].pc \in {"create", "replan"}
        /\ pipe'[s].pc = "create" => depth[pipe[s].task] < MaxRepairDepth
    BY <1>0, <1>4 DEF MarkFailed, At, Goto, PipeOK, SlotType
  <2> QED BY <2>1 DEF SlotRepair, Climbing
<1>5. CASE CreateFix(s)
  <2>1. PICK n \in Task : /\ CreateTask(n, depth[pipe[s].task] + 1)
                          /\ pipe' = [pipe EXCEPT ![s].pc = "linking", ![s].new = n]
    BY <1>5 DEF CreateFix
  <2>2. /\ pipe'[s].task = pipe[s].task /\ pipe'[s].target = pipe[s].target
        /\ pipe'[s].new = n /\ pipe[s].pc = "create" /\ pipe'[s].pc = "linking"
    BY <1>0, <1>5, <2>1 DEF CreateFix, At, PipeOK, SlotType
  <2>3. status'[n] # "ABSENT" /\ depth'[n] = depth[pipe[s].task] + 1
    BY <1>0, <2>1 DEF CreateTask, StatusType
  <2> QED BY <2>2, <2>3 DEF SlotRepair, Climbing
<1>6. CASE LinkFix(s) \/ ReplanStart(s) \/ ReplanCreate(s)
  <2>1. pipe'[s].task = pipe[s].task /\ pipe'[s].pc \in {"queueing", "delta", "delta_queue"}
    BY <1>0, <1>6 DEF LinkFix, ReplanStart, ReplanCreate, Goto, PipeOK, SlotType
  <2> QED BY <2>1 DEF SlotRepair, Climbing
<1>7. CASE QueueFix(s) \/ ReplanQueue(s) \/ PipelineAborts(s)
  <2>1. pipe'[s].pc = "free" \/ (pipe'[s].pc = "delta" /\ pipe'[s].task = pipe[s].task)
    BY <1>0, <1>7 DEF QueueFix, ReplanQueue, PipelineAborts, PipelineEnds, FreeSlot, PipeOK, SlotType
  <2> QED BY <2>1 DEF SlotRepair, Climbing
<1>8. CASE Credit(s) \/ CreditDone(s) \/ SupersedeList(s) \/ SupersedeOne(s)
  <2>1. \/ pipe'[s].pc = "free"
        \/ /\ pipe'[s].task = pipe[s].task
           /\ pipe'[s].pc \in {"credit", "crediting", "supersede", "superseding"}
    <3>1. CASE Credit(s)
      BY <1>0, <3>1 DEF Credit, At, Goto, PipelineEnds, FreeSlot, PipeOK, SlotType
    <3>2. CASE CreditDone(s) \/ SupersedeList(s)
      BY <1>0, <3>2 DEF CreditDone, SupersedeList, Goto, PipeOK, SlotType
    <3>3. CASE SupersedeOne(s)
      BY <1>0, <3>3 DEF SupersedeOne, At, PipeOK, SlotType
    <3> QED BY <1>8, <3>1, <3>2, <3>3
  <2> QED BY <2>1 DEF SlotRepair, Climbing
<1> QED BY <1>1, <1>2, <1>3, <1>4, <1>5, <1>6, <1>7, <1>8 DEF PipelineStep

LEMMA RepairStep == ASSUME Shape, LinkInv, RepairInv, [Next]_vars PROVE RepairInv'
<1>0. /\ StatusStep /\ PipeOK /\ status \in StatusType /\ handoff \subseteq Task
      /\ link \in [Task -> TaskOrNone] /\ depth \in [Task -> Nat]
      /\ \A s \in Slots : SlotOK(pipe[s])
  BY StepStatus DEF Shape, TypeOK, PipeOK, SlotType, StatusType
<1>1. \A t \in Task : status[t] # "ABSENT" => status'[t] # "ABSENT" /\ depth'[t] = depth[t]
  BY <1>0, StepDepth DEF StatusStep, Moves, Appears, IsClaimed, Transitions
<1> DEFINE Linked(t) == link[t] # NoTask =>
       status[link[t]] # "ABSENT" /\ depth[link[t]] < depth[t] /\ depth[t] <= MaxRepairDepth
\* Links.
<1>2. ASSUME NEW t \in Task, link'[t] = link[t] PROVE Linked(t)'
  <2> SUFFICES ASSUME link[t] # NoTask PROVE Linked(t)'
    BY <1>2
  <2>1. link[t] \in Task /\ status[t] # "ABSENT"
    BY <1>0 DEF TaskOrNone, LinkInv
  <2>2. status[link[t]] # "ABSENT" /\ depth[link[t]] < depth[t] /\ depth[t] <= MaxRepairDepth
    BY DEF RepairInv
  <2> QED BY <1>1, <1>2, <2>1, <2>2
<1>3. ASSUME NEW s \in Slots, pipe[s].pc = "linking", LinkFix(s), NEW n \in Task, n = pipe[s].new
      PROVE  Linked(n)'
  <2>1. pipe[s].target \in Task /\ link'[n] = pipe[s].target
    BY <1>0, <1>3 DEF SlotOK, LinkFix
  <2>2. /\ status[pipe[s].target] # "ABSENT" /\ status[n] # "ABSENT"
        /\ depth[pipe[s].target] < depth[n] /\ depth[n] <= MaxRepairDepth
    BY <1>3 DEF RepairInv, Descends
  <2>3. /\ status'[pipe[s].target] # "ABSENT" /\ depth'[pipe[s].target] = depth[pipe[s].target]
        /\ depth'[n] = depth[n]
    BY <1>1, <2>1, <2>2
  <2> QED BY <2>1, <2>2, <2>3
<1>4. \A t \in Task : Linked(t)'
  <2> HIDE DEF Linked
  <2>1. CASE link' = link
    BY <1>2, <2>1
  <2>2. ASSUME NEW s \in Slots, pipe[s].pc = "linking", LinkFix(s),
               \A t \in Task : t # pipe[s].new => link'[t] = link[t]
        PROVE  \A t \in Task : Linked(t)'
    BY <1>2, <1>3, <2>2
  <2> QED BY <2>1, <2>2, StepLink
\* Slots.
<1>5. ASSUME NEW s \in Slots, pipe'[s] = pipe[s] PROVE Descends(s)'
  <2>1. Descends(s) /\ SlotOK(pipe[s])
    BY <1>0 DEF RepairInv
  <2>2. /\ Busy(s) => pipe[s].task \in Task
        /\ pipe[s].pc \in Climbing \cup {"linking"} => pipe[s].target \in Task /\ Busy(s)
        /\ pipe[s].pc = "linking" => pipe[s].new \in Task
    BY <2>1 DEF SlotOK, Busy, Climbing
  <2>3. pipe[s].pc = "create" => pipe[s].pc \in Climbing
    BY DEF Climbing
  <2> QED BY <1>1, <1>5, <2>1, <2>2, <2>3 DEF Descends, Busy
<1>6. ASSUME NEW s \in Slots, pipe'[s].pc = "free" PROVE Descends(s)'
  BY <1>6 DEF Descends, Busy, Climbing
<1>7. ASSUME NEW s \in Slots, Dispatch(s) PROVE Descends(s)' /\ \A t \in handoff' : t \in handoff
  <2>1. PICK t \in handoff : handoff' = handoff \ {t} /\ pipe' = [pipe EXCEPT ![s] = Pipeline(t)]
    BY <1>7 DEF Dispatch
  <2>2. pipe'[s].pc = "execute" /\ pipe'[s].task = t
    BY <1>0, <2>1 DEF Pipeline, FreeSlot, PipeOK
  <2>3. status'[t] # "ABSENT"
    BY <1>0, <1>1 DEF RepairInv
  <2> QED BY <2>1, <2>2, <2>3 DEF Descends, Busy, Climbing
<1>8. ASSUME NEW s \in Slots, PipelineStep(s) PROVE Descends(s)'
  <2>1. Busy(s) /\ Descends(s) /\ SlotOK(pipe[s]) /\ SlotRepair(s)
    BY <1>0, <1>8, PipelineRuns, StepRepair DEF RepairInv
  <2>2. /\ pipe[s].task \in Task /\ status[pipe[s].task] # "ABSENT"
        /\ status'[pipe[s].task] # "ABSENT" /\ depth'[pipe[s].task] = depth[pipe[s].task]
    BY <1>1, <2>1 DEF Descends, SlotOK, Busy
  <2>3. pipe[s].pc \in Climbing =>
          /\ pipe[s].target \in Task /\ status[pipe[s].target] # "ABSENT"
          /\ depth[pipe[s].target] <= depth[pipe[s].task]
    BY <2>1 DEF Descends, SlotOK, Climbing
  <2>4. CASE pipe'[s].pc = "free"
    BY <1>6, <2>4
  <2>5. CASE pipe'[s].pc # "free" /\ pipe'[s].pc \notin Climbing /\ pipe'[s].pc # "linking"
    BY <2>1, <2>2, <2>5 DEF Descends, SlotRepair, Busy, Climbing
  <2>6. CASE pipe'[s].pc \in Climbing
    <3>1. pipe'[s].task = pipe[s].task /\ pipe'[s].pc # "linking"
      BY <2>1, <2>6 DEF SlotRepair, Climbing
    <3> DEFINE f == pipe'[s].target
    <3>2. f \in Task /\ status[f] # "ABSENT" /\ depth[f] <= depth[pipe[s].task]
      <4>1. CASE f = pipe[s].task
        BY <1>0, <2>2, <4>1
      <4>2. CASE pipe[s].pc \in Climbing /\ f = pipe[s].target
        BY <2>3, <4>2
      <4>3. CASE pipe[s].pc \in Climbing /\ link[pipe[s].target] # NoTask /\ f = link[pipe[s].target]
        <5>1. f \in Task /\ status[f] # "ABSENT" /\ depth[f] < depth[pipe[s].target]
          BY <1>0, <2>3, <4>3 DEF RepairInv, TaskOrNone
        <5> QED BY <1>0, <2>2, <2>3, <4>3, <5>1
      <4> QED BY <2>1, <2>6, <4>1, <4>2, <4>3 DEF SlotRepair
    <3>3. pipe'[s].pc = "create" => depth'[pipe[s].task] < MaxRepairDepth
      BY <2>1, <2>2 DEF SlotRepair
    <3>4. status'[f] # "ABSENT" /\ depth'[f] <= depth'[pipe[s].task]
      BY <1>1, <2>2, <3>2
    <3> QED BY <2>2, <3>1, <3>3, <3>4 DEF Descends
  <2>7. CASE pipe'[s].pc = "linking"
    <3>1. /\ pipe[s].pc = "create" /\ pipe'[s].target = pipe[s].target
          /\ pipe'[s].task = pipe[s].task /\ pipe'[s].new \in Task
          /\ status'[pipe'[s].new] # "ABSENT" /\ depth'[pipe'[s].new] = depth[pipe[s].task] + 1
      BY <2>1, <2>7 DEF SlotRepair
    <3>2. depth[pipe[s].task] < MaxRepairDepth /\ pipe[s].pc \in Climbing
      BY <2>1, <3>1 DEF Descends, Climbing
    <3>3. status'[pipe[s].target] # "ABSENT" /\ depth'[pipe[s].target] <= depth[pipe[s].task]
      BY <1>1, <2>3, <3>2
    <3>4. depth[pipe[s].task] \in Nat /\ depth'[pipe[s].target] \in Nat
      BY <1>0, <1>1, <2>2, <2>3, <3>2
    <3>5. /\ depth'[pipe[s].target] < depth'[pipe'[s].new]
          /\ depth'[pipe'[s].new] <= MaxRepairDepth
      BY <3>1, <3>2, <3>3, <3>4, DepthAssumption
    <3> QED BY <2>2, <2>7, <3>1, <3>3, <3>5 DEF Descends, Climbing
  <2> QED BY <2>4, <2>5, <2>6, <2>7
<1>9. \A s \in Slots : Descends(s)'
  <2>1. CASE pipe' = pipe
    BY <1>5, <2>1
  <2>2. CASE \A s \in Slots : pipe'[s].pc = "free"
    BY <1>6, <2>2
  <2>3. ASSUME NEW s \in Slots, Dispatch(s) \/ PipelineStep(s) PROVE \A r \in Slots : Descends(r)'
    <3>1. \A r \in Slots : r # s => pipe'[r] = pipe[r]
      BY <1>0, <2>3, OtherSlots DEF Dispatch, PipeOK
    <3>2. Descends(s)'
      BY <1>7, <1>8, <2>3
    <3> QED BY <1>5, <3>1, <3>2
  <2> QED BY <2>1, <2>2, <2>3, StepOfSlots
\* Tasks handed out.
<1>10. \A t \in handoff' : status'[t] # "ABSENT"
  <2>1. CASE handoff' \subseteq handoff
    BY <1>0, <1>1, <2>1 DEF RepairInv
  <2>2. CASE Claim
    BY <2>2 DEF Claim, Shape, TypeOK
  <2> QED BY <2>1, <2>2, StepHandoff
<1> QED BY <1>4, <1>9, <1>10 DEF RepairInv

LEMMA RepairsInv == Spec => [](Shape /\ LinkInv /\ RepairInv)
<1>1. Init => Shape /\ LinkInv /\ RepairInv
  <2>1. Init => LinkInv /\ RepairInv
    BY DEF Init, LinkInv, RepairInv, Descends, Busy, FreeSlot, Climbing
  <2> QED BY <2>1, InitShape
<1> QED BY <1>1, ShapeStep, LinkStep, RepairStep, PTL DEF Spec

\* No chain of failing repairs goes beyond maxRepairDepth, with any number of
\* goroutines creating repairs, re-plans and users at once, and whatever titles
\* the planner gave (service_repair.go:58-84).
THEOREM RepairDepthBounded == Spec => []RepairsBounded
<1>1. RepairInv => RepairsBounded
  BY DEF RepairInv, RepairsBounded
<1> QED BY <1>1, RepairsInv, PTL

\* A repair is of a greater depth than the task it is linked to, with goroutines
\* that link, retry and abort in any order: links have no cycle and no chain of
\* them is longer than maxRepairDepth, so that walks along them end by
\* themselves (service_repair.go:121-230).
THEOREM RepairLinksDescend == Spec => []RepairsDescend
<1>1. RepairInv => RepairsDescend
  BY DEF RepairInv, RepairsDescend
<1> QED BY <1>1, RepairsInv, PTL

-----------------------------------------------------------------------------
(***************************************************************************)
(* What becomes DONE.                                                      *)
(***************************************************************************)

\* The three ways a task becomes DONE.
LEMMA StepDone ==
  ASSUME Shape, [Next]_vars
  PROVE  /\ approved \subseteq approved'
         /\ \A t \in Task : status'[t] = "DONE" =>
              \/ status[t] = "DONE"
              \/ t \in approved'
              \/ \E s \in Slots : pipe[s].pc = "crediting" /\ t = link[pipe[s].target]
              \/ \E s \in Slots : pipe[s].pc = "superseding" /\ t \in pipe[s].todo
<1>0. status \in StatusType
  BY DEF Shape, TypeOK, StatusType
<1> DEFINE Undone == \A t \in Task : status'[t] = "DONE" => status[t] = "DONE"
<1>t. ASSUME NEW u, NEW to, to # "DONE", TransitionTask(u, to) PROVE Undone
  BY <1>0, <1>t DEF TransitionTask, StatusType
<1>c. ASSUME NEW n, NEW d, CreateTask(n, d) PROVE Undone
  BY <1>0, <1>c DEF CreateTask, StatusType
<1>1. CASE UNCHANGED vars \/ RunStart \/ Crash
  BY <1>1 DEF vars, RunStart, Crash, store
<1>2. CASE UserStep
  <2>1. approved' = approved
    BY <1>2 DEF UserStep, RetryTask, Approve, RejectRead, RejectApply, store
  <2>2. Undone
    BY <1>2, <1>t DEF UserStep, RetryTask, Approve, RejectRead, RejectApply, store
  <2> QED BY <2>1, <2>2
<1>5. CASE PlanStep
  <2>1. approved' = approved
    BY <1>5, PlanFrame
  <2>2. Undone
    BY <1>5, <1>t, <1>c DEF PlanStep, PlanCreate, PlanDepend, PlanQueue, PlanStops, store
  <2> QED BY <2>1, <2>2
<1>3. CASE RunLoop
  <2>1. approved' = approved
    BY <1>3 DEF RunLoop, Top, ListReady, Claim, Dispatch, Drained, Return, ContinueAfterFailure,
       RunFails, BlockList, BlockOne, CheckComplete, FinalReview, DeltaCreate, DeltaQueue,
       CompleteProject, store
  <2>2. CASE Claim
    BY <1>0, <2>1, <2>2 DEF Claim, StatusType
  <2>3. CASE BlockOne \/ DeltaCreate \/ DeltaQueue
    BY <2>1, <2>3, <1>t, <1>c DEF BlockOne, DeltaCreate, DeltaQueue
  <2>4. CASE ~Claim /\ ~BlockOne /\ ~DeltaCreate /\ ~DeltaQueue
    <3>1. status' = status
      BY <1>3, <2>4 DEF RunLoop, Top, ListReady, Dispatch, Drained, Return, ContinueAfterFailure,
         RunFails, BlockList, CheckComplete, FinalReview, CompleteProject, store
    <3> QED BY <2>1, <3>1
  <2> QED BY <2>2, <2>3, <2>4
<1>4. ASSUME NEW s \in Slots, PipelineStep(s)
      PROVE  /\ approved \subseteq approved'
             /\ \A t \in Task : status'[t] = "DONE" =>
                  \/ status[t] = "DONE"
                  \/ t \in approved'
                  \/ pipe[s].pc = "crediting" /\ t = link[pipe[s].target]
                  \/ pipe[s].pc = "superseding" /\ t \in pipe[s].todo
  <2>1. CASE Execute(s) \/ StartTest(s) \/ Test(s)
    <3>1. Undone
      BY <2>1, <1>t DEF Execute, StartTest, Test
    <3> QED BY <2>1, <3>1 DEF Execute, StartTest, Test
  <2>2. CASE Review(s)
    BY <1>0, <2>2 DEF Review, TransitionTask, StatusType
  <2>3. CASE MarkFailed(s) \/ CreateFix(s) \/ QueueFix(s) \/ ReplanCreate(s) \/ ReplanQueue(s)
    <3>1. Undone
      BY <2>3, <1>t, <1>c DEF MarkFailed, CreateFix, QueueFix, ReplanCreate,
         ReplanQueue
    <3> QED BY <2>3, <3>1 DEF MarkFailed, CreateFix, QueueFix, ReplanCreate, ReplanQueue
  <2>4. CASE CreditDone(s)
    BY <1>0, <2>4 DEF CreditDone, At, TransitionTask, StatusType
  <2>5. CASE SupersedeOne(s)
    BY <1>0, <2>5 DEF SupersedeOne, At, TransitionTask, StatusType
  <2>6. CASE StageErrors(s) \/ ReadFailed(s) \/ FindRoot(s) \/ LinkFix(s) \/ ReplanStart(s)
             \/ Credit(s)
             \/ SupersedeList(s) \/ PipelineAborts(s)
    BY <2>6 DEF StageErrors, ReadFailed, FindRoot, LinkFix, ReplanStart, Credit, SupersedeList,
       PipelineAborts, store
  <2> QED BY <1>4, <2>1, <2>2, <2>3, <2>4, <2>5, <2>6 DEF PipelineStep
<1> QED BY <1>1, <1>2, <1>3, <1>4, <1>5 DEF Next, UserStep

LEMMA CreditStep == ASSUME Shape, LinkInv, CreditInv, [Next]_vars PROVE CreditInv'
<1>0. /\ PipeOK /\ CreditOK /\ link \in [Task -> TaskOrNone]
      /\ \A s \in Slots : SlotOK(pipe[s])
  BY DEF Shape, TypeOK, PipeOK, SlotType
<1>1. \A t \in Task : link[t] # NoTask => link'[t] = link[t]
  BY LinkStep
<1>2. EarnedTasks \subseteq EarnedTasks'    \* what was earned stays earned
  <2> SUFFICES ASSUME NEW t \in Task, Earned(t),
                      NEW S \in SUBSET Task, approved' \subseteq S, Closed(S)'
               PROVE  t \in S
    BY DEF EarnedTasks, Earned
  <2>1. approved \subseteq S
    BY StepDone
  <2>2. Closed(S)
    BY <1>1 DEF Closed
  <2> QED BY <2>1, <2>2 DEF Earned
<1>3. approved' \cap Task \subseteq EarnedTasks'
  BY DEF EarnedTasks, Earned
\* What the goroutines will credit.
<1>4. ASSUME NEW s \in Slots, pipe[s].pc = "crediting"
      PROVE  link[pipe[s].target] \in EarnedTasks
  BY <1>0, <1>4, EarnedLink DEF CreditInv, CreditOK
<1>5. ASSUME NEW s \in Slots, pipe[s].pc = "supersede"
      PROVE  /\ pipe[s].target \in EarnedTasks
             /\ \A t \in Task : link[t] = pipe[s].target => t \in EarnedTasks
             /\ \E r \in EarnedTasks : link[r] = pipe[s].target /\ link[r] # NoTask
  <2>1. PICK r \in EarnedTasks : link[r] = pipe[s].target
    BY <1>5 DEF CreditInv
  <2>2. link[r] # NoTask
    BY <1>0, <1>5, <2>1 DEF SlotOK, Task, NoTask
  <2> QED BY <1>0, <2>1, <2>2, EarnedLink
<1>6. DoneIsEarned'
  <2>1. \A t \in Task : status'[t] = "DONE" => t \in EarnedTasks'
    <3> SUFFICES ASSUME NEW t \in Task, status'[t] = "DONE" PROVE t \in EarnedTasks'
      OBVIOUS
    <3>1. status[t] = "DONE" => t \in EarnedTasks
      BY DEF CreditInv, DoneIsEarned, EarnedTasks
    <3> QED BY <1>2, <1>3, <1>4, <3>1, StepDone DEF CreditInv
  <2> QED BY <2>1 DEF DoneIsEarned, EarnedTasks
\* The part of CreditInv about one slot.
<1> DEFINE
  Slot(s) ==
    /\ pipe[s].pc \in {"credit", "crediting"} => pipe[s].target \in EarnedTasks
    /\ pipe[s].pc = "supersede" => \E r \in EarnedTasks : link[r] = pipe[s].target
    /\ pipe[s].pc = "superseding" =>
         pipe[s].target \in EarnedTasks /\ pipe[s].todo \subseteq EarnedTasks
<1>7. ASSUME NEW s \in Slots, pipe'[s] = pipe[s] PROVE Slot(s)'
  <2>1. pipe[s].pc \in {"credit", "crediting"} => pipe[s].target \in EarnedTasks'
    BY <1>2 DEF CreditInv
  <2>2. pipe[s].pc = "supersede" => \E r \in EarnedTasks' : link'[r] = pipe[s].target
    BY <1>1, <1>2, <1>5 DEF EarnedTasks
  <2>3. pipe[s].pc = "superseding" =>
          pipe[s].target \in EarnedTasks' /\ pipe[s].todo \subseteq EarnedTasks'
    BY <1>2 DEF CreditInv
  <2> QED BY <1>7, <2>1, <2>2, <2>3
<1>8. ASSUME NEW s \in Slots, pipe'[s].pc \in {"free", "execute"} PROVE Slot(s)'
  BY <1>8
<1>9. ASSUME NEW s \in Slots, PipelineStep(s) PROVE Slot(s)'
  <2>0. pipe'[s].pc \in {"credit", "crediting"} => pipe'[s].target \in Task
    BY ShapeStep DEF Shape, SlotOK
  <2>1. pipe'[s].pc \in {"credit", "crediting"} => pipe'[s].target \in EarnedTasks'
    <3>1. pipe[s].pc \in {"credit", "superseding", "supersede"} => pipe[s].target \in EarnedTasks
      BY <1>5 DEF CreditInv
    <3>2. pipe[s].pc = "credit" /\ link[pipe[s].target] # NoTask =>
            link[pipe[s].target] \in EarnedTasks
      BY <1>0, <3>1, EarnedLink
    <3> QED BY <1>2, <1>3, <1>9, <2>0, <3>1, <3>2, StepCredit DEF SlotCredit
  <2>2. pipe'[s].pc = "supersede" => \E r \in EarnedTasks' : link'[r] = pipe'[s].target
    <3> SUFFICES ASSUME pipe'[s].pc = "supersede"
                 PROVE  \E r \in EarnedTasks' : link'[r] = pipe'[s].target
      OBVIOUS
    <3>1. pipe[s].pc = "crediting" /\ pipe'[s].target = link[pipe[s].target]
      BY <1>9, StepCredit DEF SlotCredit
    <3>2. pipe[s].target \in EarnedTasks /\ link[pipe[s].target] # NoTask
      BY <1>0, <3>1 DEF CreditOK, CreditInv
    <3> QED BY <1>1, <1>2, <3>1, <3>2 DEF EarnedTasks
  <2>3. pipe'[s].pc = "superseding" =>
          pipe'[s].target \in EarnedTasks' /\ pipe'[s].todo \subseteq EarnedTasks'
    <3> SUFFICES ASSUME pipe'[s].pc = "superseding"
                 PROVE  pipe'[s].target \in EarnedTasks' /\ pipe'[s].todo \subseteq EarnedTasks'
      OBVIOUS
    <3>1. pipe'[s].target \in EarnedTasks /\ pipe'[s].todo \subseteq EarnedTasks
      BY <1>5, <1>9, StepCredit DEF SlotCredit, CreditInv
    <3> QED BY <1>2, <3>1
  <2> QED BY <2>1, <2>2, <2>3
<1>10. \A s \in Slots : Slot(s)'
  <2>1. CASE pipe' = pipe
    BY <1>7, <2>1
  <2>2. CASE \A s \in Slots : pipe'[s].pc = "free"
    BY <1>8, <2>2
  <2>3. ASSUME NEW s \in Slots, StartsSlot(s) \/ PipelineStep(s) PROVE \A r \in Slots : Slot(r)'
    <3>1. \A r \in Slots : r # s => pipe'[r] = pipe[r]
      BY <1>0, <2>3, OtherSlots DEF StartsSlot
    <3>2. Slot(s)'
      BY <1>8, <1>9, <2>3 DEF StartsSlot
    <3> HIDE DEF Slot
    <3> QED BY <1>7, <3>1, <3>2
  <2> HIDE DEF Slot
  <2> QED BY <2>1, <2>2, <2>3, StepSlots
<1> QED BY <1>6, <1>10 DEF CreditInv

\* No task is DONE but by a reviewer's approval: its own, that of a repair that
\* leads to it, or that of another repair of what it repairs
\* (service_repair.go:121-190).
THEOREM CompletionEarned == Spec => []DoneIsEarned
<1>1. Init => Shape /\ LinkInv /\ CreditInv
  <2>1. Init => LinkInv /\ CreditInv
    BY DEF Init, LinkInv, CreditInv, DoneIsEarned, FreeSlot
  <2> QED BY <2>1, InitShape
<1>2. CreditInv => DoneIsEarned
  BY DEF CreditInv
<1> QED BY <1>1, <1>2, ShapeStep, LinkStep, CreditStep, PTL DEF Spec
-----------------------------------------------------------------------------
(***************************************************************************)
(* The run keeps the contract of its tasks.                                *)
(***************************************************************************)

\* One task's status is written: along the state machine, or by its creation.
Turned(t, to) ==
  /\ to \notin {"IN_PROGRESS", "CANCELLED"}
  /\ status' = [status EXCEPT ![t] = to]
  /\ \/ to \in Status /\ CanTransition(status[t], to)
     \/ status[t] = "ABSENT" /\ to = "DRAFT"

LEMMA TransitionTurns ==
  ASSUME NEW t \in Task, NEW to \in Status \ {"IN_PROGRESS", "CANCELLED"}, TransitionTask(t, to)
  PROVE  \E u \in Task, st \in Status : Turned(u, st)
BY DEF TransitionTask, Turned

LEMMA CreateTurns ==
  ASSUME NEW n \in Task, NEW d, CreateTask(n, d)
  PROVE  \E u \in Task, st \in Status : Turned(u, st)
BY DEF CreateTask, Turned, Status

\* Except by a claim, a step writes the status of at most one task.
LEMMA StepTurns ==
  ASSUME Shape, [Next]_vars
  PROVE  Claim \/ status' = status \/ \E t \in Task, to \in Status : Turned(t, to)
<1>0. /\ LoopOK /\ CreditOK /\ PipeOK /\ run \in RunType /\ link \in [Task -> TaskOrNone]
      /\ \A s \in Slots : SlotOK(pipe[s])
  BY DEF Shape, TypeOK, PipeOK, SlotType, RunType
<1>s. {"READY", "BLOCKED", "IMPLEMENTED", "TESTING", "REVIEWING", "DONE", "NEED_USER_INPUT",
       "REVIEW_FAILED", "FAILED"} \subseteq Status \ {"IN_PROGRESS", "CANCELLED"}
  BY DEF Status
<1>1. CASE UNCHANGED vars
  BY <1>1 DEF vars
<1>2. CASE RunStart \/ Top \/ ListReady \/ (\E s \in Slots : Dispatch(s)) \/ Drained \/ Return
           \/ ContinueAfterFailure \/ RunFails \/ BlockList \/ CheckComplete \/ FinalReview
           \/ CompleteProject \/ Crash
  BY <1>2 DEF RunStart, Top, ListReady, Dispatch, Drained, Return, ContinueAfterFailure,
     RunFails, BlockList, CheckComplete, FinalReview, CompleteProject, Crash, store
<1>3. CASE BlockOne
  <2>1. run.todo \subseteq Task
    BY <1>0 DEF RunType
  <2> QED BY <1>3, <1>s, <2>1, TransitionTurns DEF BlockOne
<1>4. CASE DeltaQueue
  BY <1>0, <1>4, <1>s, TransitionTurns DEF DeltaQueue, LoopOK
<1>5. CASE DeltaCreate
  BY <1>5, CreateTurns DEF DeltaCreate
<1>6. CASE UserStep
  BY <1>6, <1>s, TransitionTurns DEF UserStep, RetryTask, Approve, RejectRead, RejectApply, store
<1>8. CASE PlanStep
  <2>1. planning.made \subseteq Task
    BY DEF Shape, TypeOK, BesideOK
  <2>2. CASE PlanCreate
    BY <2>2, CreateTurns DEF PlanCreate
  <2>3. CASE PlanQueue
    BY <1>s, <2>1, <2>3, TransitionTurns DEF PlanQueue
  <2>4. CASE PlanDepend \/ PlanStops
    BY <2>4 DEF PlanDepend, PlanStops, store
  <2> QED BY <1>8, <2>2, <2>3, <2>4 DEF PlanStep
<1>7. ASSUME NEW s \in Slots, PipelineStep(s)
      PROVE  status' = status \/ \E t \in Task, to \in Status : Turned(t, to)
  <2>0. pipe[s].pc # "free" => pipe[s].task \in Task
    BY <1>0 DEF SlotOK
  <2>1. CASE Execute(s) \/ StartTest(s) \/ Test(s) \/ Review(s) \/ MarkFailed(s)
    BY <1>s, <2>0, <2>1, TransitionTurns DEF Execute, StartTest, Test, Review, MarkFailed, At
  <2>2. CASE QueueFix(s) \/ ReplanQueue(s)
    BY <1>0, <1>s, <2>2, TransitionTurns DEF QueueFix, ReplanQueue, At, SlotOK
  <2>3. CASE CreditDone(s)
    <3>1. link[pipe[s].target] \in Task
      BY <1>0, <2>3 DEF CreditDone, At, CreditOK, SlotOK, TaskOrNone
    <3> QED BY <1>s, <2>3, <3>1, TransitionTurns DEF CreditDone
  <2>4. CASE SupersedeOne(s)
    <3>1. pipe[s].todo \subseteq Task
      BY <1>0 DEF PipeOK, SlotType
    <3> QED BY <1>s, <2>4, <3>1, TransitionTurns DEF SupersedeOne
  <2>5. CASE CreateFix(s) \/ ReplanCreate(s)
    BY <2>5, CreateTurns DEF CreateFix, ReplanCreate
  <2>6. CASE StageErrors(s) \/ ReadFailed(s) \/ FindRoot(s) \/ LinkFix(s) \/ ReplanStart(s)
             \/ Credit(s) \/ SupersedeList(s) \/ PipelineAborts(s)
    BY <2>6 DEF StageErrors, ReadFailed, FindRoot, LinkFix, ReplanStart, Credit, SupersedeList,
       PipelineAborts, store
  <2> QED BY <1>7, <2>1, <2>2, <2>3, <2>4, <2>5, <2>6 DEF PipelineStep
<1> QED
  BY <1>1, <1>2, <1>3, <1>4, <1>5, <1>6, <1>7, <1>8 DEF Next, RunLoop, UserStep

\* Only a review approves, the task it completes.
LEMMA StepApproved ==
  ASSUME Shape, [Next]_vars, approved' # approved
  PROVE  \E t \in Task : /\ status[t] \notin {"ABSENT"} /\ CanTransition(status[t], "DONE")
                         /\ status' = [status EXCEPT ![t] = "DONE"]
                         /\ approved' = approved \cup {t}
                         /\ UNCHANGED <<link, project>>
                         /\ UNCHANGED <<deps, early, late, run>>
<1>0. Next /\ \A s \in Slots : SlotOK(pipe[s])
  BY DEF vars, Shape
<1>1. ~UserStep /\ ~Crash /\ ~RunStart /\ ~PlanStep
  BY PlanFrame DEF UserStep, RetryTask, Approve, RejectRead, RejectApply, Crash, RunStart, store
<1>2. ~RunLoop
  BY DEF RunLoop, Top, ListReady, Claim, Dispatch, Drained, Return,
     ContinueAfterFailure, RunFails, BlockList, BlockOne, CheckComplete, FinalReview,
     DeltaCreate, DeltaQueue, CompleteProject, store
<1>3. PICK s \in Slots : PipelineStep(s)
  BY <1>0, <1>1, <1>2 DEF Next, UserStep
<1>4. Review(s)
  BY <1>3 DEF PipelineStep, Execute, StartTest, Test, StageErrors, ReadFailed,
     FindRoot, MarkFailed, CreateFix, LinkFix, QueueFix, ReplanStart, ReplanCreate, ReplanQueue,
     Credit, CreditDone, SupersedeList, SupersedeOne, PipelineAborts, store
<1>5. pipe[s].task \in Task
  BY <1>0, <1>4 DEF Review, At, SlotOK
<1> QED BY <1>4, <1>5 DEF Review, TransitionTask, CanTransition, Transitions, beside

\* The phase of the written task turns, and that of no other.
LEMMA PhaseTurns ==
  ASSUME status \in StatusType, NEW t \in Task, NEW to, status' = [status EXCEPT ![t] = to],
         NEW from, PhaseOf(status[t]) \in from
  PROVE  Contract!Turns(t, from, PhaseOf(to))
<1>1. \A u \in Task : status'[u] = IF u = t THEN to ELSE status[u]
  BY DEF StatusType
<1> DEFINE ph == [u \in Task |-> PhaseOf(status[u])]
           next == [ph EXCEPT ![t] = PhaseOf(to)]
<1>2. \A u \in Task : PhaseOf(status'[u]) = next[u]
  BY <1>1
<1>3. [u \in Task |-> PhaseOf(status'[u])] = next
  BY <1>2
<1>4. ph[t] \in from
  OBVIOUS
<1> QED BY <1>3, <1>4 DEF Contract!Turns

\* From where to where.
LEMMA PhaseSteps ==
  ASSUME NEW t \in Task, NEW to \in Status, Turned(t, to), status \in StatusType
  PROVE  \/ PhaseOf(to) = PhaseOf(status[t])
         \/ PhaseOf(status[t]) = "absent" /\ PhaseOf(to) = "open"
         \/ PhaseOf(status[t]) = "working" /\ PhaseOf(to) = "stuck"
         \/ PhaseOf(status[t]) \in {"working", "stuck"} /\ PhaseOf(to) = "open"
         \/ /\ PhaseOf(status[t]) \in {"working", "stuck"} /\ PhaseOf(to) = "done"
            /\ to = "DONE" /\ status[t] # "DONE"
<1>1. CASE status[t] = "ABSENT" /\ to = "DRAFT"
  BY <1>1 DEF PhaseOf, Complete
<1>2. CASE status[t] = to
  BY <1>2
<1>3. CASE <<status[t], to>> \in Transitions
  BY <1>3 DEF Turned, Transitions, PhaseOf, Complete
<1> QED BY <1>1, <1>2, <1>3 DEF Turned, CanTransition

\* What is earned is vouched for.
LEMMA EarnedIsVouched ==
  ASSUME link \in [Task -> TaskOrNone], NEW t \in EarnedTasks PROVE Contract!Vouched(t)
<1> SUFFICES ASSUME NEW S \in SUBSET Task, approved \subseteq S, Contract!Closed(S) PROVE t \in S
  BY DEF Contract!Vouched
<1> DEFINE R == {p \in Task \X Task : link[p[1]] = p[2]}
<1>1. ASSUME NEW u \in S, link[u] # NoTask
      PROVE  link[u] \in S /\ \A v \in Task : link[v] = link[u] => v \in S
  <2>1. link[u] \in Task /\ u \in Task
    BY <1>1 DEF TaskOrNone
  <2>2. <<u, link[u]>> \in R
    BY <2>1
  <2>3. link[u] \in S /\ \A q \in R : q[2] = link[u] => q[1] \in S
    BY <2>2 DEF Contract!Closed
  <2>4. ASSUME NEW v \in Task, link[v] = link[u] PROVE v \in S
    <3>1. <<v, link[u]>> \in R
      BY <2>1, <2>4
    <3> QED BY <2>3, <3>1
  <2> QED BY <2>3, <2>4
<1>2. Closed(S)
  BY <1>1 DEF Closed
<1> QED BY <1>2 DEF EarnedTasks, Earned

LEMMA ContractInit == ASSUME Init PROVE Contract!Init
<1>1. \A t \in Task : PhaseOf(status[t]) \in {"absent", "open"}
  BY DEF Init, PhaseOf, Complete
<1>2. deps \subseteq Task \X Task
  BY InitShape DEF Shape, TypeOK
<1>3. \A p \in Task \X Task : link[p[1]] # p[2]
  BY DEF Init, Task, NoTask
<1>4. ~FoundComplete
  BY DEF Init, IdleRun, FoundComplete
<1> QED BY <1>1, <1>2, <1>3, <1>4 DEF Init, Contract!Init

\* A new repair is linked to what it repairs.
LEMMA LinkKeeps ==
  ASSUME Shape, LinkInv, NEW s \in Slots, pipe[s].pc = "linking", LinkFix(s)
  PROVE  \E t, r \in Task : Contract!Link(t, r)
<1> DEFINE R == {p \in Task \X Task : link[p[1]] = p[2]}
<1>p. PICK t \in Task, r \in Task : t = pipe[s].new /\ r = pipe[s].target
  BY DEF Shape, SlotOK
<1>0. /\ link \in [Task -> TaskOrNone] /\ link[t] = NoTask
      /\ status[t] # "ABSENT" /\ status[t] \in Status \cup {"ABSENT"}
  BY <1>p DEF Shape, TypeOK, LinkInv
<1>1. /\ link' = [link EXCEPT ![t] = r]
      /\ UNCHANGED <<status, deps, approved, project, early, late, FoundComplete>>
  BY <1>p DEF LinkFix, beside, FoundComplete
<1>2. NoTask \notin Task
  BY DEF Task, NoTask
<1>3. R' = R \cup {<<t, r>>}
  BY <1>0, <1>1, <1>2
<1>4. \A p \in R : p[1] # t
  BY <1>0, <1>2
<1>5. PhaseOf(status[t]) # "absent"
  BY <1>0 DEF PhaseOf, Status, Complete
<1>6. Contract!Link(t, r)
  BY <1>0, <1>1, <1>3, <1>4, <1>5 DEF Contract!Link
<1> QED BY <1>6

\* The looks at the whole project, and what comes after them.
LEMMA StepLook ==
  ASSUME Shape, Control, Reviewing, [Next]_vars
  PROVE  \/ UNCHANGED <<FoundComplete, late>>
         \/ CheckComplete /\ AllComplete
         \/ Crash \/ RunFails \/ FinalReview \/ CompleteProject \/ PlanCreate
<1>0. run \in RunType
  BY DEF Shape, TypeOK, RunType
<1>i. IdleRun.pc = "idle"
  BY DEF IdleRun
<1>a. ASSUME run' = run, late' = late PROVE UNCHANGED <<FoundComplete, late>>
  BY <1>a DEF FoundComplete
<1>b. ASSUME run.pc \notin {"review", "complete"}, run'.pc \notin {"review", "complete"}, late' = late
      PROVE  UNCHANGED <<FoundComplete, late>>
  BY <1>b DEF FoundComplete
<1>1. CASE UNCHANGED vars
  BY <1>1, <1>a DEF vars
<1>2. CASE UserStep
  BY <1>2, <1>a DEF UserStep, RetryTask, Approve, RejectRead, RejectApply, memory, beside
<1>3. CASE PlanDepend \/ PlanQueue \/ PlanStops
  BY <1>3, <1>a DEF PlanDepend, PlanQueue, PlanStops, memory
<1>4. ASSUME NEW s \in Slots, PipelineStep(s) PROVE UNCHANGED <<FoundComplete, late>>
  <2>1. Busy(s) /\ late' = late
    BY <1>4, PipelineRuns, PipelineBeside DEF beside
  <2>2. run.pc \notin {"review", "complete"}
    BY <2>1 DEF Control, AllFree, FinalPC
  <2>3. ASSUME NEW ok \in BOOLEAN, PipelineEnds(s, ok) PROVE run'.pc \in {run.pc, "top", "failed"}
    BY <1>0, <2>3 DEF PipelineEnds, RunType
  <2> QED BY <1>4, <1>b, <2>1, <2>2, <2>3, PipelineRuns
<1>5. CASE CheckComplete /\ ~AllComplete
  BY <1>b, <1>i, <1>5 DEF CheckComplete, beside
<1>6. CASE RunStart \/ Top \/ ListReady \/ Claim \/ \E s \in Slots : Dispatch(s)
  <2>1. late' = late /\ run.pc \notin {"review", "complete"}
    BY <1>6 DEF RunStart, Top, ListReady, Claim, Dispatch, FirstAttempt, beside
  <2>2. CASE RunStart \/ Top
    BY <1>0, <1>b, <1>i, <2>1, <2>2 DEF RunStart, IdleRun, Top, RunType
  <2>3. CASE ListReady
    BY <1>0, <1>b, <2>1, <2>3 DEF ListReady, NothingToClaim, RunType
  <2>4. CASE Claim
    BY <1>0, <1>b, <2>1, <2>4 DEF Claim, NothingToClaim, RunType
  <2>5. ASSUME NEW s \in Slots, Dispatch(s) PROVE run'.pc \in {"wait", "top", "dispatch"}
    BY <1>0, <2>5 DEF Dispatch, RunType
  <2> QED BY <1>6, <1>b, <2>1, <2>2, <2>3, <2>4, <2>5
<1>7. CASE Drained \/ Return \/ ContinueAfterFailure \/ BlockList \/ BlockOne
  <2>1. late' = late /\ run.pc \notin {"review", "complete"}
    BY <1>7 DEF Drained, Return, ContinueAfterFailure, BlockList, BlockOne, beside
  <2>2. run'.pc \in {"relist", "idle", "top", "check", "blocking"}
    BY <1>0, <1>i, <1>7 DEF Drained, Return, ContinueAfterFailure, BlockList, BlockOne, RunType
  <2> QED BY <1>b, <2>1, <2>2
<1>8. CASE DeltaCreate \/ DeltaQueue
  <2>1. late' = late /\ run.pc \notin {"review", "complete"}
    BY <1>8 DEF DeltaCreate, DeltaQueue, beside
  <2>2. run'.pc \in {"delta_queue", "top", "delta"}
    BY <1>0, <1>8 DEF DeltaCreate, DeltaQueue, RunType
  <2> QED BY <1>b, <2>1, <2>2
<1> QED
  BY <1>1, <1>2, <1>3, <1>4, <1>5, <1>6, <1>7, <1>8 DEF Next, RunLoop, UserStep, PlanStep

\* Between a look that found everything complete and the end, only a plan
\* beside the run creates tasks.
LEMMA StepCreates ==
  ASSUME Shape, Control, [Next]_vars, NEW t \in Task, status[t] = "ABSENT", status'[t] # "ABSENT"
  PROVE  PlanCreate \/ ~FoundComplete
<1>0. status \in StatusType
  BY DEF Shape, TypeOK, StatusType
<1>1. status' # status
  OBVIOUS
<1>2. ~UserStep /\ ~PlanQueue
  <2>1. ~Moves(t)
    BY DEF Moves, Transitions
  <2>2. ASSUME UserStep PROVE FALSE
    BY <1>0, <1>1, <2>1, <2>2, TransitionMoves
       DEF UserStep, RetryTask, Approve, RejectRead, RejectApply, store
  <2>3. ASSUME PlanQueue PROVE FALSE
    BY <1>0, <1>1, <2>1, <2>3, TransitionMoves DEF PlanQueue
  <2> QED BY <2>2, <2>3
<1>3. ~RunStart /\ ~Crash /\ ~PlanDepend /\ ~PlanStops /\ Next
  BY <1>1 DEF RunStart, Crash, PlanDepend, PlanStops, store, vars
<1>4. ASSUME NEW s \in Slots, PipelineStep(s) PROVE ~FoundComplete
  <2>1. Busy(s)
    BY <1>4, PipelineRuns
  <2> QED BY <2>1 DEF Control, AllFree, FinalPC, FoundComplete
<1>5. CASE RunLoop
  BY <1>1, <1>5 DEF RunLoop, Top, ListReady, Claim, Dispatch, Drained, Return,
     ContinueAfterFailure, RunFails, BlockList, BlockOne, CheckComplete, FinalReview,
     DeltaCreate, DeltaQueue, CompleteProject, store, FoundComplete
<1> QED BY <1>2, <1>3, <1>4, <1>5 DEF Next, PlanStep, UserStep

LEMMA ContractStep ==
  ASSUME Shape, Control, DepsInv, LinkInv, CreditInv, Reviewing, [Next]_vars
  PROVE  [Contract!Next]_(Contract!vars)
<1>0. status \in StatusType /\ link \in [Task -> TaskOrNone]
  BY DEF Shape, TypeOK, StatusType
<1> DEFINE Kept == UNCHANGED <<link, approved, project>>
           Planned == UNCHANGED <<deps, early>>
           Looking == UNCHANGED <<FoundComplete, late>>
<1>1. CASE CheckComplete /\ AllComplete
  <2>1. \A t \in Task : PhaseOf(status[t]) \in {"absent", "done"}
    BY <1>1 DEF AllComplete, PhaseOf, Complete
  <2>2. run \in RunType /\ run.pc = "check"
    BY <1>1 DEF CheckComplete, Shape, TypeOK, RunType
  <2>3. run' = [run EXCEPT !.pc = "review"]
    BY <1>1 DEF CheckComplete
  <2>4. FoundComplete' /\ ~FoundComplete
    BY <2>2, <2>3 DEF FoundComplete, RunType
  <2>5. late' = {}
    BY <1>1, <2>4 DEF CheckComplete, beside, Reviewing
  <2>6. Kept /\ status' = status /\ Planned
    BY <1>1 DEF CheckComplete, store, beside
  <2>7. Contract!Look
    BY <2>1, <2>4, <2>5, <2>6 DEF Contract!Look
  <2> QED BY <2>7 DEF Contract!Next
<1>2. CASE Crash \/ RunFails \/ FinalReview
  <2>1. Kept /\ status' = status /\ Planned
    BY <1>2 DEF Crash, RunFails, FinalReview, store
  <2>2. run \in RunType
    BY DEF Shape, TypeOK, RunType
  <2>3. \/ late' = {} /\ ~FoundComplete'
        \/ Looking
    <3>0. IdleRun.pc = "idle"
      BY DEF IdleRun
    <3>1. CASE Crash \/ RunFails
      <4>1. late' = {} /\ run'.pc \in {"idle", "stop", "failed"}
        BY <2>2, <3>0, <3>1 DEF Crash, RunFails, RunType
      <4> QED BY <4>1 DEF FoundComplete
    <3>2. CASE FinalReview
      <4>1. run.pc = "review"
        BY <3>2 DEF FinalReview
      <4>2. \/ late' = late /\ run'.pc = "complete"
            \/ late' = {} /\ run'.pc \in {"idle", "delta"}
        <5>1. \/ late' = late /\ run' = [run EXCEPT !.pc = "complete"]
              \/ late' = {} /\ run' = IdleRun
              \/ late' = {} /\ \E n \in 1..MaxDelta : run' = [run EXCEPT !.pc = "delta", !.left = n]
          BY <3>2 DEF FinalReview
        <5> QED BY <2>2, <3>0, <5>1 DEF RunType
      <4>3. CASE late' = late /\ run'.pc = "complete"
        <5>1. FoundComplete /\ FoundComplete'
          BY <4>1, <4>3 DEF FoundComplete
        <5>2. FoundComplete' = FoundComplete
          BY <5>1 DEF FoundComplete
        <5> QED BY <4>3, <5>2
      <4>4. CASE late' = {} /\ run'.pc \in {"idle", "delta"}
        BY <4>4 DEF FoundComplete
      <4> QED BY <4>2, <4>3, <4>4
    <3> QED BY <1>2, <3>1, <3>2
  <2>4. CASE late' = {} /\ ~FoundComplete'
    <3>1. Contract!LookAway
      BY <2>1, <2>4 DEF Contract!LookAway
    <3> QED BY <3>1 DEF Contract!Next
  <2>5. CASE Looking
    BY <2>1, <2>5 DEF Contract!vars
  <2> QED BY <2>3, <2>4, <2>5
<1>3. CASE CompleteProject
  <2>1. FoundComplete /\ ~FoundComplete' /\ late' = {}
    BY <1>3 DEF CompleteProject, FoundComplete, IdleRun
  <2>2. \A t \in Task \ late : PhaseOf(status[t]) \in {"absent", "done"}
    BY <2>1 DEF Reviewing, Settled, PhaseOf, Complete
  <2>3. Contract!Finish
    BY <1>3, <2>1, <2>2 DEF CompleteProject, Contract!Finish
  <2> QED BY <2>3 DEF Contract!Next
<1>4. CASE PlanCreate
  <2>1. PICK n \in Task : /\ status[n] = "ABSENT"
                          /\ status' = [status EXCEPT ![n] = "DRAFT"]
                          /\ late' = IF FoundComplete THEN late \cup {n} ELSE late
    BY <1>4 DEF PlanCreate, CreateTask
  <2>2. Kept /\ Planned /\ run' = run
    BY <1>4 DEF PlanCreate, memory
  <2>3. PhaseOf(status[n]) = "absent" /\ PhaseOf("DRAFT") = "open"
    BY <2>1 DEF PhaseOf, Complete
  <2>4. Contract!Turns(n, {"absent"}, "open")
    BY <1>0, <2>1, <2>3, PhaseTurns
  <2>5. FoundComplete' = FoundComplete
    BY <2>2 DEF FoundComplete
  <2>6. Contract!Add(n)
    BY <2>1, <2>2, <2>4, <2>5 DEF Contract!Add
  <2> QED BY <2>6 DEF Contract!Next
<1>5. CASE PlanDepend
  <2>1. PICK t \in planning.made, d \in planning.made :
          /\ deps' = deps \cup {<<t, d>>}
          /\ early' = IF status[t] \in {"DRAFT", "BLOCKED"} /\ t \notin run.cand
                      THEN early ELSE early \cup {t}
    BY <1>5 DEF PlanDepend
  <2>2. planning.made \subseteq Task
    BY DEF Shape, TypeOK, BesideOK
  <2>3. Kept /\ status' = status /\ run' = run /\ late' = late
    BY <1>5 DEF PlanDepend, memory
  <2>4. Looking
    BY <2>3 DEF FoundComplete
  <2>5. PhaseOf(status[t]) = "open" \/ t \in early'
    <3>1. status[t] \in {"DRAFT", "BLOCKED"} => PhaseOf(status[t]) = "open"
      BY DEF PhaseOf, Complete
    <3> QED BY <2>1, <3>1
  <2>6. early' \in {early, early \cup {t}}
    BY <2>1
  <2>7. Contract!Need(t, d)
    <3>1. [u \in Task |-> PhaseOf(status[u])][t] = PhaseOf(status[t])
      BY <2>2
    <3>2. UNCHANGED <<[u \in Task |-> PhaseOf(status[u])],
                      {p \in Task \X Task : link[p[1]] = p[2]}, project = "COMPLETED">>
      BY <2>3
    <3> QED BY <2>1, <2>3, <2>4, <2>5, <2>6, <3>1, <3>2 DEF Contract!Need
  <2> QED BY <2>2, <2>7 DEF Contract!Next
<1>6. ASSUME Planned, Looking, ~CompleteProject, ~PlanCreate
      PROVE  [Contract!Next]_(Contract!vars)
  <2>1. CASE approved' # approved
    <3>1. PICK t \in Task : /\ status[t] # "ABSENT" /\ CanTransition(status[t], "DONE")
                            /\ status' = [status EXCEPT ![t] = "DONE"]
                            /\ approved' = approved \cup {t}
                            /\ UNCHANGED <<link, project>>
                            /\ UNCHANGED <<deps, early, late, run>>
      BY <2>1, StepApproved
    <3>2. PhaseOf(status[t]) \in {"working", "stuck", "done"} /\ PhaseOf("DONE") = "done"
      BY <3>1 DEF CanTransition, Transitions, PhaseOf, Complete
    <3>3. Contract!Turns(t, {"working", "stuck", "done"}, "done")
      BY <1>0, <3>1, <3>2, PhaseTurns
    <3>4. Contract!Approve(t)
      BY <1>0, <1>6, <3>1, <3>3 DEF Contract!Approve
    <3> QED BY <3>4 DEF Contract!Next
  <2>2. CASE link' # link
    <3>1. PICK s \in Slots : pipe[s].pc = "linking" /\ LinkFix(s)
      BY <2>2, StepLink
    <3> QED BY <3>1, LinkKeeps DEF Contract!Next
  <2>3. CASE approved' = approved /\ link' = link
    <3> DEFINE Same == Kept /\ Planned /\ Looking
    <3>0. Same
      BY <1>6, <2>3, StepProject
    <3>1. CASE status' = status
      BY <3>0, <3>1 DEF Contract!vars
    <3>2. CASE Claim
      <4> DEFINE S == {t \in run.cand : status[t] = "READY"}
      <4>1. S \subseteq Task /\ status' = [t \in Task |-> IF t \in S THEN "IN_PROGRESS" ELSE status[t]]
        BY <3>2 DEF Claim, Shape, TypeOK
      <4>2. \A t \in S : PhaseOf(status[t]) = "open"
        BY DEF PhaseOf, Complete
      <4>3. ASSUME NEW t \in S \ early, NEW d \in Task, <<t, d>> \in deps PROVE PhaseOf(status[d]) = "done"
        <5>1. status[d] = "DONE"
          BY <4>3 DEF DepsInv, DepsDone
        <5> QED BY <5>1 DEF PhaseOf, Complete
      <4>4. \A t \in Task : PhaseOf(status'[t]) = IF t \in S THEN "working" ELSE PhaseOf(status[t])
        <5>1. PhaseOf("IN_PROGRESS") = "working"
          BY DEF PhaseOf, Complete
        <5> QED BY <4>1, <5>1
      <4> HIDE DEF S
      <4>5. Contract!Start(S)
        BY <3>0, <4>1, <4>2, <4>3, <4>4 DEF Contract!Start
      <4> QED BY <4>1, <4>5 DEF Contract!Next
    <3>3. ASSUME NEW t \in Task, NEW to \in Status, Turned(t, to) PROVE [Contract!Next]_(Contract!vars)
      <4>0. status' = [status EXCEPT ![t] = to]
        BY <3>3 DEF Turned
      <4>1. CASE PhaseOf(to) = PhaseOf(status[t])
        <5>1. \A u \in Task : PhaseOf(status'[u]) = PhaseOf(status[u])
          BY <1>0, <4>0, <4>1 DEF StatusType
        <5> QED BY <3>0, <5>1 DEF Contract!vars
      <4>2. CASE PhaseOf(status[t]) = "absent" /\ PhaseOf(to) = "open"
        <5>1. Contract!Turns(t, {"absent"}, "open")
          BY <1>0, <4>0, <4>2, PhaseTurns
        <5>2. status[t] = "ABSENT" /\ status'[t] # "ABSENT"
          <6>1. status[t] \in Status \cup {"ABSENT"} /\ status'[t] = to
            BY <1>0, <4>0 DEF StatusType
          <6>2. PhaseOf(status[t]) # "absent" \/ status[t] = "ABSENT"
            BY <6>1 DEF PhaseOf, Status, Complete
          <6>3. PhaseOf("ABSENT") = "absent"
            BY DEF PhaseOf, Complete
          <6> QED BY <4>2, <6>1, <6>2, <6>3
        <5>3. ~FoundComplete
          BY <1>6, <5>2, StepCreates
        <5> QED BY <3>0, <5>1, <5>3 DEF Contract!Next, Contract!Add
      <4>3. CASE PhaseOf(status[t]) = "working" /\ PhaseOf(to) = "stuck"
        <5>1. Contract!Turns(t, {"working"}, "stuck")
          BY <1>0, <4>0, <4>3, PhaseTurns
        <5> QED BY <3>0, <5>1 DEF Contract!Next, Contract!Stop
      <4>4. CASE PhaseOf(status[t]) \in {"working", "stuck"} /\ PhaseOf(to) = "open"
        <5>1. Contract!Turns(t, {"working", "stuck"}, "open")
          BY <1>0, <4>0, <4>4, PhaseTurns
        <5> QED BY <3>0, <5>1 DEF Contract!Next, Contract!Reopen
      <4>5. CASE /\ PhaseOf(status[t]) \in {"working", "stuck"} /\ PhaseOf(to) = "done"
                 /\ to = "DONE" /\ status[t] # "DONE"
        <5>1. Contract!Turns(t, {"working", "stuck"}, "done")
          BY <1>0, <4>0, <4>5, PhaseTurns
        <5>2. status'[t] = "DONE"
          BY <1>0, <4>0, <4>5 DEF StatusType
        <5>3. t \in EarnedTasks'
          BY <5>2, CreditStep DEF CreditInv, DoneIsEarned, EarnedTasks
        <5>4. t \in EarnedTasks
          BY <2>3, <5>3 DEF EarnedTasks, Earned, Closed
        <5>5. Contract!Vouched(t)
          BY <1>0, <5>4, EarnedIsVouched
        <5> QED BY <3>0, <5>1, <5>5 DEF Contract!Next, Contract!Credit
      <4> QED BY <1>0, <3>3, <4>1, <4>2, <4>3, <4>4, <4>5, PhaseSteps
    <3> QED BY <3>1, <3>2, <3>3, StepTurns
  <2> QED BY <2>1, <2>2, <2>3, <2>3
<1> QED BY <1>1, <1>2, <1>3, <1>4, <1>5, <1>6, StepLook, StepCandidates

\* Every step of the run, of its goroutines, of the users, of a plan beside the
\* run and of a crash is one the contract allows, or none it sees: tasks start
\* when what they need is done (unless a retry came before their plan had stored
\* it), are done by an approval of their own or one that repairs carry to them,
\* stay done, are linked once, and the project is finished when all of them are,
\* but for those a plan added after the final check - with several goroutines on
\* one task at once (service_run.go, service_repair.go, service_planning.go,
\* final_review.go).
THEOREM RunKeepsContract == Spec => KeepsContract
<1> DEFINE Inv == Shape /\ Control /\ DepsInv /\ LinkInv /\ CreditInv /\ Reviewing
<1>1. Init => Inv
  <2>1. Init => Control /\ LinkInv /\ CreditInv /\ Reviewing
    BY DEF Init, Control, IdleRun, AllFree, Busy, FreeSlot, AtMostOne, FinalPC, Reviewing,
       LinkInv, CreditInv, DoneIsEarned, FoundComplete
  <2>2. Init => DepsInv
    BY DEF Init, DepsInv, DepsRespected, WasClaimed, IdleRun
  <2> QED BY <2>1, <2>2, InitShape
<1>2. Inv /\ [Next]_vars => Inv'
  BY ShapeStep, ControlStep, DepsStep, LinkStep, CreditStep, ReviewingStep
<1>3. Inv /\ [Next]_vars => [Contract!Next]_(Contract!vars)
  BY ContractStep
<1> HIDE DEF Inv
<1> QED BY <1>1, <1>2, <1>3, ContractInit, PTL DEF Spec, KeepsContract, Contract!Spec
=============================================================================
