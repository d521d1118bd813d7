-------------------------- MODULE ProjectRun_proofs --------------------------
(***************************************************************************)
(* Theorems about ProjectRun, for every number of tasks, goroutines and    *)
(* every limit.                                                            *)
(***************************************************************************)
EXTENDS ProjectRun, FiniteSetTheorems, TLAPS

SlotType == [pc : PipePC, task : TaskOrNone, target : TaskOrNone,
             new : TaskOrNone, left : Nat, todo : SUBSET Task]

\* What the fields of a slot mean at its program counter.
SlotOK(p) ==
  /\ p.pc # "free" => p.task \in Task
  /\ p.pc \in {"repair", "marking", "keeping", "create", "linking", "credit", "crediting",
               "supersede", "superseding"} => p.target \in Task
  /\ p.pc \in {"linking", "queueing", "delta_queue"} => p.new \in Task
  /\ p.pc \in {"delta", "delta_queue"} => p.left # 0

\* The same for the run loop.
LoopOK == /\ run.pc \in {"delta", "delta_queue"} => run.left # 0
          /\ run.pc = "delta_queue" => run.new \in Task

\* The task about to be credited is linked: completeRepairedTask found it so.
CreditOK == \A s \in Slots : pipe[s].pc = "crediting" => link[pipe[s].target] # NoTask

\* The type invariant with what it needs to be inductive.
Shape == TypeOK /\ LoopOK /\ CreditOK /\ \A s \in Slots : SlotOK(pipe[s])

\* An update of one slot keeps the slots well formed if the new slot is.
LEMMA SlotUpdate ==
  ASSUME pipe \in [Slots -> SlotType], \A s \in Slots : SlotOK(pipe[s]),
         NEW s \in Slots, NEW x \in SlotType, SlotOK(x),
         pipe' = [pipe EXCEPT ![s] = x]
  PROVE  pipe' \in [Slots -> SlotType] /\ \A r \in Slots : SlotOK(pipe'[r])
<1>1. pipe' \in [Slots -> SlotType]
  OBVIOUS
<1>2. \A r \in Slots : pipe'[r] = IF r = s THEN x ELSE pipe[r]
  OBVIOUS
<1> QED BY <1>1, <1>2

LEMMA FreeSlotOK == FreeSlot \in SlotType /\ SlotOK(FreeSlot)
BY DEF FreeSlot, SlotType, SlotOK, PipePC, TaskOrNone, NoTask

LEMMA InitShape == ASSUME Init PROVE Shape
<1>1. pipe \in [Slots -> SlotType] /\ \A s \in Slots : SlotOK(pipe[s])
  BY FreeSlotOK DEF Init
<1>2. run \in [pc : RunPC, iter : Nat, ran : Nat, cand : SUBSET Task,
               todo : SUBSET Task, left : Nat, new : TaskOrNone] /\ LoopOK
  BY DEF Init, IdleRun, LoopOK, RunPC, TaskOrNone, NoTask
<1>3. status \in [Task -> Status \cup {"ABSENT"}] /\ deps \subseteq Task \X Task
  BY PlannedAssumption, MaxTasksAssumption DEF Init, Status, Task
<1>4. link \in [Task -> TaskOrNone] /\ depth \in [Task -> Nat]
  <2>1. TitleDepths \cup {0} \subseteq Nat
    BY DepthAssumption
  <2>2. depth \in [Task -> TitleDepths \cup {0}]
    BY DEF Init
  <2> QED BY <2>1, <2>2 DEF Init, TaskOrNone
<1>5. CreditOK
  BY DEF Init, CreditOK, FreeSlot
<1>6. BesideOK
  BY DEF Init, BesideOK, NoPlan
<1> QED BY <1>1, <1>2, <1>3, <1>4, <1>5, <1>6 DEF Init, Shape, TypeOK, SlotType

RunType == [pc : RunPC, iter : Nat, ran : Nat, cand : SUBSET Task,
            todo : SUBSET Task, left : Nat, new : TaskOrNone]

LEMMA IdleRunOK == IdleRun \in RunType
BY DEF IdleRun, RunType, RunPC, TaskOrNone, NoTask

\* The goroutines of the run have no part in a plan beside it.
LEMMA PipelineBeside ==
  ASSUME NEW s \in Slots, PipelineStep(s)
  PROVE  UNCHANGED beside
<1>1. CASE \/ Execute(s) \/ StartTest(s) \/ Test(s) \/ Review(s) \/ StageErrors(s)
           \/ ReadFailed(s) \/ FindRoot(s) \/ MarkFailed(s)
  BY <1>1 DEF Execute, StartTest, Test, Review, StageErrors, ReadFailed, FindRoot, MarkFailed
<1>2. CASE \/ CreateFix(s) \/ LinkFix(s) \/ QueueFix(s)
           \/ ReplanStart(s) \/ ReplanCreate(s) \/ ReplanQueue(s)
  BY <1>2 DEF CreateFix, LinkFix, QueueFix, ReplanStart, ReplanCreate, ReplanQueue
<1>3. CASE Credit(s) \/ CreditDone(s) \/ SupersedeList(s) \/ SupersedeOne(s) \/ PipelineAborts(s)
  BY <1>3 DEF Credit, CreditDone, SupersedeList, SupersedeOne, PipelineAborts
<1> QED BY <1>1, <1>2, <1>3 DEF PipelineStep

\* The loop only forgets what came late.
LEMMA LoopBeside ==
  ASSUME RunStart \/ RunLoop
  PROVE  UNCHANGED <<planning, early>> /\ late' \in {late, {}}
<1>1. CASE RunStart \/ Top \/ ListReady \/ Claim \/ \E s \in Slots : Dispatch(s)
  BY <1>1 DEF RunStart, Top, ListReady, Claim, Dispatch, beside
<1>2. CASE \/ Drained \/ Return \/ ContinueAfterFailure \/ RunFails \/ BlockList \/ BlockOne
           \/ CheckComplete
  BY <1>2 DEF Drained, Return, ContinueAfterFailure, RunFails, BlockList, BlockOne,
     CheckComplete, beside
<1>3. CASE FinalReview \/ DeltaCreate \/ DeltaQueue \/ CompleteProject
  BY <1>3 DEF FinalReview, DeltaCreate, DeltaQueue, CompleteProject, beside
<1> QED BY <1>1, <1>2, <1>3 DEF RunLoop

\* The steps of the run loop.
LEMMA LoopShape == ASSUME Shape, RunStart \/ RunLoop PROVE Shape'
<1> USE DEF Shape
<1>0. TypeOK /\ run \in RunType
  BY DEF TypeOK, RunType
<1>b. BesideOK'
  BY <1>0, LoopBeside DEF TypeOK, BesideOK
<1>n. /\ run.iter + 1 \in Nat /\ run.ran + 1 \in Nat
      /\ run.left > 1 => run.left - 1 \in Nat /\ run.left - 1 # 0
  BY <1>0 DEF RunType
<1> DEFINE RunKept == run' \in RunType /\ LoopOK'
<1>idle. ASSUME run' = IdleRun PROVE RunKept
  BY <1>idle, IdleRunOK DEF IdleRun, LoopOK
<1>a. ASSUME RunKept, status' = status, UNCHANGED <<deps, link, depth, approved>>,
             project' \in {"ACTIVE", "COMPLETED"}, replans' \in Nat,
             handoff' \subseteq Task, UNCHANGED <<pipe, rejecting>>
      PROVE  Shape'
  BY <1>a, <1>b, <1>0 DEF TypeOK, RunType, CreditOK
<1>1. CASE RunStart
  <2>1. RunKept
    BY <1>1 DEF RunStart, IdleRun, LoopOK, RunType, RunPC, TaskOrNone, NoTask
  <2> QED BY <2>1, <1>0, <1>1, <1>a DEF RunStart, TypeOK, store
<1>2. CASE Top
  <2>1. ASSUME run' # IdleRun PROVE RunKept
    <3> {"list", "over_limit"} \subseteq RunPC
      BY DEF RunPC
    <3> QED BY <2>1, <1>0, <1>2, <1>n DEF Top, LoopOK, RunType
  <2>2. RunKept
    BY <2>1, <1>idle
  <2> QED BY <2>2, <1>0, <1>2, <1>a DEF Top, TypeOK, store
<1>3. CASE ListReady
  <2>1. FirstOf(Claimable, Parallelism) \subseteq Task
    BY DEF FirstOf, Claimable
  <2>2. RunKept
    BY <2>1, <1>0, <1>3 DEF ListReady, NothingToClaim, LoopOK, RunType, RunPC, FinalPC
  <2> QED BY <2>2, <1>0, <1>3, <1>a DEF ListReady, TypeOK, store
<1>4. CASE Claim
  <2>1. RunKept
    BY <1>0, <1>4 DEF Claim, NothingToClaim, LoopOK, RunType, RunPC, FinalPC
  <2>2. status' \in [Task -> Status \cup {"ABSENT"}]
    BY <1>0, <1>4 DEF Claim, TypeOK, Status
  <2> QED BY <2>1, <2>2, <1>0, <1>b, <1>4 DEF Claim, TypeOK, RunType, CreditOK
<1>5. CASE \E s \in Slots : Dispatch(s)
  <2> PICK s \in Slots : Dispatch(s)
    BY <1>5
  <2> PICK t \in handoff :
        /\ handoff' = handoff \ {t}
        /\ pipe' = [pipe EXCEPT ![s] = Pipeline(t)]
        /\ \/ ~Parallel /\ run' = [run EXCEPT !.pc = "wait"]
           \/ Parallel /\ handoff = {t} /\ run' = [run EXCEPT !.iter = @ + 1, !.pc = "top"]
           \/ Parallel /\ handoff # {t} /\ run' = [run EXCEPT !.iter = @ + 1]
    BY DEF Dispatch
  <2>1. run.pc = "dispatch"
    BY DEF Dispatch
  <2>2. Pipeline(t) \in SlotType /\ SlotOK(Pipeline(t))
    BY DEF TypeOK, Pipeline, FreeSlot, SlotType, SlotOK, PipePC, TaskOrNone, NoTask
  <2>3. pipe' \in [Slots -> SlotType] /\ \A r \in Slots : SlotOK(pipe'[r])
    BY <2>2, SlotUpdate DEF TypeOK, SlotType
  <2>4. RunKept
    BY <1>0, <1>n, <2>1 DEF RunType, RunPC, LoopOK
  <2>5. CreditOK'
    <3>1. \A r \in Slots : pipe'[r] = IF r = s THEN Pipeline(t) ELSE pipe[r]
      BY DEF TypeOK
    <3>2. Pipeline(t).pc # "crediting" /\ link' = link
      BY DEF Pipeline, FreeSlot, Dispatch, store
    <3> QED BY <3>1, <3>2 DEF CreditOK
  <2> QED BY <1>0, <1>b, <2>3, <2>4, <2>5 DEF Dispatch, TypeOK, store, SlotType, RunType
<1>6. CASE Drained \/ Return \/ ContinueAfterFailure \/ RunFails
  <2>1. RunKept
    BY <1>0, <1>6, <1>idle DEF Drained, Return, ContinueAfterFailure, RunFails, LoopOK,
       RunType, RunPC
  <2> QED
    BY <2>1, <1>0, <1>6, <1>a DEF Drained, Return, ContinueAfterFailure, RunFails, TypeOK, store
<1>7. CASE BlockList
  <2>1. RunKept
    BY <1>0, <1>7 DEF BlockList, LoopOK, RunType, RunPC, FinalPC
  <2> QED BY <2>1, <1>0, <1>7, <1>a DEF BlockList, TypeOK, store
<1>8. CASE BlockOne
  <2>1. RunKept
    BY <1>0, <1>8, <1>idle DEF BlockOne, LoopOK, RunType
  <2>2. status' \in [Task -> Status \cup {"ABSENT"}]
    BY <1>0, <1>8 DEF BlockOne, TransitionTask, TypeOK, Status
  <2> QED BY <2>1, <2>2, <1>0, <1>b, <1>8 DEF BlockOne, TypeOK, RunType, CreditOK
<1>9. CASE CheckComplete \/ FinalReview \/ CompleteProject
  <2>1. RunKept
    <3>1. CASE CheckComplete \/ CompleteProject
      BY <3>1, <1>0, <1>idle DEF CheckComplete, CompleteProject, LoopOK, RunType, RunPC, FinalPC
    <3>2. CASE FinalReview
      <4>1. 1..MaxDelta \subseteq Nat \ {0}
        BY DeltaAssumption
      <4>2. {"complete", "delta"} \subseteq RunPC
        BY DEF RunPC, FinalPC
      <4>3. ASSUME run' # IdleRun PROVE RunKept
        BY <4>1, <4>2, <4>3, <3>2, <1>0 DEF FinalReview, LoopOK, RunType
      <4> QED BY <4>3, <1>idle
    <3> QED BY <1>9, <3>1, <3>2
  <2> QED
    BY <2>1, <1>0, <1>9, <1>a DEF CheckComplete, FinalReview, CompleteProject, TypeOK, store
<1>10. CASE DeltaCreate
  <2> PICK n \in Task, d \in TitleDepths :
        CreateTask(n, d) /\ run' = [run EXCEPT !.pc = "delta_queue", !.new = n]
    BY <1>10 DEF DeltaCreate
  <2>1. RunKept
    BY <1>0, <1>10 DEF DeltaCreate, LoopOK, RunType, RunPC, FinalPC, TaskOrNone
  <2>2. status' \in [Task -> Status \cup {"ABSENT"}] /\ depth' \in [Task -> Nat]
    BY <1>0, DepthAssumption DEF CreateTask, TypeOK, Status
  <2> QED BY <2>1, <2>2, <1>0, <1>b, <1>10 DEF DeltaCreate, TypeOK, RunType, CreditOK
<1>11. CASE DeltaQueue
  <2>1. RunKept
    <3> {"top", "delta"} \subseteq RunPC /\ NoTask \in TaskOrNone
      BY DEF RunPC, FinalPC, TaskOrNone
    <3>1. CASE run' = [run EXCEPT !.left = 0, !.new = NoTask, !.pc = "top"]
      BY <1>0, <3>1 DEF LoopOK, RunType
    <3>2. CASE /\ run.left > 1
               /\ run' = [run EXCEPT !.left = @ - 1, !.new = NoTask, !.pc = "delta"]
      BY <1>0, <1>n, <3>2 DEF LoopOK, RunType
    <3> QED BY <1>11, <3>1, <3>2 DEF DeltaQueue
  <2>2. status' \in [Task -> Status \cup {"ABSENT"}]
    BY <1>0, <1>11 DEF DeltaQueue, TransitionTask, TypeOK, Status
  <2>3. replans' \in Nat
    BY <1>0, <1>11 DEF DeltaQueue, TypeOK
  <2> QED BY <2>1, <2>2, <2>3, <1>0, <1>b, <1>11 DEF DeltaQueue, TypeOK, RunType, CreditOK
<1> QED
  BY <1>1, <1>2, <1>3, <1>4, <1>5, <1>6, <1>7, <1>8, <1>9, <1>10, <1>11 DEF RunLoop

PipeOK == pipe \in [Slots -> SlotType] /\ \A s \in Slots : SlotOK(pipe[s])
StatusType == [Task -> Status \cup {"ABSENT"}]

LEMMA TransitionType ==
  ASSUME status \in StatusType, NEW t, NEW to \in Status, TransitionTask(t, to)
  PROVE  status' \in StatusType
BY DEF StatusType, TransitionTask

LEMMA CreateType ==
  ASSUME status \in StatusType, depth \in [Task -> Nat], NEW n, NEW d \in Nat,
         CreateTask(n, d)
  PROVE  status' \in StatusType /\ depth' \in [Task -> Nat]
BY DEF StatusType, CreateTask, Status

\* A step of slot s alone keeps the slots well formed if s stays so.
LEMMA StepOK ==
  ASSUME PipeOK, NEW s \in Slots,
         /\ pipe' = [pipe EXCEPT ![s] = pipe'[s]]
         /\ pipe'[s] \in SlotType
         /\ SlotOK(pipe'[s])
  PROVE  PipeOK'
<1>1. \A r \in Slots : pipe'[r] = IF r = s THEN pipe'[s] ELSE pipe[r]
  BY DEF PipeOK
<1>2. pipe' \in [Slots -> SlotType]
  BY DEF PipeOK
<1> QED BY <1>1, <1>2 DEF PipeOK

\* Goto keeps the slot well formed when its target and new task are ready.
LEMMA GotoOK ==
  ASSUME PipeOK, NEW s \in Slots, NEW c \in PipePC, Goto(s, c),
         SlotOK([pipe[s] EXCEPT !.pc = c])
  PROVE  PipeOK'
<1> DEFINE x == [pipe[s] EXCEPT !.pc = c]
<1>1. pipe[s] \in SlotType
  BY DEF PipeOK
<1>2. x \in SlotType
  BY <1>1 DEF SlotType
<1>3. pipe' = [pipe EXCEPT ![s] = x]
  BY DEF Goto
<1> HIDE DEF x
<1>4. SlotOK(x)
  BY DEF x
<1> QED BY <1>2, <1>3, <1>4, SlotUpdate DEF PipeOK

LEMMA GotoRepairOK ==
  ASSUME PipeOK, NEW s \in Slots, Busy(s), GotoRepair(s)
  PROVE  PipeOK'
<1> DEFINE x == [pipe[s] EXCEPT !.pc = "repair", !.target = pipe[s].task]
<1>1. pipe[s] \in SlotType /\ SlotOK(pipe[s])
  BY DEF PipeOK
<1>2. pipe[s].task \in Task
  BY <1>1 DEF SlotOK, Busy
<1>3. x \in SlotType /\ SlotOK(x)
  BY <1>1, <1>2 DEF SlotType, SlotOK, PipePC, TaskOrNone
<1>4. pipe' = [pipe EXCEPT ![s] = x]
  BY DEF GotoRepair
<1> HIDE DEF x
<1> QED BY <1>3, <1>4, SlotUpdate DEF PipeOK

LEMMA EndsOK ==
  ASSUME PipeOK, run \in RunType, LoopOK, NEW s \in Slots, NEW ok \in BOOLEAN,
         PipelineEnds(s, ok)
  PROVE  PipeOK' /\ run' \in RunType /\ LoopOK'
<1>1. PipeOK'
  BY FreeSlotOK, SlotUpdate DEF PipeOK, PipelineEnds
<1>2. run.ran + 1 \in Nat /\ {"top", "failed"} \subseteq RunPC
  BY DEF RunType, RunPC
<1>3. run' \in RunType /\ LoopOK'
  BY <1>2 DEF PipelineEnds, RunType, LoopOK
<1> QED BY <1>1, <1>3

\* A step of slot s changes no other slot.
LEMMA OtherSlots ==
  ASSUME PipeOK, NEW s \in Slots, PipelineStep(s), NEW r \in Slots, r # s
  PROVE  pipe'[r] = pipe[r]
<1>1. CASE Execute(s) \/ StartTest(s) \/ Test(s) \/ Review(s) \/ StageErrors(s)
  BY <1>1 DEF PipeOK, Execute, StartTest, Test, Review, StageErrors, Goto, GotoRepair
<1>2. CASE \/ ReadFailed(s) \/ FindRoot(s) \/ MarkFailed(s)
           \/ CreateFix(s) \/ LinkFix(s) \/ QueueFix(s)
  BY <1>2 DEF PipeOK, ReadFailed, FindRoot, MarkFailed, CreateFix, LinkFix, QueueFix, Goto,
     PipelineEnds
<1>3. CASE ReplanStart(s) \/ ReplanCreate(s) \/ ReplanQueue(s)
  BY <1>3 DEF PipeOK, ReplanStart, ReplanCreate, ReplanQueue, PipelineEnds
<1>4. CASE Credit(s) \/ CreditDone(s) \/ SupersedeList(s) \/ SupersedeOne(s) \/ PipelineAborts(s)
  BY <1>4 DEF PipeOK, Credit, CreditDone, SupersedeList, SupersedeOne, PipelineAborts,
     Goto, PipelineEnds
<1> QED BY <1>1, <1>2, <1>3, <1>4 DEF PipelineStep

LEMMA CreditKept ==
  ASSUME PipeOK, CreditOK, NEW s \in Slots, PipelineStep(s), link' = link,
         pipe'[s].pc = "crediting" => link[pipe'[s].target] # NoTask
  PROVE  CreditOK'
BY OtherSlots DEF CreditOK

\* The steps of the pipelines.
LEMMA PipelineShape ==
  ASSUME Shape, NEW s \in Slots, PipelineStep(s)
  PROVE  Shape'
<1>0. /\ PipeOK /\ CreditOK /\ run \in RunType /\ LoopOK /\ status \in StatusType
      /\ deps \subseteq Task \X Task /\ link \in [Task -> TaskOrNone]
      /\ depth \in [Task -> Nat] /\ approved \subseteq Task
      /\ project \in {"ACTIVE", "COMPLETED"} /\ replans \in Nat
      /\ handoff \subseteq Task /\ rejecting \subseteq Task
      /\ pipe[s] \in SlotType /\ SlotOK(pipe[s])
  BY DEF Shape, TypeOK, PipeOK, RunType, SlotType, StatusType
<1>b. BesideOK'
  BY PipelineBeside DEF Shape, TypeOK, BesideOK, beside
<1>a. ASSUME PipeOK', CreditOK', run' \in RunType, LoopOK', status' \in StatusType,
             link' \in [Task -> TaskOrNone], depth' \in [Task -> Nat],
             approved' \subseteq Task, replans' \in Nat,
             UNCHANGED <<deps, project, handoff, rejecting>>
      PROVE  Shape'
  BY <1>0, <1>a, <1>b DEF Shape, TypeOK, PipeOK, RunType, SlotType, StatusType
<1>1. CASE Execute(s)
  <2>1. {"IMPLEMENTED", "FAILED", "NEED_USER_INPUT"} \subseteq Status /\ "test" \in PipePC
    BY DEF Status, PipePC
  <2>2. status' \in StatusType
    BY <1>0, <1>1, <2>1, TransitionType DEF Execute
  <2>3. Busy(s) /\ SlotOK([pipe[s] EXCEPT !.pc = "test"])
    BY <1>0, <1>1 DEF Execute, At, Busy, SlotOK, SlotType
  <2>4. PipeOK'
    BY <1>0, <1>1, <2>1, <2>3, GotoOK, GotoRepairOK DEF Execute
  <2>5. CreditOK'
    BY <1>0, <1>1, CreditKept DEF Execute, Goto, GotoRepair, PipeOK, SlotType
  <2> QED BY <1>0, <1>1, <1>a, <2>2, <2>4, <2>5 DEF Execute, LoopOK
<1>2. CASE StartTest(s)
  <2>1. "TESTING" \in Status /\ "testing" \in PipePC
    BY DEF Status, PipePC
  <2>2. status' \in StatusType
    BY <1>0, <1>2, <2>1, TransitionType DEF StartTest
  <2>3. SlotOK([pipe[s] EXCEPT !.pc = "testing"])
    BY <1>0, <1>2 DEF StartTest, At, SlotOK, SlotType
  <2>4. PipeOK' /\ CreditOK'
    BY <1>0, <1>2, <2>1, <2>3, GotoOK, CreditKept DEF StartTest, Goto, PipeOK, SlotType
  <2> QED BY <1>0, <1>2, <1>a, <2>2, <2>4 DEF StartTest, LoopOK
<1>3. CASE Test(s)
  <2>1. {"REVIEWING", "FAILED"} \subseteq Status /\ "review" \in PipePC
    BY DEF Status, PipePC
  <2>2. status' \in StatusType
    BY <1>0, <1>3, <2>1, TransitionType DEF Test
  <2>3. Busy(s) /\ SlotOK([pipe[s] EXCEPT !.pc = "review"])
    BY <1>0, <1>3 DEF Test, At, Busy, SlotOK, SlotType
  <2>4. PipeOK'
    BY <1>0, <1>3, <2>1, <2>3, GotoOK, GotoRepairOK DEF Test
  <2>5. CreditOK'
    BY <1>0, <1>3, CreditKept DEF Test, Goto, GotoRepair, PipeOK, SlotType
  <2> QED BY <1>0, <1>3, <1>a, <2>2, <2>4, <2>5 DEF Test, LoopOK
<1>4. CASE Review(s)
  <2>1. {"DONE", "REVIEW_FAILED"} \subseteq Status
    BY DEF Status
  <2>2. status' \in StatusType
    BY <1>0, <1>4, <2>1, TransitionType DEF Review
  <2>3. Busy(s) /\ pipe[s].task \in Task
    BY <1>0, <1>4 DEF Review, At, Busy, SlotOK
  <2> DEFINE x == [pipe[s] EXCEPT !.pc = "credit", !.target = pipe[s].task]
  <2>4. x \in SlotType /\ SlotOK(x)
    BY <1>0, <2>3 DEF SlotOK, SlotType, PipePC, TaskOrNone
  <2>5. pipe' = [pipe EXCEPT ![s] = x] \/ GotoRepair(s)
    BY <1>4 DEF Review
  <2>6. PipeOK'
    <3> HIDE DEF x
    <3> QED BY <1>0, <2>3, <2>4, <2>5, SlotUpdate, GotoRepairOK DEF PipeOK
  <2>7. CreditOK'
    BY <1>0, <1>4, CreditKept DEF Review, GotoRepair, PipeOK, SlotType
  <2>8. approved' \subseteq Task
    BY <1>0, <1>4, <2>3 DEF Review
  <2> QED BY <1>0, <1>4, <1>a, <2>2, <2>6, <2>7, <2>8 DEF Review, LoopOK
<1>5. CASE StageErrors(s)
  <2>1. PipeOK'
    BY <1>0, <1>5, GotoRepairOK DEF StageErrors, Busy
  <2>2. CreditOK'
    BY <1>0, <1>5, CreditKept DEF StageErrors, GotoRepair, PipeOK, SlotType, store
  <2> QED BY <1>0, <1>5, <1>a, <2>1, <2>2 DEF StageErrors, LoopOK, store
<1>5a. CASE ReadFailed(s)
  <2>1. /\ SlotOK([pipe[s] EXCEPT !.pc = "marking"])
        /\ SlotOK([pipe[s] EXCEPT !.pc = "keeping"])
    BY <1>0, <1>5a DEF ReadFailed, At, SlotOK, SlotType
  <2>2. {"marking", "keeping"} \subseteq PipePC
    BY DEF PipePC
  <2>3. PipeOK'
    BY <1>0, <1>5a, <2>1, <2>2, GotoOK DEF ReadFailed
  <2>4. CreditOK'
    BY <1>0, <1>5a, CreditKept DEF ReadFailed, Goto, PipeOK, SlotType, store
  <2> QED BY <1>0, <1>5a, <1>a, <2>3, <2>4 DEF ReadFailed, LoopOK, store
<1>6. CASE FindRoot(s)
  <2>1. pipe[s].pc \in {"marking", "keeping"} /\ pipe[s].target \in Task /\ pipe[s].task \in Task
    BY <1>0, <1>6 DEF FindRoot, At, SlotOK
  <2> DEFINE x == [pipe[s] EXCEPT !.target = link[pipe[s].target]]
  <2>2. link[pipe[s].target] \in Task
    BY <1>0, <1>6, <2>1 DEF FindRoot, TaskOrNone
  <2>3. x \in SlotType /\ SlotOK(x)
    BY <1>0, <2>1, <2>2 DEF SlotOK, SlotType, TaskOrNone
  <2>4. pipe' = [pipe EXCEPT ![s] = x]
    BY <1>6 DEF FindRoot
  <2>5. PipeOK'
    <3> HIDE DEF x
    <3> QED BY <1>0, <2>3, <2>4, SlotUpdate DEF PipeOK
  <2>6. CreditOK'
    BY <1>0, <1>6, <2>1, CreditKept DEF FindRoot, PipeOK, SlotType, store
  <2> QED BY <1>0, <1>6, <1>a, <2>5, <2>6 DEF FindRoot, LoopOK, store
<1>7. CASE MarkFailed(s)
  <2>1. "FAILED" \in Status /\ {"create", "replan"} \subseteq PipePC
    BY DEF Status, PipePC
  <2>2. status' \in StatusType
    BY <1>0, <1>7, <2>1, TransitionType DEF MarkFailed
  <2>3. /\ SlotOK([pipe[s] EXCEPT !.pc = "create"])
        /\ SlotOK([pipe[s] EXCEPT !.pc = "replan"])
    BY <1>0, <1>7 DEF MarkFailed, At, SlotOK, SlotType
  <2>4. PipeOK'
    BY <1>0, <1>7, <2>1, <2>3, GotoOK DEF MarkFailed
  <2>5. CreditOK'
    BY <1>0, <1>7, CreditKept DEF MarkFailed, Goto, PipeOK, SlotType
  <2> QED BY <1>0, <1>7, <1>a, <2>2, <2>4, <2>5 DEF MarkFailed, LoopOK
<1>8. CASE CreateFix(s)
  <2> PICK n \in Task : /\ CreateTask(n, depth[pipe[s].task] + 1)
                        /\ pipe' = [pipe EXCEPT ![s].pc = "linking", ![s].new = n]
    BY <1>8 DEF CreateFix
  <2>1. pipe[s].pc = "create" /\ pipe[s].task \in Task /\ pipe[s].target \in Task
    BY <1>0, <1>8 DEF CreateFix, At, SlotOK
  <2>2. status' \in StatusType /\ depth' \in [Task -> Nat]
    <3> depth[pipe[s].task] + 1 \in Nat
      BY <1>0, <2>1
    <3> QED BY <1>0, CreateType
  <2> DEFINE x == [pipe[s] EXCEPT !.pc = "linking", !.new = n]
  <2>3. x \in SlotType /\ SlotOK(x)
    BY <1>0, <2>1 DEF SlotOK, SlotType, PipePC, TaskOrNone
  <2>4. pipe' = [pipe EXCEPT ![s] = x]
    OBVIOUS
  <2>5. PipeOK'
    <3> HIDE DEF x
    <3> QED BY <1>0, <2>3, <2>4, SlotUpdate DEF PipeOK
  <2>6. CreditOK'
    BY <1>0, <1>8, CreditKept DEF CreateFix, PipeOK, SlotType
  <2> QED BY <1>0, <1>8, <1>a, <2>2, <2>5, <2>6 DEF CreateFix, LoopOK
<1>9. CASE LinkFix(s)
  <2>1. pipe[s].pc = "linking" /\ pipe[s].new \in Task /\ pipe[s].target \in Task
    BY <1>0, <1>9 DEF LinkFix, At, SlotOK
  <2>2. link' \in [Task -> TaskOrNone]
    BY <1>0, <1>9, <2>1 DEF LinkFix, TaskOrNone
  <2>3. SlotOK([pipe[s] EXCEPT !.pc = "queueing"]) /\ "queueing" \in PipePC
    BY <1>0, <2>1 DEF SlotOK, SlotType, PipePC
  <2>4. PipeOK'
    BY <1>0, <1>9, <2>3, GotoOK DEF LinkFix
  <2>5. CreditOK'
    <3>1. pipe'[s].pc = "queueing"
      BY <1>0, <1>9 DEF LinkFix, Goto, PipeOK, SlotType
    <3>2. SUFFICES ASSUME NEW r \in Slots, r # s, pipe[r].pc = "crediting"
                   PROVE  link'[pipe[r].target] # NoTask
      BY <3>1, <1>0, OtherSlots DEF CreditOK
    <3>3. link[pipe[r].target] # NoTask /\ pipe[r].target \in Task
      BY <3>2, <1>0 DEF CreditOK, PipeOK, SlotOK
    <3>4. pipe[s].target # NoTask
      BY <2>1 DEF Task, NoTask
    <3> QED BY <3>3, <3>4, <1>0, <1>9 DEF LinkFix
  <2> QED BY <1>0, <1>9, <1>a, <2>2, <2>4, <2>5 DEF LinkFix, LoopOK
<1>10. CASE QueueFix(s)
  <2>1. status' \in StatusType
    BY <1>0, <1>10, TransitionType DEF QueueFix, Status
  <2>2. PipeOK' /\ run' \in RunType /\ LoopOK'
    BY <1>0, <1>10, EndsOK DEF QueueFix
  <2>3. CreditOK'
    BY <1>0, <1>10, CreditKept DEF QueueFix, PipelineEnds, PipeOK, FreeSlot
  <2> QED BY <1>0, <1>10, <1>a, <2>1, <2>2, <2>3 DEF QueueFix
<1>11. CASE ReplanStart(s)
  <2> PICK n \in 1..MaxDelta : pipe' = [pipe EXCEPT ![s].pc = "delta", ![s].left = n]
    BY <1>11 DEF ReplanStart
  <2>1. pipe[s].pc = "replan" /\ pipe[s].task \in Task /\ n \in Nat /\ n # 0
    BY <1>0, <1>11, DeltaAssumption DEF ReplanStart, At, SlotOK
  <2> DEFINE x == [pipe[s] EXCEPT !.pc = "delta", !.left = n]
  <2>2. x \in SlotType /\ SlotOK(x)
    BY <1>0, <2>1 DEF SlotOK, SlotType, PipePC
  <2>3. pipe' = [pipe EXCEPT ![s] = x]
    OBVIOUS
  <2>4. PipeOK'
    <3> HIDE DEF x
    <3> QED BY <1>0, <2>2, <2>3, SlotUpdate DEF PipeOK
  <2>5. CreditOK'
    BY <1>0, <1>11, CreditKept DEF ReplanStart, PipeOK, SlotType, store
  <2> QED BY <1>0, <1>11, <1>a, <2>4, <2>5 DEF ReplanStart, LoopOK, store
<1>12. CASE ReplanCreate(s)
  <2> PICK n \in Task, d \in TitleDepths :
        /\ CreateTask(n, d)
        /\ pipe' = [pipe EXCEPT ![s].pc = "delta_queue", ![s].new = n]
    BY <1>12 DEF ReplanCreate
  <2>1. pipe[s].pc = "delta" /\ pipe[s].task \in Task /\ pipe[s].left # 0
    BY <1>0, <1>12 DEF ReplanCreate, At, SlotOK
  <2>2. status' \in StatusType /\ depth' \in [Task -> Nat]
    BY <1>0, CreateType, DepthAssumption
  <2> DEFINE x == [pipe[s] EXCEPT !.pc = "delta_queue", !.new = n]
  <2>3. x \in SlotType /\ SlotOK(x)
    BY <1>0, <2>1 DEF SlotOK, SlotType, PipePC, TaskOrNone
  <2>4. pipe' = [pipe EXCEPT ![s] = x]
    OBVIOUS
  <2>5. PipeOK'
    <3> HIDE DEF x
    <3> QED BY <1>0, <2>3, <2>4, SlotUpdate DEF PipeOK
  <2>6. CreditOK'
    BY <1>0, <1>12, CreditKept DEF ReplanCreate, PipeOK, SlotType
  <2> QED BY <1>0, <1>12, <1>a, <2>2, <2>5, <2>6 DEF ReplanCreate, LoopOK
<1>13. CASE ReplanQueue(s)
  <2>1. status' \in StatusType
    BY <1>0, <1>13, TransitionType DEF ReplanQueue, Status
  <2> DEFINE x == [pipe[s] EXCEPT !.pc = "delta", !.left = pipe[s].left - 1]
  <2>2. \/ PipelineEnds(s, FALSE) /\ replans' = replans + 1
        \/ pipe[s].left > 1 /\ pipe' = [pipe EXCEPT ![s] = x] /\ UNCHANGED <<replans, run>>
    BY <1>13 DEF ReplanQueue
  <2>3. CASE PipelineEnds(s, FALSE) /\ replans' = replans + 1
    <3>1. PipeOK' /\ run' \in RunType /\ LoopOK'
      BY <1>0, <2>3, EndsOK
    <3>2. CreditOK'
      BY <1>0, <1>13, <2>3, CreditKept DEF ReplanQueue, PipelineEnds, PipeOK, FreeSlot
    <3>3. replans' \in Nat
      BY <1>0, <2>3
    <3> QED BY <1>0, <1>13, <1>a, <2>1, <3>1, <3>2, <3>3 DEF ReplanQueue
  <2>4. CASE pipe[s].left > 1 /\ pipe' = [pipe EXCEPT ![s] = x] /\ UNCHANGED <<replans, run>>
    <3>1. pipe[s].left - 1 \in Nat /\ pipe[s].left - 1 # 0
      BY <1>0, <2>4 DEF SlotType
    <3>2. pipe[s].task \in Task
      BY <1>0, <1>13 DEF ReplanQueue, At, SlotOK
    <3>3. x \in SlotType /\ SlotOK(x)
      BY <1>0, <3>1, <3>2 DEF SlotOK, SlotType, PipePC
    <3>4. x.pc = "delta"
      BY <1>0 DEF SlotType
    <3> HIDE DEF x
    <3>5. PipeOK'
      BY <1>0, <2>4, <3>3, SlotUpdate DEF PipeOK
    <3>6. CreditOK'
      BY <1>0, <1>13, <2>4, <3>4, CreditKept DEF ReplanQueue, PipeOK
    <3> QED BY <1>0, <1>13, <1>a, <2>1, <2>4, <3>5, <3>6 DEF ReplanQueue, LoopOK
  <2> HIDE DEF x
  <2> QED BY <2>2, <2>3, <2>4
<1>14. CASE Credit(s)
  <2> DEFINE f == link[pipe[s].target]
  <2>1. pipe[s].pc = "credit" /\ pipe[s].target \in Task /\ pipe[s].task \in Task
    BY <1>0, <1>14 DEF Credit, At, SlotOK
  <2>2. UNCHANGED <<store, replans, handoff, rejecting>>
    BY <1>14 DEF Credit
  <2>3. \/ PipelineEnds(s, TRUE)
        \/ f # NoTask /\ Goto(s, "crediting") /\ UNCHANGED run
        \/ f # NoTask /\ pipe' = [pipe EXCEPT ![s].target = f] /\ UNCHANGED run
    BY <1>14 DEF Credit
  <2>4. CASE PipelineEnds(s, TRUE)
    <3>1. PipeOK' /\ run' \in RunType /\ LoopOK'
      BY <1>0, <2>4, EndsOK
    <3>2. CreditOK'
      BY <1>0, <2>2, <2>4, CreditKept DEF PipelineEnds, PipeOK, FreeSlot, store
    <3> QED BY <1>0, <1>a, <2>2, <3>1, <3>2 DEF store
  <2>5. CASE f # NoTask /\ Goto(s, "crediting") /\ UNCHANGED run
    <3>1. SlotOK([pipe[s] EXCEPT !.pc = "crediting"]) /\ "crediting" \in PipePC
      BY <1>0, <2>1 DEF SlotOK, SlotType, PipePC
    <3>2. PipeOK'
      BY <1>0, <2>5, <3>1, GotoOK
    <3>3. pipe'[s].target = pipe[s].target
      BY <1>0, <2>5 DEF Goto, PipeOK, SlotType
    <3>4. CreditOK'
      BY <1>0, <2>2, <2>5, <3>3, CreditKept DEF store
    <3> QED BY <1>0, <1>a, <2>2, <2>5, <3>2, <3>4 DEF store, LoopOK
  <2>6. CASE f # NoTask /\ pipe' = [pipe EXCEPT ![s].target = f] /\ UNCHANGED run
    <3> DEFINE x == [pipe[s] EXCEPT !.target = f]
    <3>1. f \in Task
      BY <1>0, <2>1, <2>6 DEF TaskOrNone
    <3>2. x \in SlotType /\ SlotOK(x) /\ x.pc = "credit"
      BY <1>0, <2>1, <3>1 DEF SlotOK, SlotType, TaskOrNone
    <3>3. pipe' = [pipe EXCEPT ![s] = x]
      BY <2>6
    <3> HIDE DEF x
    <3>4. PipeOK'
      BY <1>0, <3>2, <3>3, SlotUpdate DEF PipeOK
    <3>5. CreditOK'
      BY <1>0, <2>2, <3>2, <3>3, CreditKept DEF PipeOK, store
    <3> QED BY <1>0, <1>a, <2>2, <2>6, <3>4, <3>5 DEF store, LoopOK
  <2> QED BY <2>3, <2>4, <2>5, <2>6
<1>15. CASE CreditDone(s)
  <2> DEFINE f == link[pipe[s].target]
             x == [pipe[s] EXCEPT !.pc = "supersede", !.target = f]
  <2>1. pipe[s].pc = "crediting" /\ pipe[s].target \in Task /\ pipe[s].task \in Task
    BY <1>0, <1>15 DEF CreditDone, At, SlotOK
  <2>2. status' \in StatusType
    BY <1>0, <1>15, TransitionType DEF CreditDone, Status
  <2>3. f \in Task
    BY <1>0, <2>1 DEF CreditOK, TaskOrNone
  <2>4. x \in SlotType /\ SlotOK(x) /\ x.pc = "supersede"
    BY <1>0, <2>1, <2>3 DEF SlotOK, SlotType, PipePC, TaskOrNone
  <2>5. pipe' = [pipe EXCEPT ![s] = x]
    BY <1>15 DEF CreditDone
  <2> HIDE DEF x
  <2>6. PipeOK'
    BY <1>0, <2>4, <2>5, SlotUpdate DEF PipeOK
  <2>7. CreditOK'
    BY <1>0, <1>15, <2>4, <2>5, CreditKept DEF CreditDone, PipeOK
  <2> QED BY <1>0, <1>15, <1>a, <2>2, <2>6, <2>7 DEF CreditDone, LoopOK
<1>16. CASE SupersedeList(s)
  <2> PICK others \in SUBSET Task :
        \/ Goto(s, "credit")
        \/ pipe' = [pipe EXCEPT ![s].pc = "superseding", ![s].todo = others]
    <3> DEFINE o == {t \in Task : /\ status[t] \in Failed
                                  /\ link[t] = pipe[s].target
                                  /\ t # pipe[s].task}
    <3> WITNESS o \in SUBSET Task
    <3> QED BY <1>16 DEF SupersedeList
  <2>1. pipe[s].pc = "supersede" /\ pipe[s].target \in Task /\ pipe[s].task \in Task
    BY <1>0, <1>16 DEF SupersedeList, At, SlotOK
  <2>2. SlotOK([pipe[s] EXCEPT !.pc = "credit"]) /\ "credit" \in PipePC
    BY <1>0, <2>1 DEF SlotOK, SlotType, PipePC
  <2> DEFINE x == [pipe[s] EXCEPT !.pc = "superseding", !.todo = others]
  <2>3. x \in SlotType /\ SlotOK(x) /\ x.pc = "superseding"
    BY <1>0, <2>1 DEF SlotOK, SlotType, PipePC
  <2>4. Goto(s, "credit") \/ pipe' = [pipe EXCEPT ![s] = x]
    OBVIOUS
  <2> HIDE DEF x
  <2>5. PipeOK'
    BY <1>0, <2>2, <2>3, <2>4, GotoOK, SlotUpdate DEF PipeOK
  <2>6. CreditOK'
    BY <1>0, <1>16, <2>3, <2>4, CreditKept DEF SupersedeList, Goto, PipeOK, SlotType, store
  <2> QED BY <1>0, <1>16, <1>a, <2>5, <2>6 DEF SupersedeList, LoopOK, store
<1>17. CASE SupersedeOne(s)
  <2> PICK t \in pipe[s].todo :
        /\ TransitionTask(t, "DONE")
        /\ pipe' = [pipe EXCEPT ![s].todo = @ \ {t},
                      ![s].pc = IF pipe[s].todo = {t} THEN "credit" ELSE @]
    BY <1>17 DEF SupersedeOne
  <2>1. pipe[s].pc = "superseding" /\ pipe[s].target \in Task /\ pipe[s].task \in Task
    BY <1>0, <1>17 DEF SupersedeOne, At, SlotOK
  <2>2. status' \in StatusType
    BY <1>0, TransitionType DEF Status
  <2> DEFINE c == IF pipe[s].todo = {t} THEN "credit" ELSE "superseding"
             x == [pipe[s] EXCEPT !.todo = @ \ {t}, !.pc = c]
  <2>3. c \in {"credit", "superseding"}
    OBVIOUS
  <2>4. pipe' = [pipe EXCEPT ![s] = x]
    BY <1>0, <2>1 DEF PipeOK, SlotType
  <2> HIDE DEF c
  <2>5. x \in SlotType /\ SlotOK(x) /\ x.pc = c
    BY <1>0, <2>1, <2>3 DEF SlotOK, SlotType, PipePC
  <2> HIDE DEF x
  <2>6. PipeOK'
    BY <1>0, <2>4, <2>5, SlotUpdate DEF PipeOK
  <2>7. CreditOK'
    BY <1>0, <1>17, <2>3, <2>4, <2>5, CreditKept DEF SupersedeOne, PipeOK
  <2> QED BY <1>0, <1>17, <1>a, <2>2, <2>6, <2>7 DEF SupersedeOne, LoopOK
<1>18. CASE PipelineAborts(s)
  <2>1. PipeOK' /\ run' \in RunType /\ LoopOK'
    BY <1>0, <1>18, EndsOK DEF PipelineAborts
  <2>2. CreditOK'
    BY <1>0, <1>18, CreditKept DEF PipelineAborts, PipelineEnds, PipeOK, FreeSlot, store
  <2> QED BY <1>0, <1>18, <1>a, <2>1, <2>2 DEF PipelineAborts, store
<1> QED
  BY <1>1, <1>2, <1>3, <1>4, <1>5, <1>6, <1>7, <1>8, <1>9, <1>10, <1>11, <1>12, <1>13,
     <1>14, <1>15, <1>16, <1>17, <1>18, <1>5a DEF PipelineStep

\* The user's steps and the end of the process.
LEMMA OtherShape ==
  ASSUME Shape,
         Crash \/ \E t \in Task : RetryTask(t) \/ Approve(t) \/ RejectRead(t) \/ RejectApply(t)
  PROVE  Shape'
<1>0. status \in StatusType
  BY DEF Shape, TypeOK, StatusType
<1>1. CASE Crash
  <2>1. pipe' \in [Slots -> SlotType] /\ \A s \in Slots : SlotOK(pipe'[s]) /\ pipe'[s] = FreeSlot
    BY <1>1, FreeSlotOK DEF Crash
  <2>2. run' \in RunType /\ LoopOK' /\ CreditOK'
    BY <1>1, <2>1, IdleRunOK DEF Crash, IdleRun, FreeSlot, LoopOK, CreditOK
  <2>3. BesideOK'
    BY <1>1 DEF Crash, Shape, TypeOK, BesideOK, NoPlan
  <2> QED BY <1>1, <2>1, <2>2, <2>3 DEF Crash, Shape, TypeOK, store, SlotType, RunType
<1>2. ASSUME NEW t \in Task, RetryTask(t) \/ Approve(t) \/ RejectRead(t) \/ RejectApply(t)
      PROVE  Shape'
  <2>1. status' \in StatusType
    BY <1>0, <1>2, TransitionType DEF RetryTask, Approve, RejectRead, RejectApply,
       Status, store
  <2>2. UNCHANGED <<deps, link, depth, approved, project, replans, run, handoff, pipe>>
    BY <1>2 DEF RetryTask, Approve, RejectRead, RejectApply, store, memory
  <2>3. rejecting' \subseteq Task
    BY <1>2 DEF RetryTask, Approve, RejectRead, RejectApply, memory, Shape, TypeOK
  <2>4. UNCHANGED beside
    BY <1>2 DEF RetryTask, Approve, RejectRead, RejectApply
  <2> QED BY <2>1, <2>2, <2>3, <2>4 DEF Shape, TypeOK, BesideOK, beside, StatusType, LoopOK,
     CreditOK
<1> QED BY <1>1, <1>2

\* A plan beside the run changes nothing of the run, and no link.
LEMMA PlanFrame ==
  ASSUME PlanStep
  PROVE  UNCHANGED <<link, approved, project, replans, run, handoff, pipe, rejecting>>
BY DEF PlanStep, PlanCreate, PlanDepend, PlanQueue, PlanStops, memory, store

\* The steps of a plan beside the run.
LEMMA PlanShape == ASSUME Shape, PlanStep PROVE Shape'
<1>0. /\ status \in StatusType /\ depth \in [Task -> Nat] /\ deps \subseteq Task \X Task
      /\ BesideOK
  BY DEF Shape, TypeOK, StatusType
<1>a. ASSUME status' \in StatusType, depth' \in [Task -> Nat], deps' \subseteq Task \X Task,
             BesideOK'
      PROVE  Shape'
  BY <1>a, PlanFrame DEF Shape, TypeOK, StatusType, LoopOK, CreditOK
<1>1. CASE PlanCreate
  <2> PICK n \in Task :
        /\ \E d \in TitleDepths : CreateTask(n, d)
        /\ \/ planning' = [planning EXCEPT !.pc = "create", !.made = planning.made \cup {n}]
           \/ \E needs \in SUBSET ((planning.made \cup {n}) \X (planning.made \cup {n})) :
                planning' = [pc |-> "queue", made |-> planning.made \cup {n}, needs |-> needs]
        /\ late' \in {late, late \cup {n}}
    BY <1>1 DEF PlanCreate
  <2>1. status' \in StatusType /\ depth' \in [Task -> Nat]
    BY <1>0, CreateType, DepthAssumption
  <2>2. early' = early /\ deps' = deps
    BY <1>1 DEF PlanCreate
  <2> DEFINE m == planning.made \cup {n}
  <2>3. m \subseteq Task /\ early' \subseteq Task /\ late' \subseteq Task
    BY <1>0, <2>2 DEF BesideOK
  <2> HIDE DEF m
  <2>4. \A needs \in SUBSET (m \X m) : needs \in SUBSET (Task \X Task)
    BY <2>3
  <2>5. \/ planning' = [planning EXCEPT !.pc = "create", !.made = m]
        \/ \E needs \in SUBSET (m \X m) :
             planning' = [pc |-> "queue", made |-> m, needs |-> needs]
    BY DEF m
  <2> DEFINE PlanType == [pc : {"none", "create", "queue"}, made : SUBSET Task,
                          needs : SUBSET (Task \X Task)]
  <2>7. planning \in PlanType
    BY <1>0 DEF BesideOK
  <2>8. planning' = [planning EXCEPT !.pc = "create", !.made = m] => planning' \in PlanType
    BY ONLY <2>3, <2>7
  <2>9. (\E needs \in SUBSET (m \X m) :
           planning' = [pc |-> "queue", made |-> m, needs |-> needs]) => planning' \in PlanType
    BY ONLY <2>3, <2>4
  <2>10. planning' \in PlanType
    BY ONLY <2>5, <2>8, <2>9
  <2>6. BesideOK'
    BY <2>3, <2>10 DEF BesideOK
  <2> QED BY <1>0, <1>a, <2>1, <2>2, <2>6
<1>2. CASE PlanDepend
  <2>1. deps' \subseteq Task \X Task /\ BesideOK'
    BY <1>0, <1>2 DEF PlanDepend, BesideOK
  <2> QED BY <1>0, <1>2, <1>a, <2>1 DEF PlanDepend
<1>3. CASE PlanQueue
  <2>1. status' \in StatusType
    BY <1>0, <1>3, TransitionType DEF PlanQueue, Status
  <2>2. BesideOK'
    BY <1>0, <1>3 DEF PlanQueue, BesideOK, NoPlan
  <2> QED BY <1>0, <1>3, <1>a, <2>1, <2>2 DEF PlanQueue
<1>4. CASE PlanStops
  <2>1. BesideOK'
    BY <1>0, <1>4 DEF PlanStops, BesideOK, NoPlan
  <2> QED BY <1>0, <1>4, <1>a, <2>1 DEF PlanStops, store
<1> QED BY <1>1, <1>2, <1>3, <1>4 DEF PlanStep

LEMMA ShapeStep == ASSUME Shape, [Next]_vars PROVE Shape'
<1>1. CASE UNCHANGED vars
  BY <1>1 DEF vars, Shape, TypeOK, BesideOK, LoopOK, CreditOK
<1>2. CASE Next
  BY <1>2, LoopShape, PipelineShape, OtherShape, PlanShape DEF Next
<1> QED BY <1>1, <1>2

\* The state keeps its shape: every value a component of the program can hold,
\* every index a step uses, for any number of tasks, goroutines and limits.
THEOREM TypeCorrect == Spec => []TypeOK
<1>1. Shape => TypeOK
  BY DEF Shape
<1> QED BY <1>1, InitShape, ShapeStep, PTL DEF Spec
=============================================================================
