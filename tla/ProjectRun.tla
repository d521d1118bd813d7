----------------------------- MODULE ProjectRun -----------------------------
(***************************************************************************)
(* One project's run: RunProjectTasks (sequential) or                      *)
(* runProjectTasksParallel, the execute/test/review pipeline of each       *)
(* claimed task, the repair tasks a failure creates, the end-of-run        *)
(* finalization with its delta re-plans, and the user's retries,           *)
(* confirmations and re-plans, which arrive at any moment from other       *)
(* goroutines.                                                             *)
(*                                                                         *)
(* Every store call that writes is a step of its own: the tasks live in    *)
(* the database and survive Crash, everything else does not.  A goroutine  *)
(* of the parallel loop is a slot; with one slot the loop runs the task    *)
(* itself (parallelism <= 1).  The behaviour starts with a project that    *)
(* PlanProject left, or that is not planned yet.  The run queue allows one *)
(* run of a project at a time (see TaskQueue), so there is one run loop.   *)
(***************************************************************************)
EXTENDS TaskDomain, Naturals, FiniteSets

CONSTANTS
  MaxTasks,        \* bound: task ids available; CreateTask fails beyond it
  PlannedTasks,    \* bound: tasks of the project at the start
  Slots,           \* goroutines that run claimed tasks (s.parallelism)
  RunLimit,        \* maxTasks of RunProjectTasks (50 in the code)
  MaxRepairDepth,  \* maxRepairDepth (3 in the code)
  TitleDepths,     \* repairDepth of the titles the planner gives
  MaxReplans,      \* maxProjectReplans (2 in the code)
  MaxDelta,        \* bound: tasks of one delta plan
  MaxRejections,   \* bound: rejections between their read and their write
  MaxPlanned       \* bound: tasks of a plan made beside the run; 0: none

ASSUME MaxTasksAssumption == MaxTasks \in Nat
ASSUME SlotsAssumption == IsFiniteSet(Slots) /\ Slots # {}
ASSUME PlannedAssumption == PlannedTasks \in 0..MaxTasks
ASSUME RunLimitAssumption == RunLimit \in Nat \ {0}
ASSUME DepthAssumption == MaxRepairDepth \in Nat /\ TitleDepths \subseteq Nat
ASSUME ReplansAssumption == MaxReplans \in Nat
ASSUME DeltaAssumption == MaxDelta \in Nat
ASSUME PlannedBesideAssumption == MaxPlanned \in Nat

Task == 1..MaxTasks      \* in creation order, as ListTasksByProject sorts
NoTask == 0
Parallelism == Cardinality(Slots)
Parallel == Parallelism > 1

VARIABLES
  status,     \* tasks.status; "ABSENT" before the task is created
  deps,       \* task_dependencies: <<task, the task it depends on>>
  link,       \* link[t]: target of t's repair.linked event, or NoTask
  depth,      \* depth[t]: repairDepth of t's title ("Fix: " prefixes)
  approved,   \* tasks that a reviewer's approval moved to DONE (history)
  project,    \* projects.status
  replans,    \* replansByProject, in memory
  run,        \* the run loop
  handoff,    \* tasks claimed and not yet given to a goroutine
  pipe,       \* pipe[s]: the pipeline of goroutine s
  rejecting,  \* tasks read as NEED_USER_INPUT by a rejection in progress
  planning,   \* the plan in progress: its tasks still to queue, and the
              \* dependencies still to store
  early,      \* tasks that a retry let start before a plan stored all their
              \* dependencies (history)
  late        \* tasks a re-plan added since the completeness check (history)

store == <<status, deps, link, depth, approved, project>>
memory == <<replans, run, handoff, pipe, rejecting>>
beside == <<planning, early, late>>
vars == <<status, deps, link, depth, approved, project,
          replans, run, handoff, pipe, rejecting, planning, early, late>>

FinalPC == {"block", "blocking", "check", "review", "delta", "delta_queue",
            "complete"}
RunPC == {"idle", "top", "list", "claim", "dispatch", "wait", "failed", "drain",
          "relist", "reclaim", "stop", "over_limit"} \cup FinalPC
PipePC == {"free", "execute", "test", "testing", "review", "repair", "marking",
           "keeping", "create",
           "linking", "queueing", "replan", "delta", "delta_queue",
           "credit", "crediting", "supersede", "superseding"}

IdleRun == [pc |-> "idle", iter |-> 0, ran |-> 0, cand |-> {}, todo |-> {},
            left |-> 0, new |-> NoTask]
FreeSlot == [pc |-> "free", task |-> NoTask, target |-> NoTask, new |-> NoTask,
             left |-> 0, todo |-> {}]
NoPlan == [pc |-> "none", made |-> {}, needs |-> {}]
Pipeline(t) == [FreeSlot EXCEPT !.pc = "execute", !.task = t]

Failed == {"FAILED", "REVIEW_FAILED"}
Busy(s) == pipe[s].pc # "free"
AllFree == \A s \in Slots : ~Busy(s)
DepsDone(t) == \A d \in Task : <<t, d>> \in deps => status[d] = "DONE"

\* Dependency plans PlanProject can store: it prunes cycles.
Acyclic(D) == \A S \in SUBSET Task :
                S # {} => \E t \in S : \A d \in S : <<t, d>> \notin D

Init ==
  /\ status \in [Task -> {"READY", "BLOCKED", "ABSENT"}]
  /\ depth \in [Task -> TitleDepths \cup {0}]
  /\ \A t \in Task : IF t > PlannedTasks THEN status[t] = "ABSENT" /\ depth[t] = 0
                      ELSE status[t] # "ABSENT" /\ depth[t] \in TitleDepths
  /\ deps \in SUBSET ((1..PlannedTasks) \X (1..PlannedTasks))
  /\ Acyclic(deps)
  /\ link = [t \in Task |-> NoTask]
  /\ approved = {}
  /\ project = "ACTIVE"
  /\ replans = 0
  /\ run = IdleRun
  /\ handoff = {}
  /\ pipe = [s \in Slots |-> FreeSlot]
  /\ rejecting = {}
  /\ planning = NoPlan /\ early = {} /\ late = {}

-----------------------------------------------------------------------------
\* The store.

\* TransitionTask: validated against the status at that moment, in one
\* transaction. A refused transition is the caller's error path.
TransitionTask(t, to) ==
  /\ CanTransition(status[t], to)
  /\ status' = [status EXCEPT ![t] = to]

\* CreateTask, always with status DRAFT; d is the repair depth of its title.
CreateTask(n, d) ==
  /\ status[n] = "ABSENT"
  /\ \A m \in Task : m < n => status[m] # "ABSENT"
  /\ status' = [status EXCEPT ![n] = "DRAFT"]
  /\ depth' = [depth EXCEPT ![n] = d]

-----------------------------------------------------------------------------
\* The run loop.

RunStart ==
  /\ run.pc = "idle"
  /\ run' = [IdleRun EXCEPT !.pc = "top"]
  /\ UNCHANGED <<store, replans, handoff, pipe, rejecting, beside>>

\* Faulty: the sequential loop does not count its iterations.
TopUncounted ==
  /\ run.pc = "top"
  /\ run' = IF run.iter < RunLimit THEN [run EXCEPT !.pc = "list"] ELSE IdleRun
  /\ UNCHANGED <<store, replans, handoff, pipe, rejecting, beside>>

\* Faulty: the parallel loop compares the wrong counter with its backstop.
TopWrongCounter ==
  /\ run.pc = "top"
  /\ run' = [run EXCEPT !.pc = IF run.ran < 2 * RunLimit THEN "list" ELSE "over_limit"]
  /\ UNCHANGED <<store, replans, handoff, pipe, rejecting, beside>>

\* The loop's condition. After the parallel loop every dispatched task has
\* ended, so that ran >= RunLimit and the finalization below the loop is dead
\* code (LoopExitMeansLimit).
Top ==
  /\ run.pc = "top"
  /\ \/ /\ Parallel /\ run.iter < 2 * RunLimit /\ run.ran < RunLimit
        /\ run' = [run EXCEPT !.pc = "list"]
     \/ /\ Parallel /\ (run.iter >= 2 * RunLimit \/ run.ran >= RunLimit)
        /\ run' = [run EXCEPT !.pc = "over_limit"]
     \/ /\ ~Parallel /\ run.iter < RunLimit
        /\ run' = [run EXCEPT !.pc = "list", !.iter = @ + 1]
     \/ /\ ~Parallel /\ run.iter >= RunLimit
        /\ run' = IdleRun
  /\ UNCHANGED <<store, replans, handoff, pipe, rejecting, beside>>

\* Faulty: a dependency only has to be able to complete.
ClaimableEarly ==
  {t \in Task : /\ status[t] = "READY"
                /\ \A d \in Task : <<t, d>> \in deps => status[d] \notin BlocksDependents}

Claimable == {t \in Task : status[t] = "READY" /\ DepsDone(t)}

\* The first n of a set of tasks, in creation order.
FirstOf(S, n) == {t \in S : Cardinality({u \in S : u < t}) < n}

\* Faulty: an empty second claim waits for the drained tasks again.
NothingToClaimAgain ==
  run' = [run EXCEPT !.cand = {}, !.pc = IF Parallel THEN "drain" ELSE "block"]

\* The loop's first query of an iteration, not the one after wg.Wait().
FirstAttempt == run.pc \in {"list", "claim"}

\* Nothing to claim (sql.ErrNoRows): the parallel loop first waits for the
\* tasks in flight and asks again, otherwise the run is finalized.
NothingToClaim ==
  \/ Parallel /\ FirstAttempt /\ run' = [run EXCEPT !.cand = {}, !.pc = "drain"]
  \/ ~(Parallel /\ FirstAttempt) /\ run' = [run EXCEPT !.cand = {}, !.pc = "block"]

\* ClaimNextReadyTasks, its reads.
ListReady ==
  /\ \/ /\ run.pc \in {"list", "relist"} /\ Claimable = {}
        /\ NothingToClaim
     \/ /\ run.pc = "list" /\ Claimable # {}
        /\ run' = [run EXCEPT !.cand = FirstOf(Claimable, Parallelism), !.pc = "claim"]
     \/ /\ run.pc = "relist" /\ Claimable # {}
        /\ run' = [run EXCEPT !.cand = FirstOf(Claimable, Parallelism), !.pc = "reclaim"]
  /\ UNCHANGED <<store, replans, handoff, pipe, rejecting, beside>>

\* ClaimTasks: one transaction; candidates that are no longer READY are skipped.
Claim ==
  /\ run.pc \in {"claim", "reclaim"}
  /\ LET claimed == {t \in run.cand : status[t] = "READY"}
     IN  /\ status' = [t \in Task |-> IF t \in claimed THEN "IN_PROGRESS"
                                      ELSE status[t]]
         /\ handoff' = claimed
         /\ \/ claimed = {} /\ NothingToClaim
            \/ claimed # {} /\ run' = [run EXCEPT !.pc = "dispatch", !.cand = {}]
  /\ UNCHANGED <<deps, link, depth, approved, project, replans, pipe, rejecting, beside>>

\* sem <- struct{}{}; go ...: blocks while every goroutine is busy.
Dispatch(s) ==
  /\ run.pc = "dispatch"
  /\ ~Busy(s)
  /\ \E t \in handoff :
       /\ \A u \in handoff : t <= u
       /\ handoff' = handoff \ {t}
       /\ pipe' = [pipe EXCEPT ![s] = Pipeline(t)]
       /\ \/ ~Parallel /\ run' = [run EXCEPT !.pc = "wait"]
          \/ Parallel /\ handoff = {t} /\ run' = [run EXCEPT !.iter = @ + 1, !.pc = "top"]
          \/ Parallel /\ handoff # {t} /\ run' = [run EXCEPT !.iter = @ + 1]
  /\ UNCHANGED <<store, replans, rejecting, beside>>

\* Faulty: the second claim does not wait for the tasks in flight.
DrainedAtOnce ==
  /\ run.pc = "drain"
  /\ run' = [run EXCEPT !.pc = "relist"]
  /\ UNCHANGED <<store, replans, handoff, pipe, rejecting, beside>>

\* wg.Wait() after an empty claim.
Drained ==
  /\ run.pc = "drain"
  /\ AllFree
  /\ run' = [run EXCEPT !.pc = "relist"]
  /\ UNCHANGED <<store, replans, handoff, pipe, rejecting, beside>>

\* Faulty: the loop returns an error while its tasks are in flight.
ReturnAtOnce ==
  /\ run.pc \in {"over_limit", "stop"}
  /\ run' = IdleRun
  /\ UNCHANGED <<store, replans, handoff, pipe, rejecting, beside>>

\* wg.Wait() before returning the task limit's error or a claim's error.
Return ==
  /\ run.pc \in {"over_limit", "stop"}
  /\ AllFree
  /\ run' = IdleRun
  /\ UNCHANGED <<store, replans, handoff, pipe, rejecting, beside>>

\* hasReadyTask after the sequential loop's task failed.
ContinueAfterFailure ==
  /\ run.pc = "failed"
  /\ \/ Claimable # {} /\ run' = [run EXCEPT !.pc = "top"]
     \/ Claimable = {} /\ run' = IdleRun
  /\ UNCHANGED <<store, replans, handoff, pipe, rejecting, beside>>

\* A store, planner or communication error in the loop itself.
RunFails ==
  /\ \/ /\ Parallel /\ FirstAttempt
        /\ run' = [run EXCEPT !.pc = "stop", !.cand = {}]
     \/ /\ ~Parallel /\ FirstAttempt
        /\ run' = [run EXCEPT !.pc = "failed", !.cand = {}]
     \/ /\ run.pc \in {"relist", "reclaim", "failed"} \cup FinalPC
        /\ run' = IdleRun
  /\ late' = {}
  /\ UNCHANGED <<store, replans, handoff, pipe, rejecting, planning, early>>

-----------------------------------------------------------------------------
\* finalizeProjectRun.

\* blockTasksWaitingOnBlockedDependencies, its reads.
BlockList ==
  /\ run.pc = "block"
  /\ LET waiting == {t \in Task : /\ status[t] \in {"READY", "DRAFT"}
                                  /\ \E d \in Task : /\ <<t, d>> \in deps
                                                     /\ status[d] \in BlocksDependents}
     IN  \/ waiting = {} /\ run' = [run EXCEPT !.pc = "check"]
         \/ waiting # {} /\ run' = [run EXCEPT !.pc = "blocking", !.todo = waiting]
  /\ UNCHANGED <<store, replans, handoff, pipe, rejecting, beside>>

\* One of its transitions; the run returns when at least one task was blocked.
BlockOne ==
  /\ run.pc = "blocking"
  /\ \E t \in run.todo :
       /\ \A u \in run.todo : t <= u
       /\ TransitionTask(t, "BLOCKED")
       /\ \/ run.todo = {t} /\ run' = IdleRun
          \/ run.todo # {t} /\ run' = [run EXCEPT !.todo = @ \ {t}]
  /\ UNCHANGED <<deps, link, depth, approved, project, replans, handoff, pipe, rejecting, beside>>

AllComplete == \A t \in Task : status[t] \in Complete \cup {"ABSENT"}
\* The check has passed, and nothing is decided yet.
FoundComplete == run.pc \in {"review", "complete"}

\* Faulty: tasks that wait for the user or for a repair do not count.
CheckNothingQueued ==
  /\ run.pc = "check"
  /\ run' = IF \A t \in Task : status[t] \notin {"READY", "DRAFT"}
            THEN [run EXCEPT !.pc = "review"] ELSE IdleRun
  /\ UNCHANGED <<store, replans, handoff, pipe, rejecting, beside>>

\* projectIncompleteSummary
CheckComplete ==
  /\ run.pc = "check"
  /\ \/ AllComplete /\ run' = [run EXCEPT !.pc = "review"]
     \/ ~AllComplete /\ run' = IdleRun
  /\ UNCHANGED <<store, replans, handoff, pipe, rejecting, beside>>

\* runProjectFinalReview: no reviewer, a broken one and an approving one let
\* the project pass; a rejection re-plans while the budget lasts.
FinalReview ==
  /\ run.pc = "review"
  /\ \/ run' = [run EXCEPT !.pc = "complete"] /\ UNCHANGED late
     \/ /\ replans >= MaxReplans
        /\ run' = IdleRun /\ late' = {}
     \/ /\ replans < MaxReplans
        /\ \E n \in 1..MaxDelta : run' = [run EXCEPT !.pc = "delta", !.left = n]
        /\ late' = {}
  /\ UNCHANGED <<store, replans, handoff, pipe, rejecting, planning, early>>

\* deltaReplan: each planned task is created, then made READY.
DeltaCreate ==
  /\ run.pc = "delta"
  /\ \E n \in Task :
       /\ \E d \in TitleDepths : CreateTask(n, d)
       /\ run' = [run EXCEPT !.pc = "delta_queue", !.new = n]
  /\ UNCHANGED <<deps, link, approved, project, replans, handoff, pipe, rejecting, beside>>

DeltaQueue ==
  /\ run.pc = "delta_queue"
  /\ TransitionTask(run.new, "READY")
  /\ \/ /\ run.left = 1
        /\ run' = [run EXCEPT !.left = 0, !.new = NoTask, !.pc = "top"]
        /\ replans' = replans + 1
     \/ /\ run.left > 1
        /\ run' = [run EXCEPT !.left = @ - 1, !.new = NoTask, !.pc = "delta"]
        /\ UNCHANGED replans
  /\ UNCHANGED <<deps, link, depth, approved, project, handoff, pipe, rejecting, beside>>

CompleteProject ==
  /\ run.pc = "complete"
  /\ project' = "COMPLETED"
  /\ run' = IdleRun /\ late' = {}
  /\ UNCHANGED <<status, deps, link, depth, approved, replans, handoff, pipe, rejecting,
                 planning, early>>

RunLoop ==
  \/ Top \/ ListReady \/ Claim \/ (\E s \in Slots : Dispatch(s))
  \/ Drained \/ Return \/ ContinueAfterFailure \/ RunFails
  \/ BlockList \/ BlockOne \/ CheckComplete \/ FinalReview
  \/ DeltaCreate \/ DeltaQueue \/ CompleteProject

-----------------------------------------------------------------------------
\* The pipeline of one claimed task (runClaimedTaskPipeline). A refused
\* transition, like any other store, emit or memory error, is PipelineAborts
\* or, inside the tester and the reviewer, StageErrors.

\* Faulty: the parallel loop counts successful tasks only.
PipelineEndsOk(s, ok) ==
  /\ pipe' = [pipe EXCEPT ![s] = FreeSlot]
  /\ \/ ok /\ Parallel /\ run' = [run EXCEPT !.ran = @ + 1]
     \/ ok /\ ~Parallel /\ run' = [run EXCEPT !.ran = @ + 1, !.pc = "top"]
     \/ ~ok /\ Parallel /\ UNCHANGED run
     \/ ~ok /\ ~Parallel /\ run' = [run EXCEPT !.pc = "failed"]

\* Goroutine s is done: the parallel loop counts every task, the sequential
\* one counts the successful ones and looks for other work after a failure.
PipelineEnds(s, ok) ==
  /\ pipe' = [pipe EXCEPT ![s] = FreeSlot]
  /\ \/ Parallel /\ run' = [run EXCEPT !.ran = @ + 1]
     \/ ~Parallel /\ ok /\ run' = [run EXCEPT !.ran = @ + 1, !.pc = "top"]
     \/ ~Parallel /\ ~ok /\ run' = [run EXCEPT !.pc = "failed"]

At(s, pc) == pipe[s].pc = pc
Goto(s, pc) == pipe' = [pipe EXCEPT ![s].pc = pc]
GotoRepair(s) == pipe' = [pipe EXCEPT ![s].pc = "repair", ![s].target = pipe[s].task]

\* executor.Execute on the claimed task: finished, failed, or asking the user.
\* Both failures are an ExecutionError with an attempt.
Execute(s) ==
  /\ At(s, "execute")
  /\ \/ TransitionTask(pipe[s].task, "IMPLEMENTED") /\ Goto(s, "test")
     \/ TransitionTask(pipe[s].task, "FAILED") /\ GotoRepair(s)
     \/ TransitionTask(pipe[s].task, "NEED_USER_INPUT") /\ GotoRepair(s)
  /\ UNCHANGED <<deps, link, depth, approved, project, replans, run, handoff, rejecting, beside>>

StartTest(s) ==
  /\ At(s, "test")
  /\ TransitionTask(pipe[s].task, "TESTING")
  /\ Goto(s, "testing")
  /\ UNCHANGED <<deps, link, depth, approved, project, replans, run, handoff, rejecting, beside>>

Test(s) ==
  /\ At(s, "testing")
  /\ \/ TransitionTask(pipe[s].task, "REVIEWING") /\ Goto(s, "review")
     \/ TransitionTask(pipe[s].task, "FAILED") /\ GotoRepair(s)
  /\ UNCHANGED <<deps, link, depth, approved, project, replans, run, handoff, rejecting, beside>>

\* The reviewer approves and completes the attempt, approves and fails to
\* complete the attempt, or rejects.
Review(s) ==
  /\ At(s, "review")
  /\ \/ /\ TransitionTask(pipe[s].task, "DONE")
        /\ approved' = approved \cup {pipe[s].task}
        /\ \/ pipe' = [pipe EXCEPT ![s].pc = "credit", ![s].target = pipe[s].task]
           \/ GotoRepair(s)
     \/ /\ TransitionTask(pipe[s].task, "REVIEW_FAILED")
        /\ GotoRepair(s)
        /\ UNCHANGED approved
  /\ UNCHANGED <<deps, link, depth, project, replans, run, handoff, rejecting, beside>>

\* Any error of the tester or the reviewer, an LLM error included, leads to a
\* repair with the task's status as it is.
StageErrors(s) ==
  /\ pipe[s].pc \in {"test", "testing", "review"}
  /\ GotoRepair(s)
  /\ UNCHANGED <<store, replans, run, handoff, rejecting, beside>>

\* Any error outside executor, tester and reviewer, or a cancelled context.
PipelineAborts(s) ==
  /\ Busy(s)
  /\ PipelineEnds(s, FALSE)
  /\ UNCHANGED <<store, replans, handoff, rejecting, beside>>

-----------------------------------------------------------------------------
\* createRepairTask.

\* The task as it is now decides whether it will be marked FAILED.
ReadFailed(s) ==
  LET t == pipe[s].task
      markable == CanTransition(status[t], "FAILED") /\ status[t] # "FAILED"
  IN  /\ At(s, "repair")
      /\ \/ markable /\ Goto(s, "marking")
         \/ ~markable /\ Goto(s, "keeping")
      /\ UNCHANGED <<store, replans, run, handoff, rejecting, beside>>

\* rootRepairTargetID, one hop.
FindRoot(s) ==
  /\ At(s, "marking") \/ At(s, "keeping")
  /\ link[pipe[s].target] # NoTask
  /\ pipe' = [pipe EXCEPT ![s].target = link[pipe[s].target]]
  /\ UNCHANGED <<store, replans, run, handoff, rejecting, beside>>

\* Faulty: the depth limit is compared one too late.
MarkFailedLate(s) ==
  LET t == pipe[s].task
  IN  /\ \/ At(s, "marking") /\ TransitionTask(t, "FAILED")
         \/ At(s, "keeping") /\ UNCHANGED status
      /\ link[pipe[s].target] = NoTask
      /\ \/ depth[t] <= MaxRepairDepth /\ Goto(s, "create")
         \/ depth[t] > MaxRepairDepth /\ Goto(s, "replan")
      /\ UNCHANGED <<deps, link, depth, approved, project, replans, run, handoff, rejecting, beside>>

\* At the root: the decision of ReadFailed is carried out, on a task that may
\* have moved since; beyond the depth limit the planner is asked instead of a
\* fix created.
MarkFailed(s) ==
  LET t == pipe[s].task
  IN  /\ \/ At(s, "marking") /\ TransitionTask(t, "FAILED")
         \/ At(s, "keeping") /\ UNCHANGED status
      /\ link[pipe[s].target] = NoTask
      /\ \/ depth[t] < MaxRepairDepth /\ Goto(s, "create")
         \/ depth[t] >= MaxRepairDepth /\ Goto(s, "replan")
      /\ UNCHANGED <<deps, link, depth, approved, project, replans, run, handoff, rejecting, beside>>

CreateFix(s) ==
  /\ At(s, "create")
  /\ \E n \in Task :
       /\ CreateTask(n, depth[pipe[s].task] + 1)
       /\ pipe' = [pipe EXCEPT ![s].pc = "linking", ![s].new = n]
  /\ UNCHANGED <<deps, link, approved, project, replans, run, handoff, rejecting, beside>>

\* Faulty: the failed task is linked to its repair.
LinkFixBackwards(s) ==
  /\ At(s, "linking")
  /\ link' = [link EXCEPT ![pipe[s].target] = pipe[s].new]
  /\ Goto(s, "queueing")
  /\ UNCHANGED <<status, deps, depth, approved, project, replans, run, handoff, rejecting, beside>>

\* The repair.linked event.
LinkFix(s) ==
  /\ At(s, "linking")
  /\ link' = [link EXCEPT ![pipe[s].new] = pipe[s].target]
  /\ Goto(s, "queueing")
  /\ UNCHANGED <<status, deps, depth, approved, project, replans, run, handoff, rejecting, beside>>

QueueFix(s) ==
  /\ At(s, "queueing")
  /\ TransitionTask(pipe[s].new, "READY")
  /\ PipelineEnds(s, FALSE)
  /\ UNCHANGED <<deps, link, depth, approved, project, replans, handoff, rejecting, beside>>

\* The repair limit: deltaReplan, without looking at the re-plan budget.
ReplanStart(s) ==
  /\ At(s, "replan")
  /\ \E n \in 1..MaxDelta : pipe' = [pipe EXCEPT ![s].pc = "delta", ![s].left = n]
  /\ UNCHANGED <<store, replans, run, handoff, rejecting, beside>>

ReplanCreate(s) ==
  /\ At(s, "delta")
  /\ \E n \in Task :
       /\ \E d \in TitleDepths : CreateTask(n, d)
       /\ pipe' = [pipe EXCEPT ![s].pc = "delta_queue", ![s].new = n]
  /\ UNCHANGED <<deps, link, approved, project, replans, run, handoff, rejecting, beside>>

ReplanQueue(s) ==
  /\ At(s, "delta_queue")
  /\ TransitionTask(pipe[s].new, "READY")
  /\ \/ pipe[s].left = 1 /\ PipelineEnds(s, FALSE) /\ replans' = replans + 1
     \/ /\ pipe[s].left > 1
        /\ pipe' = [pipe EXCEPT ![s].pc = "delta", ![s].left = @ - 1]
        /\ UNCHANGED <<replans, run>>
  /\ UNCHANGED <<deps, link, depth, approved, project, handoff, rejecting, beside>>

-----------------------------------------------------------------------------
\* completeRepairedTask, after an approval: up the repair links from target.

\* Read the linked task: without one the pipeline succeeds; a failed one is
\* credited with the repair, any other is passed over.
Credit(s) ==
  LET f == link[pipe[s].target]
  IN  /\ At(s, "credit")
      /\ \/ f = NoTask /\ PipelineEnds(s, TRUE)
         \/ f # NoTask /\ status[f] \in Failed /\ Goto(s, "crediting") /\ UNCHANGED run
         \/ /\ f # NoTask /\ status[f] \notin Failed
            /\ pipe' = [pipe EXCEPT ![s].target = f]
            /\ UNCHANGED run
      /\ UNCHANGED <<store, replans, handoff, rejecting, beside>>

CreditDone(s) ==
  LET f == link[pipe[s].target]
  IN  /\ At(s, "crediting")
      /\ TransitionTask(f, "DONE")
      /\ pipe' = [pipe EXCEPT ![s].pc = "supersede", ![s].target = f]
      /\ UNCHANGED <<deps, link, depth, approved, project, replans, run, handoff, rejecting, beside>>

\* Faulty: every failed task of the project counts as superseded.
SupersedeAnyFailed(s) ==
  LET others == {t \in Task : status[t] \in Failed /\ t # pipe[s].task}
  IN  /\ At(s, "supersede")
      /\ \/ others = {} /\ Goto(s, "credit")
         \/ /\ others # {}
            /\ pipe' = [pipe EXCEPT ![s].pc = "superseding", ![s].todo = others]
      /\ UNCHANGED <<store, replans, run, handoff, rejecting, beside>>

\* completeSupersededRepairTasks: the failed repairs of the same task ...
SupersedeList(s) ==
  LET others == {t \in Task : /\ status[t] \in Failed
                              /\ link[t] = pipe[s].target
                              /\ t # pipe[s].task}
  IN  /\ At(s, "supersede")
      /\ \/ others = {} /\ Goto(s, "credit")
         \/ /\ others # {}
            /\ pipe' = [pipe EXCEPT ![s].pc = "superseding", ![s].todo = others]
      /\ UNCHANGED <<store, replans, run, handoff, rejecting, beside>>

\* ... one at a time.
SupersedeOne(s) ==
  /\ At(s, "superseding")
  /\ \E t \in pipe[s].todo :
       /\ \A u \in pipe[s].todo : t <= u
       /\ TransitionTask(t, "DONE")
       /\ pipe' = [pipe EXCEPT ![s].todo = @ \ {t},
                               ![s].pc = IF pipe[s].todo = {t} THEN "credit" ELSE @]
  /\ UNCHANGED <<deps, link, depth, approved, project, replans, run, handoff, rejecting, beside>>

PipelineStep(s) ==
  \/ Execute(s) \/ StartTest(s) \/ Test(s) \/ Review(s) \/ StageErrors(s)
  \/ ReadFailed(s) \/ FindRoot(s) \/ MarkFailed(s) \/ CreateFix(s) \/ LinkFix(s) \/ QueueFix(s)
  \/ ReplanStart(s) \/ ReplanCreate(s) \/ ReplanQueue(s)
  \/ Credit(s) \/ CreditDone(s) \/ SupersedeList(s) \/ SupersedeOne(s)
  \/ PipelineAborts(s)

-----------------------------------------------------------------------------
\* PlanProject beside the run, by the goroutine of a user's request: the
\* project's first plan, or a re-plan (ReplanProject). Nothing keeps it from
\* coming while the project runs. Bound: one of them at a time.

\* The planner has answered: its tasks are created one by one; after the last
\* one the plan's dependencies, without cycles, are those still to store.
PlanCreate ==
  /\ planning.pc \in {"none", "create"}
  /\ Cardinality(planning.made) < MaxPlanned
  /\ \E n \in Task :
       LET made == planning.made \cup {n}
       IN  /\ \E d \in TitleDepths : CreateTask(n, d)
           /\ \/ planning' = [planning EXCEPT !.pc = "create", !.made = made]
              \/ \E needs \in {D \in SUBSET (made \X made) : Acyclic(D)} :
                   planning' = [pc |-> "queue", made |-> made, needs |-> needs]
           /\ late' = IF FoundComplete THEN late \cup {n} ELSE late
  /\ UNCHANGED <<deps, link, approved, project, memory, early>>

\* A dependency is stored. Its task waits for that, unless a retry has made it
\* READY and a run has claimed it since, or is about to.
PlanDepend ==
  /\ planning.pc = "queue"
  /\ \E t, d \in planning.made :
       /\ <<t, d>> \in planning.needs
       /\ deps' = deps \cup {<<t, d>>}
       /\ planning' = [planning EXCEPT !.needs = @ \ {<<t, d>>}]
       /\ early' = IF status[t] \in {"DRAFT", "BLOCKED"} /\ t \notin run.cand
                   THEN early ELSE early \cup {t}
  /\ UNCHANGED <<status, link, depth, approved, project, memory, late>>

\* The validator accepts a task or blocks it, whatever its status has become.
PlanQueue ==
  /\ planning.pc = "queue" /\ planning.needs = {}
  /\ \E t \in planning.made :
       /\ \A u \in planning.made : t <= u
       /\ TransitionTask(t, "READY") \/ TransitionTask(t, "BLOCKED")
       /\ \/ planning.made = {t} /\ planning' = NoPlan
          \/ planning.made # {t} /\ planning' = [planning EXCEPT !.made = @ \ {t}]
  /\ UNCHANGED <<deps, link, depth, approved, project, memory, early, late>>

\* The store refuses a step, or the request is cancelled: nobody goes on.
PlanStops ==
  /\ planning.pc # "none"
  /\ planning' = NoPlan
  /\ UNCHANGED <<store, memory, early, late>>

PlanStep == PlanCreate \/ PlanDepend \/ PlanQueue \/ PlanStops

-----------------------------------------------------------------------------
\* The user, and the end of the process.

\* RetryTask: every status it reads as retryable, and no other, may become
\* READY, so that its read and its transition are one step.
RetryTask(t) ==
  /\ status[t] \in Retryable
  /\ TransitionTask(t, "READY")
  /\ UNCHANGED <<deps, link, depth, approved, project, memory, beside>>

\* HandleUserConfirmation, approved; the same holds of its read.
Approve(t) ==
  /\ status[t] = "NEED_USER_INPUT"
  /\ TransitionTask(t, "READY")
  /\ UNCHANGED <<deps, link, depth, approved, project, memory, beside>>

\* HandleUserConfirmation, rejected: the read ...
RejectRead(t) ==
  /\ status[t] = "NEED_USER_INPUT"
  /\ Cardinality(rejecting) < MaxRejections
  /\ rejecting' = rejecting \cup {t}
  /\ UNCHANGED <<store, replans, run, handoff, pipe, beside>>

\* ... and the transition, whatever the task's status has become.
RejectApply(t) ==
  /\ t \in rejecting
  /\ rejecting' = rejecting \ {t}
  /\ \/ TransitionTask(t, "BLOCKED")
     \/ ~CanTransition(status[t], "BLOCKED") /\ UNCHANGED status
  /\ UNCHANGED <<deps, link, depth, approved, project, replans, run, handoff, pipe, beside>>

\* The process ends and comes back: the store is all that is left.
Crash ==
  /\ replans' = 0
  /\ run' = IdleRun
  /\ handoff' = {}
  /\ pipe' = [s \in Slots |-> FreeSlot]
  /\ rejecting' = {}
  /\ planning' = NoPlan
  /\ late' = {}
  /\ UNCHANGED <<store, early>>

Next ==
  \/ RunStart \/ RunLoop \/ PlanStep \/ Crash
  \/ \E s \in Slots : PipelineStep(s)
  \/ \E t \in Task : RetryTask(t) \/ Approve(t) \/ RejectRead(t) \/ RejectApply(t)

\* The goroutine of the loop and those of the pipelines keep running: every
\* LLM, tool and store call in them ends, if only by its timeout.
Fairness == /\ WF_vars(RunLoop)
            /\ \A s \in Slots : WF_vars(PipelineStep(s))

Spec == Init /\ [][Next]_vars /\ Fairness

-----------------------------------------------------------------------------
(***************************************************************************)
(* Properties.                                                             *)
(***************************************************************************)

TaskOrNone == Task \cup {NoTask}

\* The shape of the state.
BesideOK ==
  /\ planning \in [pc : {"none", "create", "queue"}, made : SUBSET Task,
                    needs : SUBSET (Task \X Task)]
  /\ early \subseteq Task /\ late \subseteq Task
TypeOK ==
  /\ status \in [Task -> Status \cup {"ABSENT"}]
  /\ deps \subseteq Task \X Task
  /\ link \in [Task -> TaskOrNone]
  /\ depth \in [Task -> Nat]
  /\ approved \subseteq Task
  /\ project \in {"ACTIVE", "COMPLETED"}
  /\ replans \in Nat
  /\ run \in [pc : RunPC, iter : Nat, ran : Nat, cand : SUBSET Task,
              todo : SUBSET Task, left : Nat, new : TaskOrNone]
  /\ handoff \subseteq Task
  /\ pipe \in [Slots -> [pc : PipePC, task : TaskOrNone, target : TaskOrNone,
                         new : TaskOrNone, left : Nat, todo : SUBSET Task]]
  /\ rejecting \subseteq Task
  /\ BesideOK

\* A task that was ever claimed, whatever became of it, had all its
\* dependencies DONE and has them still: the scheduler's two reads, the claim
\* transaction, and in between the user's retries of any task and a re-plan
\* that is stored row by row (ready.go:83-126, sqlite_tasks.go:379-425,
\* service_run.go:322-347, service_planning.go:69-117). The exception: a task
\* that a retry made READY while its own plan had still to store one of them.
WasClaimed == {"IN_PROGRESS", "IMPLEMENTED", "TESTING", "REVIEWING", "DONE",
               "NEED_USER_INPUT", "REVIEW_FAILED", "FAILED"}
DepsRespected == \A t \in Task \ early : status[t] \in WasClaimed => DepsDone(t)

\* S contains, with a task, what its completion completes: the task it repairs
\* and the other repairs of that task.
Closed(S) == \A t \in S : link[t] # NoTask =>
               /\ link[t] \in S
               /\ \A u \in Task : link[u] = link[t] => u \in S

\* t follows from reviewer approvals: it is in every such set that holds them.
Earned(t) == \A S \in SUBSET Task : approved \subseteq S /\ Closed(S) => t \in S

\* No task is DONE unless the reviewer approved it, or approved a repair that
\* leads to it through repair links, or a repair of what it repairs - with
\* retries, confirmations, crashes and other pipelines between the steps of
\* completeRepairedTask (service_repair.go:121-190).
DoneIsEarned == \A t \in Task : status[t] = "DONE" => Earned(t)

\* While the loop finalizes, none of its goroutines runs, and what the final
\* review judges and CompleteProject completes is complete: no retry, repair or
\* rejection opens work between the check and the completion
\* (final_review.go:28-68, service_run.go:498-516). What a re-plan adds in
\* between is the one exception: the check is not repeated, and the project is
\* COMPLETED with those tasks open.
ReviewsOnlyCompleteWork ==
  FoundComplete =>
    AllFree /\ \A t \in Task \ late : status[t] \in Complete \cup {"ABSENT"}

\* What ProjectContract knows of a task.
PhaseOf(st) ==
  CASE st = "ABSENT" -> "absent"
    [] st \in {"DRAFT", "READY", "BLOCKED"} -> "open"
    [] st \in {"IN_PROGRESS", "IMPLEMENTED", "TESTING", "REVIEWING"} -> "working"
    [] st \in {"NEED_USER_INPUT", "REVIEW_FAILED", "FAILED"} -> "stuck"
    [] st \in Complete -> "done"

Contract == INSTANCE ProjectContract WITH
  Tasks <- Task,
  phase <- [t \in Task |-> PhaseOf(status[t])],
  needs <- deps,
  waived <- early,
  repairs <- {p \in Task \X Task : link[p[1]] = p[2]},
  looked <- FoundComplete,
  finished <- project = "COMPLETED"

\* The run, its goroutines, the users, a re-plan beside the run and the crashes
\* keep the contract of the project's tasks at every step: a task is claimed
\* when its dependencies are done (a user who retries it too early waives
\* them), is done for good and by an approval that reaches it, is linked once,
\* gets no dependency once it is under way, and the project is completed when
\* all its tasks are but those a re-plan added after the check (service_run.go,
\* service_repair.go, service_planning.go:69-117, final_review.go:28-68).
KeepsContract == Contract!Spec

\* RunProjectTasks returns only when its goroutines have ended, on every error
\* path: the queue may start the project's next run then (service_run.go:493-551).
NoPipelineOutlivesRun == run.pc = "idle" => AllFree /\ handoff = {}

\* What a task repairs is of a lower depth, so that repair links have no cycle
\* and no chain of more than maxRepairDepth hops: neither the seen set nor the
\* 16 hops of rootRepairTargetID and completeRepairedTask ever end a walk early
\* - although a DRAFT repair may be retried, and fail, before it is linked
\* (service_repair.go:58-100, 121-160, 212-230).
RepairsDescend == \A t \in Task : link[t] # NoTask => depth[link[t]] < depth[t]

\* Repairs of repairs stop at the depth limit, whatever titles the planner gave
\* (service_repair.go:58-84).
RepairsBounded == \A t \in Task : link[t] # NoTask => depth[t] <= MaxRepairDepth

\* The parallel loop checks its two limits before it claims, not before it
\* dispatches: it may exceed the task limit by what was in flight and what one
\* claim returns, the iteration limit by what one claim returns, and by no more
\* (service_run.go:486-536).
OvershootBounded == Parallel => /\ run.ran <= RunLimit - 1 + 2 * Parallelism
                                /\ run.ran <= 2 * RunLimit - 1 + Parallelism

\* When the parallel loop ended and its tasks too, the limit was reached: the
\* finalization after it is never executed (service_run.go:537-550).
LoopExitMeansLimit == run.pc = "over_limit" /\ AllFree => run.ran >= RunLimit

\* Every run comes to an end, whatever fails and whatever the user retries
\* meanwhile: the loops' counters and the re-plan budget bound it.
RunTerminates == run.pc # "idle" ~> run.pc = "idle"

-----------------------------------------------------------------------------
(***************************************************************************)
(* What the repository's comments and documents say and the code does not  *)
(* do; each is the property of a run that refutes it.                      *)
(***************************************************************************)

\* final_review.go:15-16: maxProjectReplans bounds feedback-driven re-plans.
ReplansBounded == replans <= MaxReplans

\* service_run.go:457-459: tasks are claimed atomically, so the same task can
\* never run twice.
Undecided(s) == pipe[s].pc \in {"execute", "test", "testing", "review", "repair",
                                "marking", "keeping"}
NeverRunsTwice == \A r, s \in Slots :
  r # s /\ Undecided(r) /\ Undecided(s) => pipe[r].task # pipe[s].task

\* go_agent_runtime_prd.md:2910: recoverable after an interruption. Runs of the
\* project are started again and again; an interrupted task moves on.
Working == {"IN_PROGRESS", "IMPLEMENTED", "TESTING", "REVIEWING"}
InterruptedTaskResumes ==
  \A t \in Task : status[t] \in Working ~> status[t] \notin Working
ResumingSpec == Spec /\ WF_vars(RunStart)
=============================================================================
