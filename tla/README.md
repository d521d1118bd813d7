# A TLA+ model of agent-gogo

agent-gogo takes a goal, plans it into tasks, and drives each task through
executing, testing and reviewing until the project is complete. This directory
holds a formal model of the parts of that program whose correctness depends on
the order of events: TLA+ modules translated from the Go sources, TLC
configurations that check them on small instances, and theorems with proofs
checked by TLAPS. Paths below are relative to `src/internal/` unless they start
with `src/`, `docs/` or `configs/`.

## 1. Inventory

| Component | State | Operations | Interacts with |
|---|---|---|---|
| Run queue (`runtime/queue.go`) | dedup map `pending`, channel `work`, flag `started`, context, worker goroutines | `Start`, `Submit`, `worker`, `markDone`, `Stop` | `app/web.go` submits on channel events and on session resume; the runner is `RunProjectTasks` |
| Run loop (`runtime/service_run.go`) | loop counters, goroutines of the parallel loop | `RunProjectTasks`, `runProjectTasksParallel`, `runClaimedTask`, `RetryTask`, `HandleUserConfirmation`, `HandleChannelEvent` | scheduler, executor, tester, reviewer, store |
| Repair (`runtime/service_repair.go`) | `repair.linked` events, "Fix: " prefixes of titles | `createRepairTask`, `completeRepairedTask`, `completeSupersededRepairTasks` | called by the pipeline after a failure and after an approval |
| Finalization (`runtime/final_review.go`) | `replansByProject` (in memory) | `finalizeProjectRun`, `runProjectFinalReview`, `deltaReplan` | project reviewer, planner, store |
| Task state machine (`domain/status.go`) | none | `CanTransitionTask` | every `TransitionTask` |
| Scheduler (`scheduler/ready.go`) | none | `NextReadyTask`, `ClaimNextReadyTasks` | store |
| Task store (`store/`) | tasks, dependencies, events, attempts, evidence, sessions | `CreateTask`, `TransitionTask`, `ClaimTasks`, ... each one transaction; one connection | everything |
| Planning (`planner/`, `runtime/service_planning.go`, `validator/`) | the plan in memory, then tasks and dependencies in the store | decomposition, normalisation and pruning of dependencies, `PlanProject` | LLM, store, a run in progress |
| Executor, tester, reviewers (`executor/`, `tester/`, `reviewer/`) | the action loop's history; attempts, observations, test results | `Execute`, `Test`, `Review`, `ReviewProject` | LLM, tools, store |
| Tool runtime and capability policy (`tools/runtime.go`, `capability/`) | the policy; audit and artifact rows | `Call`, `ResolveTool`, `UseSecurityPolicy` | executor, confirmation gate |
| Tool confirmation (`app/web.go`) | `pending` map of reply channels | `Confirm`, `Resolve`, `forget` | tool runtime, communication, HTTP handlers |
| Communication (`communication/`) | outbox records | `Dispatch` | channels |
| MCP client (`mcp/client.go`) | pending requests, ids, the reader goroutine | `Initialize`, `call`, `register`, `deliver` | external servers |
| Browser (`provider/chromemcpbridge/`, `provider/chrome_mcp.go`, `browser/`) | the bridge, its Chrome, the last page | open, click, type, input, wait, extract, screenshot, close | Chrome, browser tools |
| Code index (`tools/codeindex_cache.go`, `codeindex/`) | two caches and the file they share | `get`, `invalidate`, `load`, `saveLocked` | file tools, discovery |
| Memory index (`memory/index.go`) | items and a JSONL file | `Add`, `Remove`, `Persist`, `LoadJSONL` | tasks that end, console |
| Skills and personas (`skill/`, `persona/`) | a map of cards, markdown files | `Discover`, `Create`, `Update`, `Delete`, `Search`, `Load` | console, a run's context |
| LLM providers (`provider/swappable.go`, ...) | the provider in force, the names of models | `Chat`, `Swap`, `SetModel`, `UseLLM` | every component that asks a model |
| Settings (`config/config.go`, `channels/webconsole/api_config.go`) | config.yaml, environment, the console's view, the policy and provider in force | `Load`, `applyConfigPayload`, `updateRuntimeConfig`, `persistConfig` | tool runtime, LLM providers |
| Sessions (`session/service.go`, `channels/webconsole/api_sessions.go`) | rows, runtime contexts, the active session | `FindOrCreate`, `BindProject`, `Complete`, `resumeSession`, delete | command-line runs, web console |
| Event stream (`channels/webconsole/sse_hub.go`) | subscribers, channels, history | `Subscribe`, `Publish`, `Replay`, `Unsubscribe` | adapters, HTTP handlers |
| Context, prompts, intent, chain, functions, discovery, observability | none that outlives a call | text assembly, requests to the model, read-only probes, logging | the runtime |
| Front end (`src/web`) | the console's stores | rendering | HTTP API |

The hard behaviours are concurrency (the queue's workers against submitters and
`Stop`; the goroutines of one project's run against each other, against the loop
that waits for them, against the user's retries and confirmations and against a
plan being stored; HTTP handlers against each other and against runs), partial
failure (every multi-call handler may stop between two writes), time-outs that
race a late answer (confirmations, MCP, browser), restarts (only the store and
the files survive) and limits (queue buffer, task limit, repair depth, re-plan
budget, action steps, channel sizes). What makes each component correct:

* queue: never two runs of a project, no mark left behind, accepted work is run,
  `Stop` ends the workers;
* run loop: dependencies first, a run ends, and when it ends its goroutines have;
* repair: DONE only through a review, bounded depth, only one's own targets;
* finalization: judges a finished project and completes only such a one, within
  the re-plan budget;
* planning: what is stored has no cycle, loses no order without need, starts with
  research and ends with verification; no task starts before what it depends on;
* executor and tester: two sets of rules for one verdict, DONE is evidenced;
* confirmation, MCP: a parked call is answered at most once, by its own answer,
  and ends;
* browser: one Chrome at a time, none left by the bridge that is closed;
* caches and files: what was acknowledged is served and survives a restart;
* sessions: work that was interrupted is found again;
* event stream: a consumer that keeps up misses nothing;
* model: a change reaches every call.

`PROJECT.json` lists the hazards at their lines.

## 2. Modules

| Module | Models | Checked by |
|---|---|---|
| `ProjectPhases` | abstract: each project is idle, queued or running | `queue`, theorem |
| `TaskQueue`, `MCTaskQueue`, `TaskQueue_proofs` | the run queue | `queue`, theorems |
| `TaskDomain` | the task state machine and the status sets of the runtime | every module with tasks |
| `ProjectContract` | abstract: what a run promises about the project's tasks | refined by `ProjectRun`, `run_sequential`, theorem |
| `ProjectRun`, `MCProjectRun`, `ProjectRun_proofs`, `ProjectRunSafety_proofs` | the run of one project: loop, pipelines, repairs, finalization, plans stored beside it, user, restarts | `run_*`, `replan_budget`, `never_twice`, `interrupted`, theorems |
| `DependencyGraph` | reachability, by definition | `plan` |
| `DependencyWalk` | the code's depth-first search for a path | `plan`, theorem |
| `PlanDependencies`, `PlanDependencies_proofs` | normalising and pruning dependencies, twice | `plan`, theorems |
| `PlanDecomposition` | what the planner adds to and takes from the LLM's tasks | `plan` |
| `PlanIntake` | storing a plan step by step while a run claims tasks | `components` |
| `TaskWork` | one task through executor, tester and reviewer, and at rest | `components` |
| `ToolCalls`, `MCToolCalls`, `ToolCalls_proofs` | a tool call: policy, confirmation gate, handler, audit | `tools`, `confirm_button`, theorems |
| `OneShotReply` | abstract: a parked caller and its one answer | refined by `ToolCalls` and `MCPClient`, theorems |
| `MCPClient` | requests, replies and the reader of an MCP server | `components` |
| `BrowserBridge` | the bridge, Chrome and the calls that share them | `components` |
| `MemoryIndex` | memories and their file | `components` |
| `CodeIndex` | the index' caches and their file | `components` |
| `ConsoleSettings` | settings from file and environment to tool runtime and back | `components`, `shell_switch` |
| `Sessions` | session rows between command-line runs and the console | `components` |
| `EventStream` | the hub, its publishers and its connections | `components` |
| `AssetRegistry` | skills and personas: cards, files, console, a planning | `plan` |
| `ModelProvider` | the model in force and its change under calls | `plan` |
| `MCComponents`, `MCPlanning` | several of the above side by side for TLC | |
| `MCComponents_proofs` | proofs about `BrowserBridge`, `MCPClient`, `PlanIntake`, `CodeIndex`, `MemoryIndex` | theorems |
| `MCComponentsConsole_proofs` | proofs about `ConsoleSettings`, `Sessions`, `TaskWork`, `EventStream`, and the types of all nine | theorems |
| `MCPlanning_proofs` | proofs about `ModelProvider`, `AssetRegistry`, `PlanDecomposition` | theorems |

### TaskQueue

`started`, `pending`, `work` and `cancelled` are the fields of `TaskQueue`.
`Submit` is two or three steps, as in the code: the first critical section
(`SubmitMark`), the non-blocking send outside the mutex (`SubmitSend`) and, when
the buffer is full, the second critical section (`SubmitUnmark`). A worker is
selecting, running or gone. `TakeWork` and `Exit` are the two cases of its
`select`, both enabled when both are ready. The runner is the time between
`TakeWork` and `Finish`. `Stop` is its critical section, the cancellation and the
wait, which may time out. `web.go` starts the queue once, so a second `Start` is
left out; so are the statistics.

### ProjectRun

The store's part (`status`, `deps`, `link`, `depth`, `project`) survives `Crash`;
the memory's part (`run`, `handoff`, `pipe`, `replans`, `rejecting`, `planning`)
does not.
Every store write is one step, since the store runs each in a transaction on a
single connection, and reads whose result is used after other goroutines may have
moved are steps of their own:

* the loop (`run.pc`): `Top` is the loop condition, `ListReady` the scheduler's
  reads, `Claim` the claim transaction, `Dispatch` the semaphore and `go`,
  `Drained` and `Return` the `wg.Wait` calls, `ContinueAfterFailure` the
  sequential loop's look for recovery work. With one slot the loop is
  `RunProjectTasks` (its error return, counters and `ErrNoRows` path), with more
  `runProjectTasksParallel`;
* finalization: `BlockList`/`BlockOne` (snapshot, then one transition per task),
  `CheckComplete`, `FinalReview`, `DeltaCreate`/`DeltaQueue`, `CompleteProject`;
* a pipeline (`pipe[s]`): `Execute`, `StartTest`, `Test`, `Review`, and after a
  failure `ReadFailed`, `FindRoot`, `MarkFailed`, `CreateFix`, `LinkFix`, `QueueFix` or
  `ReplanStart`, `ReplanCreate`, `ReplanQueue`; after an approval `Credit`,
  `CreditDone`, `SupersedeList`, `SupersedeOne`;
* `PlanProject` beside the run, from the goroutine of a user's request, for a first
  plan or a re-plan: `PlanCreate`, `PlanDepend`, `PlanQueue`, one store call each, and
  `PlanStops` for an error or a cancelled request. Nothing orders these steps with
  the loop's: tasks may appear between the completeness check and COMPLETED
  (final_review.go:37, 61), where an LLM's review lies;
* errors: `RunFails`, `StageErrors` and `PipelineAborts` are always possible at
  the places where the code returns an error, including a refused transition;
* the user: `RetryTask`, `Approve`, `RejectRead`/`RejectApply`. The read and the
  write of a retry or an approval are one step because every status from which
  READY may be entered is one the handler accepts, so an outdated read has no
  outcome that a fresh one has not; a rejection's are two, for its late
  transition can hit READY and IN_PROGRESS tasks.

Abstracted: titles become the repair depth; evidence, attempts, LLM answers and
tool calls become a choice of outcome, and the executor's action loop is one step
(`TaskWork` has the detail); task ids are given in creation order, which is how
`ListTasksByProject` sorts. An LLM that plans a delta returns between one and
`MaxDelta` tasks or fails. Nothing keeps the planner's titles from beginning
with "Fix: " (those of service_test.go:339-452 do), so a task it gives has any depth
of `TitleDepths`. The walks along repair links stop in the code at a task they have
seen and after 16 hops; the model has neither stop, because links lead to tasks of
a lower depth and a linked task is at most `maxRepairDepth` deep
(`RepairLinksDescend`, `RepairDepthBounded`), which with the code's limit is three
hops. The finalization below the parallel loop (service_run.go:541-549) is left out because
it cannot be reached: `LoopExitMeansLimit`.

Two history variables name what the code does not prevent. `early` has the tasks
that a retry let start before their plan had stored all their dependencies
(`DepsRespected` excepts them). `late` has the tasks a plan added since the check
that found the project complete, until that finalization is decided:
`ReviewsOnlyCompleteWork` excepts them, because the check is not repeated and the
project does become COMPLETED with such tasks open.

`ProjectRun` begins with a project that `PlanProject` left, an acyclic set of
dependencies among its tasks, each READY or BLOCKED by the validator, or with none
planned yet (`PlannedTasks` 0); `StoredPlanAcyclic` is why a plan has no cycle. There is
one loop, because the queue runs a project at most once at a time:
`OneRunPerProject`, and one plan at a time, which is a bound.

`ProjectContract` is the run as a reader of the task list sees it: each task absent,
open, working, stuck or done, which task needs which, which repairs which, whose
own work was approved, and whether the project is finished. It allows tasks and
needs to be added at any time and has the two exceptions as its own words: a task
whose needs came too late is not held to them (`waived`), and what comes after the
look that decides on the end does not hold it up (`late`). `KeepsContract` maps
the twelve statuses to the five phases (`PhaseOf`) and hides the loop, the
goroutines and everything in memory.

### Planning: PlanDecomposition, PlanDependencies, DependencyWalk, PlanIntake

A task of a plan is its title, its dependencies by title and its marks: the lists
of marker words its text matches. `PlanDecomposition` is what
`ensureResearchAndReflectionTasks`, the pruning of small requests, the size limits
and `ensureL3MinimumDecomposition` make of the LLM's tasks. `PlanDependencies`
takes that plan through `normalizePlannedDependencies`, the conversion to domain
tasks and `normalizeTaskDependencies`; pruning is one step per task and dependency
because what it cuts depends on what it has not looked at yet (`Prune`, `NextTask`,
`edges` being `depsByTitle`). `Reaches` says by definition what
pruning asks; `DependencyWalk` is how the code answers, its depth-first search as
calls on a stack that share one set of seen titles. The conversion drops the
description of a task that has a goal (planner/llm.go:74), so that `Convert` may take
any of the marks of any such task; `forgot` records when that hit the planner's
research or reflection task, whose place the second normalisation then gives to
another task, or to none.

`PlanIntake` is `PlanProject` writing to the store: tasks as DRAFT, dependencies,
validation and queueing one by one, stopping anywhere on an error, for a goal and
for a re-plan that arrives while the project's run claims tasks in three reads and
writes and the user retries. A task the user retries while it is still DRAFT
starts without its dependencies; the property names that exception.

### TaskWork

One task between its claim and its rest, over the words its text contains: each
group of marker words a rule of executor or tester looks for is one element. The
executor's loop (`Tool`, `RejectRepeated`, `ChooseFinish`, `Unsupported`,
`finishWithoutTools`, `AskUser`, `AutoFinish`, `Fail`), the attempt row, the
tester's rules over the rows of the last attempt and the reviewer; and what others
do to the task at rest: `RetryTask`, the user's answer to either end, and
`CompleteRepaired`, by which the pipeline of a repair makes the failed task DONE
without an attempt of its own that passed (`repaired`, the exception of
`DoneIsEvidenced`). The LLM chooses any tool at any step. A result is a success, a failure, or a success whose audit
row was lost because its context had ended.

### ToolCalls, MCPClient, OneShotReply

`OneShotReply` is a caller that parks itself on a one-element channel. The
confirmation gate of `app/web.go` and the MCP client both refine it. `ToolCalls`
follows `Runtime.Call`: resolve against the policy, publish the card, wait for
answer, time-out or cancellation, deferred `forget`, handler, audit row and
artifact row; users answer twice, late or through the console's buttons.
`MCPClient` is the handshake, the pages of `tools/list` and parallel `tools/call`
requests: ids, the pending map, the reader goroutine that takes a channel out of
the map under the lock and sends after it, replies in any order, twice or never,
time-outs and the death of the server.

### BrowserBridge, MemoryIndex, CodeIndex, AssetRegistry, ModelProvider

`BrowserBridge`: a call is the list of steps its handler has left. `ensureChrome`
asks for the version without the mutex and starts Chrome with it; Chrome answers
late, never, or dies; a client that gives up leaves its handler running. The engine
may be closed before it was used, which closes nothing: a run still alive then
starts a bridge, and a Chrome, that nobody ends (`CloseUnused`; `OneChrome` is silent
on it).
`MemoryIndex`: `Persist` copies the items, opens the temporary file, writes and
renames, in steps, for several writers; a crash loads the file again. `CodeIndex`:
two caches share a file; a build is a step that sees the files of that moment, as far
as the index' limit and skip lists let it see them.
`AssetRegistry`: requests write the file, parse it back and register the card as
three steps, a planning searches the cards and reads each file again.
`ModelProvider`: the `RWMutex` with its waiting writer, and the three fields
`UseLLM` replaces one by one.

### ConsoleSettings, Sessions, EventStream

`ConsoleSettings` has one key for each way a setting can travel and the stages of a
request (view, runtime, the text for the file, the file), which overlap: the text is
composed from the view and written without a lock, so a slower request may write an
older text over a newer one (`newest`, `author`). The loader drops numbers that are
not positive, and the environment may set the key, the model, the shell switch or
the number. `Sessions` is rows read, changed and written back whole by two kinds of
process, with a second table of runtime contexts. Tasks are READY (`PlanProject`)
some messages before the context is saved (`EndPlanning`); a crash or an error may
come between, a failed save is only logged, and a console handler may have written
back a row it read before the project was bound (`kept`, `stale`). `EventStream` has the hub's lock sections as steps, the map
that is iterated after the lock is released, and the goroutine that drops a slow
consumer.

## 3. Runs

| Run | Instance | Shows |
|---|---|---|
| `queue` | 3 projects, 2 workers, 2 submitters, buffer 1 | `OneRunPerProject`, `MarkHasOneCarrier`, `AcceptedProjectRuns`, `WorkersExit`, `ImplementsPhases` |
| `run_sequential` | one goroutine, one planned task and 3 in all, a plan of up to 2 tasks stored beside the run with every dependency shape, limit 1, planned titles of depth 1 and repair depth 2, one delta task; 617,090 states | `DepsRespected`, `DoneIsEarned`, `RepairsBounded`, `RepairsDescend`, `KeepsContract`, `RunTerminates` |
| `run_parallel` | two goroutines, 2 planned and 3 tasks in all, one of them added by a plan beside the run, limit 1, no repairs; 1,581,587 states | `ReviewsOnlyCompleteWork`, `NoPipelineOutlivesRun`, `OvershootBounded`, `LoopExitMeansLimit` |
| `run_terminates_parallel` | two goroutines, 2 tasks, repairs, delta re-plans, a late rejection | `RunTerminates` |
| `plan` | see below | `ResearchThenReflection`, `FinalTasksComeLast`, `StoredPlanAcyclic`, `AcyclicPlanKept`, `WalkFindsEveryPath`, `RegistryServesFiles`, `ModelInForce` |
| `tools` | a high-risk call beside one of every other kind, one change of policy | `HighRiskRunsApproved`, `ConfirmsOnce`, `ReleasedCallEnds` |
| `components` | see below | `TypeOK` of nine modules, `EnvKeyStaysOut`, `AcceptedSettingsSurvive`, `CrashedWorkIsResumable`, `NothingMissed`, `RepliesOnce`, `NoCrossedReplies`, `DoneIsEvidenced`, `TesterAgreesWithExecutor`, `OneChrome`, `SavedMemoriesSurvive`, `IndexCoversWrites`, `StartsAfterItsDependencies` |
| `replan_budget` | 4 tasks | refutes the bound of final_review.go:15-16 |
| `never_twice` | 2 goroutines, 2 tasks | refutes service_run.go:457-459 |
| `interrupted` | 1 task, runs started again for ever | refutes the PRD's recovery after an interruption |
| `confirm_button` | as `tools` | refutes milestones.md:524 |
| `shell_switch` | as `components` | refutes config.example.yaml:53-56 |

`plan` and `components` check modules that share no state side by side: a
behaviour is one of the part it starts as (`part`), and the other parts stay at an
initial state. Nothing is composed that does not interact, and the number of
states is the sum over the parts.

Bounds of `ProjectRun`. `MaxTasks` is the number of task ids; `CreateTask` fails
beyond it, which is an error the code handles, so a bounded instance is still a
behaviour of the program. Two tasks of a plan give every dependency shape that
matters to a check that looks at one task and its dependencies (`run_sequential`
stores them beside the run, `run_parallel` starts with them); one planned and
two created tasks give a repair, a repair superseded by another, and a delta task.
`MaxPlanned` bounds a plan beside the run; 0, in the runs that are about something
else, leaves such plans out.
`MaxRepairDepth` is at most 2 instead of 3 and `MaxReplans` at most 1 instead of
2: each limit is reached, and passed if the code lets it. `run_sequential` comes to
the first from titles of depth 1, the other runs from titles of depth 0; plans
that mix depths are left to the theorems. A small `RunLimit` makes
the task limit strike while work is left. With two goroutines one can be in flight
while the loop waits, and two can meet in one task. `run_parallel` leaves repairs
and delta tasks out: its properties are about the loop, its goroutines and what
comes beside them. `run_terminates_parallel` has the repairs.
A chain of two repair links needs three tasks, two goroutines, a repair depth of 2
and a user who retries the first repair before its link is written; an instance with
that takes longer than a run is given here, and is left to the proof of
`RepairLinksDescend`. `MaxRejections` bounds rejections between their read and their write.

Bounds of the others. A queue buffer of one place is full with two submissions.
`plan`: three tasks with marks exercise every pair of roles, and four unmarked
tasks, two of one title, every cycle a greedy cut can leave behind; four tasks of
two titles, some of them final, have titles shared by a final task and one that is
not. The walk is asked about all graphs of three titles, with cycles and loops, and
all of four whose first title nothing depends on and whose last depends on
nothing, in which paths part and meet again. Two requests
and one planning over two skills, one in the directory of the other; two changes
of the model and two callers. `components` (1.6 million states, the sum over its
parts): two overlapping requests, POST or `/config`, and a restart;
two command-line runs, two sessions and an HTTP handler; two connections, three
events, a history of two and channels of one place (so that overflow and loss
happen); two tool calls and two pages; every word of `TaskWork` alone and with
each word a rule mentions with it, three action steps instead of the code's default
of 30 (generic.go:73-75: a call, a second one, the finish); two browser calls and two Chromes; two writers and one
crash; one edit, one call and two keys; one plan of three tasks of which one
depends on a later one. `tools`: two calls, of which the one is always the
high-risk tool and the other any. `run_parallel` and `never_twice` use the
symmetry of the slots; no run with a temporal property does.

Deadlock is checked in `queue`, all runs of `ProjectRun` and `plan`, where a user,
a submitter or a final state can always move. `tools` and `components` switch it
off: their calls, requests and events are bounded and may all be over.

Fairness. In `TaskQueue` each submission in progress and each worker, its run
included, keeps moving. In `ProjectRun` the loop and each pipeline keep moving:
LLM and tool calls have time limits and every path of a handler ends. In
`ToolCalls` the goroutine of each call and of each HTTP handler that holds a reply
channel is scheduled; no user has to answer and no deadline has to come:
`ReleasedCallEnds` speaks of the calls whose answer or end of context did. Nobody
has to submit, retry, confirm, start a run, or crash. `ResumingSpec`, used only by
`interrupted`, adds that runs are started again and again, to give recovery every
chance. `RunTerminates` needs no assumption about the user or about the outcome
of any task. The other modules state safety only and assume no fairness.

Refinements: `TaskQueue` implements `ProjectPhases` (`ImplementsPhases`),
`ProjectRun` implements `ProjectContract` (`KeepsContract`), `ToolCalls` and
`MCPClient` implement `OneShotReply` (`ConfirmsOnce`, `RepliesOnce`).

Every property of a passing run is also checked to be sensitive: the modules hold
faulty variants of definitions (the "mutants" of `PROJECT.json`), and with the variant in place of
the definition TLC finds the property violated.

## 4. What the repository says and the code does not do

Each with a run:

1. `replan_budget`: final_review.go:15-16 bounds feedback-driven re-plans per
   project. The re-plan after an exhausted repair chain is counted and not compared.
2. `never_twice`: service_run.go:457-459 says that a task never runs twice. A retry
   between the executor's FAILED and the start of `createRepairTask` lets a second
   goroutine claim the task, and the first then marks that execution FAILED.
3. `interrupted`: the PRD (line 2910) asks for recovery after an interruption. Tasks
   that were being worked on keep their status; no run selects them and no retry
   takes them.
4. `confirm_button`: milestones.md:524 has the event carry the confirmation's id. The
   adapter puts its own event id there, the bundled console posts that one, and the
   gate does not know it: the call waits until its context ends.
5. `shell_switch`: config.example.yaml:53-56 lets `allow_shell: false` disable the
   shell tools. A misplaced `case` label in config.go:402-406 leaves the security
   section of the file unread.

Met while modelling, and stated here without a run of their own:

* queue.go:12-14 promises a catch-up pass after a submission during a run; the
  submission is dropped, since the mark stands until the run has returned.
* architecture.md:292 has DONE follow a reviewer's approval; a repaired task becomes
  DONE with the approval of its repair (service_repair.go:142). `DoneIsEarned` is what
  does hold.
* milestones.md:441 puts the research task first. One that is recognised by its
  description alone loses the place in the runtime's second normalisation, because
  the conversion drops the description when there is a goal (planner/llm.go:74).
  `ResearchThenReflection` speaks of the planner's first research task and excepts
  this case (`forgot`).
* A re-plan beside the run may add tasks between the completeness check and COMPLETED
  (final_review.go:37, 61): the project ends with open tasks (`late`). A retry may
  start a DRAFT of a plan before its dependencies are stored (`early`).
* A repair that is approved makes the task it repairs DONE, whose own last attempt
  failed or is still RUNNING (service_repair.go:142); a failed test leaves the attempt
  RUNNING as well (generic_evidence.go:55). `DoneIsEvidenced` speaks of the tasks their
  own pipeline made DONE.
* milestones.md:433 does not let a code change with mechanical criteria finish on a
  patch alone; the executor's automatic finish skips the rules that say so
  (task_heuristics.go:138), and the tester judges what it leaves.
  The executor's gate does not ask for research evidence, the tester does. A test
  that failed on the last step is not finished automatically.
* m10_4_webconsole_channel_result.md:24 has a slow consumer disconnected; two events
  that find its channel full close it twice, or send on it closed, and the process
  panics (sse_hub.go:74). `EventStream` models the panic and states the promise as
  `SlowConsumerOnlyDisconnected`; TLC refutes it with the constants of `components`.
* A client that reconnects with the id of an event that overtook another loses the
  latter; one without a Last-Event-ID gets no replay.
* Settings: `persistConfig` drops `shell_allowlist` and everything outside the view,
  writes `timeout_seconds` where `Load` reads `timeout` (api_config.go:253,
  config.go:327). A change of the model without a key always answers 500 after the
  view has changed, and the next accepted POST saves it. Overlapping POSTs can leave
  view and runtime apart, and the slower one can write its older text over the file
  (api_config.go:245-277). A number that is not positive is accepted, shown, saved, and
  dropped by the next start (config.go:390, 553); a variable of the environment wins
  over what was saved.
* Model: executor, reviewers and delta planner keep the old name of the model after a
  change (service.go:239-243). A change waits for every call in progress and keeps
  new ones waiting; two overlapping changes can leave names and provider apart.
* Memories: two saves at a time share `path.tmp` and can tear or lose the file; a torn
  file keeps the console from starting. A memory, a skill or a persona deleted
  between a planning's search and its load fails the planning.
* Skills: ids are names of directories, roots shadow each other, and deleting a skill
  removes nested skills' files while their cards stay.
* Code index: an index built before an invalidation and inserted after it is served
  as current to those that ask later, if the build overlapped the write; discovery's
  cache is never invalidated.
* Browser: a slow call puts its page back as the last one; a task that first uses the
  browser after Close starts a Chrome nobody ends, as Close ignores whether the queue
  stopped in time (app/web.go:388) and the unused engine does not remember it.
* Sessions: a write of a whole stale row can undo a pause or an expiry and drop the
  project; with a context that was not saved yet, or whose save failed, nothing leads
  to the work any more (service_planning.go:113-134); `ExpireIdle`, `Service.Pause` and `SetCancelFunc` have no caller; resuming a
  session from the console while its command-line run lives starts a second runner.
* MCP: a server that keeps sending empty pages with a cursor keeps `Initialize` busy
  for ever (client.go:265); when it dies, callers without a deadline wait on.
* A `test.run` that timed out leaves no audit row (tools/runtime.go:57). `file.patch` is an
  unlocked read, change and write (tool_impl.go:222). A plain file name is redirected
  to the task's only path (action.go:172).

## 5. Proofs

Every theorem holds for all values of the constants that satisfy the named
assumptions of the component's module; nothing else is assumed. The proofs are by
an inductive invariant, one case per action.

**TaskQueue** (`TaskQueue_proofs`). `IInv` joins the type invariant with
`OneRunPerProject` and `MarkHasOneCarrier`. Neither is inductive alone: a worker
may receive a project without breaking `OneRunPerProject` only because the project
is in the channel once and nowhere else, which is `MarkHasOneCarrier`. Two lemmas
say what a send and a receive do to a channel without repetitions. The theorems
are `TypeCorrect`, `OneRun`, `ExactMark` and `Implements`: under the mapping that
calls a project running when a worker has it, queued when only its mark is set
and idle otherwise, every step of the queue is a step of `ProjectPhases` or leaves
it as it is.

**ProjectRun, shape** (`ProjectRun_proofs`). `TypeOK` is not inductive: that a
repair link is followed from a task, that a new task is queued by its id, and that
a re-plan counts down to zero and not below depends on the program counters.
`Shape` adds what the fields mean at each of them. `ShapeStep` is the lemma that
every step keeps it, `TypeCorrect` the theorem. The runs of `TaskQueue`,
`ProjectRun` and `ToolCalls` do not list their `TypeOK`: it is a theorem of each.

**ProjectRun, safety** (`ProjectRunSafety_proofs`). Each theorem uses `Shape`, and
lemmas about one step: how statuses move (`StepStatus`), which candidates, depths
and links it writes (`StepCandidates`, `StepDepth`, `StepLink`), what a goroutine
does to its slot (`StepSlots`, `StepCredit`, `StepRepair`).

* `DependenciesRespected`: `DepsInv` says that everything a candidate depends on is
  DONE as well, so that it does not matter how old the scheduler's reads are when
  the claim happens; DONE has no successor, and a dependency that a plan stores is
  of a task that is not claimed and no candidate, or one in `early`.
* `RunEndsLast`: `Control` relates the loop's program counter to its goroutines.
  With one slot the loop waits whenever it is busy, which needs that a claim of at
  most one task returns at most one (`FirstIsOne`); with several, the program
  counters after `wg.Wait` are entered with all slots free and no task to hand out.
* `ReviewIsSettled`: from `Control`, what `CheckComplete` found
  can only be undone from outside; no user step applies to a complete task, and what
  a plan adds is in `late`.
* `RepairDepthBounded`, `RepairLinksDescend`: where a fix is about to be created the
  depth was compared, the goroutine's target is no deeper than its task (it climbs
  along links that descend already), and the depth of an existing task is never
  written (`RepairInv`). A new repair may be retried and fail before it is linked,
  so nothing is said of what becomes of it meanwhile but that it has no link.
* `CompletionEarned`: `CreditInv` says that a goroutine climbing the links is at an
  earned task, and that earning is never lost. The second holds because a link is
  written once, by the only goroutine that has the new task (`LinkInv`).

* `OvershootIsBounded`: `Counting` is the equation between the loop's counters and
  its goroutines: what was dispatched is counted or busy (`run.iter = run.ran +` busy
  slots). Both limits are compared before a claim, so `Claiming` names the program
  counters between that comparison and the claim; what the claim returned and is
  still to be dispatched is added to the counter on both sides of the bound.
* `LimitEndsTheLoop`: the same invariant at `over_limit`. The first limit allows twice
  the second, so the loop has counted `RunLimit` tasks whichever one stopped it.
* `RunKeepsContract`: the refinement of `ProjectContract`, step by step
  (`ContractStep`), from all the invariants above. A step approves one task
  (`StepApproved`), writes one link (`StepLink`), completes the project
  (`StepProject`), claims, or writes the status of one task (`StepTurns`), and
  `PhaseSteps` is the table of what such a write is to the contract. A claim is a
  Start because of `DepsInv`, a task that is done without an approval of its own a
  Credit because of `CreditInv`, and `EarnedIsVouched` takes `Earned` to the contract's
  words. The first version of the contract let only working tasks be approved
  and only stuck ones be reopened or credited; no invariant gives that. Two goroutines may run one task after a retry
  (`never_twice`), so one may approve what the other has failed, is credited or
  has done, and a rejection that was read long before may block a task that is
  in progress again. The contract says so now. A second version had no plans beside
  the run; with them, tasks and needs come at any time, and `waived` and `late` are
  what the code gives up for it.

**ToolCalls** (`ToolCalls_proofs`). `HighRiskNeedsApproval` needs more than what it
says: a channel that is in the pending map is empty and its call is in the gate
(`GateInv`), and a yes in a channel is a user's yes to that card (`ApprovalInv`), so
that a late answer, a second one, or one that names no card changes nothing for
another call. `GateRepliesOnce` is the refinement of `OneShotReply`, one step of the
gate at a time; `TypeCorrect` the type invariant.

**Plans** (`PlanDependencies_proofs`). Reaching is defined by closed sets, and so are
the lemmas: a closed set separates (`ClosedSeparates`), and an edge that closes no
cycle itself puts no other edge on one (`AddedEdge`).

* `StoredPlansAcyclic`: `NoCycleYet` follows the loop: of every title it has come to, the
  dependencies looked at are in `depsByTitle`, and none of them is on a cycle there,
  whatever the later tasks still depend on. At the end that is every dependency.
* `AcyclicPlansKept`: `depsByTitle` is at all times a part of what was asked for, so a
  cut needs a cycle in that (`Kept`).
* `FinalTasksLast`, `ResearchComesFirst`: `Ordered` says of what was asked for that
  research depends on nothing and reflection on research alone, that every other
  task has an edge to the root, and that nothing ordinary depends on a final task,
  which depends on all that is (`NormalizedOrdered`). So these edges lie on no cycle,
  and pruning keeps them.
* `PlannedResearchComesFirst` (`MCPlanning_proofs`) is `ResearchComesFirst` for the
  plans `PlanDecomposition` gives, whatever the LLM's list and the request:
  `DecompositionGivesBoth` shows that a request that needs research gets a task with
  each of the two marks, wherever the missing one is put, and that the padding of
  short plans takes none away. Its hypothesis says where the plans come from. The
  statement is about the planner's first tasks of the two marks (`leads`), through the
  conversion, and says nothing of a plan whose conversion lost one (`forgot`).

The first attempt at `FinalTasksLast` showed that the property was too strong as it
stood: when a final and an ordinary task share a title, the last of them decides
what the title means (`finalByTitle` is a map), and the other is not waited for. The
property now speaks of titles whose last task is not final, and the run has plans
with shared titles (`SharedDrafts`).

* `WalkIsCorrect` (`MCPlanning_proofs`): the walk answers yes exactly when there is a
  path. Its invariant (`WalkInv`, `SeenFits`): every title seen is reached from the start, and
  has all its dependencies seen but for those that the calls in progress have still
  to try. When the last call returns, the titles seen are closed and the one asked
  for is not among them. The steps of the walk take the place of an induction over
  the graph.

**Planning's assets and model** (`MCPlanning_proofs`).

* `RegistryAndFilesAgree`: an asset whose card differs from its file is in the hands of
  a request between its two writes, and the request holds what it wrote or parsed
  (`EditorFits`); what a planning has found and nobody touched since is still there
  (`FoundIsThere`). No assumption is made on which directories lie in which.
* `ModelChangesAtOnce`: the write lock is announced by one request (`LockIsHeld`), no
  name is given out before its provider is in (`NamesAreIn`), and without overlap
  each step of a change has done what it should (`OneAtATime`, `Progress`).

**The components** (`MCComponents_proofs`, `MCComponentsConsole_proofs`; both over the
specification of the run `components`).

* `AtMostOneChrome`: only the Chrome started last may be alive, because a new one is
  started under the mutex when that one is gone; a handler that has sent a request
  still has a step to end with (`HandlersFit`), which is why none is left to start a
  Chrome when the `Close` of a bridge returns.
* `OwnReplies`, `ClientRepliesOnce`: an id names one request for good, as the counter
  is the number of requests registered; who waits under it has an
  empty channel, so the send of the one reader does not block.
* `StartsWhenDependenciesDone`: a task that is READY, or was when the claim in progress
  listed it, had its dependencies stored by then, unless the user retried it early;
  DONE stays DONE, so what the claim read apart still fits (`StageInv`, `IntakeInv`).
* `IndexIsNotStale`: a build covers the edits there were when it began and remembers
  those that begin meanwhile (`IndexInv`).
* `SavedMemoriesAreInTheFile`: as long as no two saves were in progress at one time, a
  writer's snapshot is not older than the change it reports and its open file is
  its own (`SavedInv`, `OpenFilesExist`, `ChangesFit`).
* `EnvironmentKeyIsNotWritten`: once a request has submitted a key, the console shows a
  submitted one until the process ends, so that what is written does not come from
  the environment; `AcceptedSettingsComeBack`: the text composed last has all that the console shows of
  the accepted settings, and is in the file when its author wrote last.
* `CrashedWorkResumes`: a row leads to the project of its run unless a handler that
  had read it before wrote it back (`stale`), and a context that was saved does until
  the session is deleted; no stale row brings a deleted session back, because every
  later write of a row is an UPDATE.
* `DoneHasEvidence`, `ExecutorAndTesterAgree`: where the loop
  finishes, one of the two finishing rules holds for the rows there are
  (`FinishedFor`), and a failed test is then one of the named exceptions (`Excused`).
* `ClientsMissNothing`: an event owed to a client is written or on its way (`Served`),
  and a client the publisher need not visit, having subscribed after it read the
  map, gets the event by its replay (`ReplayedTo`).
* `PartsKeepTheirTypes`: the type invariants of all nine.

What these rest on, beside the shape of the constants (`Assumption` in their names):
numbers are natural, and the values that stand for "none" are none of the others.
Two say more. `SettingsAssumption`: a key that is submitted is not empty, since an
empty `llm_api_key` is ignored (api_config.go:175), and is the user's own, not the one in
the environment. `MCPAssumption`: the tools a server lists are finitely many.

Only model-checked: what needs fairness (`AcceptedProjectRuns`, `WorkersExit`,
`RunTerminates`, `ReleasedCallEnds`), which the provers here cannot treat. Every
other property of a passing run is proved.

## 6. Plan

The modules planned for the components with state of their own are written, and
their safety properties are proved. What is left:

1. Composition of `TaskQueue` and `ProjectRun`: the runner as a run.
2. Work nobody picks up again: tasks that stay BLOCKED when the task they wait for
   is done by another way than the run's own loop (service_run.go:264).

## 7. Not modelled

* Context and prompts (`contextbuilder/`, `prompts/`, `taskaware/`, `textutil/`): text
  assembly without state that outlives the call. What its reads may meet is in
  `AssetRegistry`, `MemoryIndex` and `CodeIndex`.
* Intent, chain and functions: a request to the model whose answer is parsed and
  normalised, and a search over a catalog that never changes. The model behind
  them is in `ModelProvider`.
* LLM requests over the network, retries of malformed JSON, token counts.
* The handlers of the built-in tools: file, process, git and network I/O. What they
  write to the code index, the audit and the artifacts is modelled.
* Discovery's probes, whose failures are ignored; its code index is modelled.
* Rendering, logging, read-only HTTP handlers, static files, the order in which
  `RunWebConsole` constructs its parts, the database schema.
* The Vue front end, except for the id its confirmation buttons post.
* Rejected inputs that change nothing, and the panics Go raises on unsynchronised
  use of a map other than those the modules name: they end the process, which the
  modules have as a crash or restart where state survives it.
