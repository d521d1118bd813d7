------------------------------ MODULE PlanIntake ------------------------------
(***************************************************************************)
(* How the tasks of a plan reach the store while the project runs: a goal  *)
(* and a re-plan each create their tasks, store the dependencies, validate *)
(* and queue the tasks one by one (runtime/service_planning.go), the       *)
(* scheduler claims tasks that are READY with two separate reads           *)
(* (scheduler/ready.go), and the user retries tasks from the console.      *)
(***************************************************************************)
EXTENDS Naturals, FiniteSets, TaskDomain

CONSTANTS
  Plans,   \* the plans made for the project: the first and the re-plans
  Size,    \* the number of tasks in each
  Needs    \* the dependencies in each, by position

Positions == 1 .. Size

PlanTasks == Plans \X Positions

(* The dependencies a task has in its plan.                                *)
DependsOn(t) == {<<t[1], j>> : j \in {k \in Positions : <<t[2], k>> \in Needs[t[1]]}}

VARIABLES
  stage,      \* where PlanProject is for a plan
  next,       \* the task it creates, or validates, next
  toStore,    \* the dependencies it has yet to store
  status,     \* the tasks in the store, "none" before they are created
  stored,     \* the dependencies in the store
  seen,       \* the claim in progress: the tasks it read, or nothing
  candidates, \* and those it will ask for, once it has read the dependencies
  early       \* history: tasks the user retried before they were queued

vars == <<stage, next, toStore, status, stored, seen, candidates, early>>

Stages == {"asked", "create", "depend", "validate", "planned", "stopped"}
Unread == [t \in PlanTasks |-> "unread"]

TypeOK ==
  /\ stage \in [Plans -> Stages] /\ next \in [Plans -> 1 .. Size + 1]
  /\ toStore \in [Plans -> SUBSET (PlanTasks \X PlanTasks)]
  /\ status \in [PlanTasks -> Status \cup {"none"}]
  /\ stored \subseteq PlanTasks \X PlanTasks
  /\ seen \in [PlanTasks -> {"READY", "DONE", "other", "unread"}]
  /\ candidates \cup early \subseteq PlanTasks

Init ==
  /\ stage = [p \in Plans |-> "asked"] /\ next = [p \in Plans |-> 1]
  /\ toStore = [p \in Plans |-> {}]
  /\ status = [t \in PlanTasks |-> "none"] /\ stored = {}
  /\ seen = Unread /\ candidates = {} /\ early = {}

(* TransitionTask accepts a status the task may go to.                     *)
Transition(t, to) == CanTransition(status[t], to) /\ status' = [status EXCEPT ![t] = to]

-----------------------------------------------------------------------------
(* PlanProject, for the goal or for a re-plan at any time                  *)

(* The planner has answered; the request is handled while runs go on.      *)
ReplanProject(p) ==
  /\ stage[p] = "asked"
  /\ stage' = [stage EXCEPT ![p] = "create"]
  /\ UNCHANGED <<next, toStore, status, stored, seen, candidates, early>>

(* All tasks of the plan are created before the first dependency.          *)
CreateTask(p) ==
  /\ stage[p] = "create" /\ next[p] <= Size
  /\ status' = [status EXCEPT ![<<p, next[p]>>] = "DRAFT"]
  /\ next' = [next EXCEPT ![p] = @ + 1]
  /\ UNCHANGED <<stage, toStore, stored, seen, candidates, early>>

PlannedEdges(p) == UNION {{t} \X DependsOn(t) : t \in {p} \X Positions}

AllCreated(p) ==
  /\ stage[p] = "create" /\ next[p] > Size
  /\ stage' = [stage EXCEPT ![p] = "depend"]
  /\ toStore' = [toStore EXCEPT ![p] = PlannedEdges(p)]
  /\ UNCHANGED <<next, status, stored, seen, candidates, early>>

CreateTaskDependency(p) ==
  /\ stage[p] = "depend"
  /\ \E e \in toStore[p] :
       /\ stored' = stored \cup {e}
       /\ toStore' = [toStore EXCEPT ![p] = @ \ {e}]
  /\ UNCHANGED <<stage, next, status, seen, candidates, early>>

(* The tasks are queued only when every dependency is stored.              *)
AnyTime(p) == TRUE
AllStored(p) == toStore[p] = {}

Validating(p) ==
  /\ stage[p] = "depend" /\ AllStored(p)
  /\ stage' = [stage EXCEPT ![p] = "validate"]
  /\ next' = [next EXCEPT ![p] = 1]
  /\ UNCHANGED <<toStore, status, stored, seen, candidates, early>>

(* The validator accepts the next task, or its capability policy blocks it.*)
ValidateTask(p) ==
  /\ stage[p] = "validate" /\ next[p] <= Size
  /\ \/ Transition(<<p, next[p]>>, "READY")
     \/ Transition(<<p, next[p]>>, "BLOCKED")
  /\ next' = [next EXCEPT ![p] = @ + 1]
  /\ UNCHANGED <<stage, toStore, stored, seen, candidates, early>>

AllValidated(p) ==
  /\ stage[p] = "validate" /\ next[p] > Size
  /\ stage' = [stage EXCEPT ![p] = "planned"]
  /\ UNCHANGED <<next, toStore, status, stored, seen, candidates, early>>

(* The store refuses a step (also the transition of a task that the user   *)
(* has moved on), or the process ends: what is done stays, and nobody      *)
(* finishes the plan.                                                      *)
Stop(p) ==
  /\ stage[p] \in {"create", "depend", "validate"}
  /\ stage' = [stage EXCEPT ![p] = "stopped"]
  /\ UNCHANGED <<next, toStore, status, stored, seen, candidates, early>>

-----------------------------------------------------------------------------
(* The run: ClaimNextReadyTasks, and what becomes of the task              *)

(* First the tasks are listed ...                                          *)
ListTasks ==
  /\ seen = Unread /\ candidates = {} /\ \E t \in PlanTasks : status[t] = "READY"
  /\ seen' = [t \in PlanTasks |-> IF status[t] \in {"READY", "DONE"} THEN status[t] ELSE "other"]
  /\ UNCHANGED <<stage, next, toStore, status, stored, candidates, early>>

(* ... then the dependencies; the statuses are still those of the list.    *)
dependenciesDone(t) == \A d \in PlanTasks : <<t, d>> \in stored => seen[d] = "DONE"

ListTaskDependencies ==
  /\ seen # Unread
  /\ candidates' = {t \in PlanTasks : seen[t] = "READY" /\ dependenciesDone(t)}
  /\ seen' = Unread
  /\ UNCHANGED <<stage, next, toStore, status, stored, early>>

(* A transaction claims those that are READY still.                        *)
ClaimTasks ==
  /\ candidates # {}
  /\ status' = [t \in PlanTasks |-> IF t \in candidates /\ status[t] = "READY" THEN "IN_PROGRESS" ELSE status[t]]
  /\ candidates' = {}
  /\ UNCHANGED <<stage, next, toStore, stored, seen, early>>

(* The pipeline of the task ends one way or the other (ProjectRun).        *)
Finish(t) ==
  /\ status[t] = "IN_PROGRESS"
  /\ \E s \in {"DONE", "FAILED", "NEED_USER_INPUT"} : status' = [status EXCEPT ![t] = s]
  /\ UNCHANGED <<stage, next, toStore, stored, seen, candidates, early>>

(* Nothing is claimable: a task whose stored dependency cannot complete is *)
(* blocked, a DRAFT of a plan in the making too.                           *)
BlockWaiting(t) ==
  /\ status[t] \in {"READY", "DRAFT"}
  /\ \E d \in PlanTasks : <<t, d>> \in stored /\ status[d] \in BlocksDependents
  /\ status' = [status EXCEPT ![t] = "BLOCKED"]
  /\ UNCHANGED <<stage, next, toStore, stored, seen, candidates, early>>

(* The user retries a task the console shows, a DRAFT too.                 *)
RetryTask(t) ==
  /\ status[t] \in Retryable
  /\ status' = [status EXCEPT ![t] = "READY"]
  /\ early' = IF stage[t[1]] \in {"create", "depend"} \/ \E d \in DependsOn(t) : <<t, d>> \notin stored
              THEN early \cup {t} ELSE early
  /\ UNCHANGED <<stage, next, toStore, stored, seen, candidates>>

Next ==
  \/ \E p \in Plans :
       \/ ReplanProject(p) \/ CreateTask(p) \/ AllCreated(p) \/ CreateTaskDependency(p)
       \/ Validating(p) \/ ValidateTask(p) \/ AllValidated(p) \/ Stop(p)
  \/ ListTasks \/ ListTaskDependencies \/ ClaimTasks
  \/ \E t \in PlanTasks : Finish(t) \/ BlockWaiting(t) \/ RetryTask(t)

Spec == Init /\ [][Next]_vars

-----------------------------------------------------------------------------
(* A task starts only when the tasks its plan makes it depend on are DONE, *)
(* though plans are stored step by step, may stop half way, and a claim    *)
(* lists tasks and dependencies at different times (PlanProject,           *)
(* ClaimNextReadyTasks).  The exception is a task the user retries before  *)
(* its dependencies are stored.                                            *)
StartsAfterItsDependencies ==
  \A t \in PlanTasks \ early :
    status[t] \in {"IN_PROGRESS", "DONE"} => \A d \in DependsOn(t) : status[d] = "DONE"
=============================================================================
