--------------------------- MODULE PlanDependencies ---------------------------
(* What happens to the dependencies of a plan between the LLM's answer and  *)
(* the store: the planner completes and orders them and removes cycles      *)
(* (planner/llm.go, normalizePlannedDependencies), makes domain tasks of    *)
(* them, and the runtime does the same again on those                       *)
(* (runtime/service_planning.go, normalizeTaskDependencies).                *)
(*                                                                          *)
(* A task is its title, its dependencies by title and its marks: the lists  *)
(* of marker words its text matches.  Two tasks may have one title; a       *)
(* dependency on it then means the last of them, as in titleToID.           *)
EXTENDS Naturals, Sequences, DependencyGraph

CONSTANTS
    Titles,     \* titles, those the planner adds included
    Added,      \* those titles; these tasks have a goal and no description
    NoTitle,    \* the empty string
    Plans       \* plans the LLM may come up with, and whether they are for a
                \* request that needs research and reflection

Marks == {"research", "reflection", "final", "lean"}
Task == [title : Titles, marks : SUBSET Marks, deps : SUBSET Titles]

ASSUME PlansAssumption ==
    /\ NoTitle \notin Titles
    /\ Added \subseteq Titles
    /\ Plans \subseteq [needs : BOOLEAN, tasks : Seq(Task)]

VARIABLES
    needs,      \* needsResearchAndReflection(req)
    plan,       \* the tasks, in the planner's order
    stage,      \* "planner" or "runtime": whose pruning is in progress; "done"
    at,         \* the task whose dependencies are being pruned
    todo,       \* its dependencies not looked at yet
    edges,      \* depsByTitle
    asked,      \* history: what the tasks depended on before pruning
    leads,      \* history: the planner's research and reflection tasks
    forgot      \* history: those whose mark the conversion lost
vars == <<needs, plan, stage, at, todo, edges, asked, leads, forgot>>

Has(task, mark) == mark \in task.marks

\* The first task with the mark; its title, or the empty string.
First(tasks, mark) ==
    CHOOSE i \in DOMAIN tasks :
        Has(tasks[i], mark) /\ \A j \in DOMAIN tasks : Has(tasks[j], mark) => i <= j

FirstTitle(tasks, mark) ==
    IF \E i \in DOMAIN tasks : Has(tasks[i], mark) THEN tasks[First(tasks, mark)].title
    ELSE NoTitle

LeadsOf(tasks) == [mark \in {"research", "reflection"} |-> FirstTitle(tasks, mark)]

\* titleToID and finalByTitle: a title stands for the last task that has it.
IsLast(tasks, i) ==
    \A j \in DOMAIN tasks : tasks[j].title = tasks[i].title => j <= i

FinalTitle(tasks, title) ==
    /\ title \notin {FirstTitle(tasks, "research"), FirstTitle(tasks, "reflection")}
    /\ \E i \in DOMAIN tasks :
         tasks[i].title = title /\ IsLast(tasks, i) /\ Has(tasks[i], "final")

\* What every ordinary task depends on: reflection, or research without one.
Root(tasks) ==
    LET research   == FirstTitle(tasks, "research")
        reflection == FirstTitle(tasks, "reflection")
    IN  IF reflection # NoTitle THEN {reflection} ELSE {research} \ {NoTitle}

WantedUnordered(tasks, i) == tasks[i].deps \cup Root(tasks)

WantedIfNone(tasks, i) ==
    IF tasks[i].deps = {} THEN Root(tasks) ELSE tasks[i].deps

\* A final task wants everything that is not final; the others no final task.
Wanted(tasks, i) ==
    LET asks == tasks[i].deps \cup Root(tasks)
        work == {tasks[j].title : j \in {k \in DOMAIN tasks : ~Has(tasks[k], "final")}}
    IN  IF FinalTitle(tasks, tasks[i].title) THEN asks \cup work
        ELSE {d \in asks : ~FinalTitle(tasks, d)}

\* The dependencies of a task after normalization.
AskedBy(tasks, i) ==
    LET title      == tasks[i].title
        research   == FirstTitle(tasks, "research")
        reflection == FirstTitle(tasks, "reflection")
    IN  CASE title = research -> {}
          [] title = reflection /\ title # research -> {research} \ {NoTitle}
          [] OTHER -> (Wanted(tasks, i) \cap {tasks[j].title : j \in DOMAIN tasks}) \ {title}

Normalized(tasks) ==
    [i \in 1..Len(tasks) |-> [tasks[i] EXCEPT !.deps = AskedBy(tasks, i)]]

\* depsByTitle as it is filled before the loop: later tasks overwrite.
GraphOf(tasks) ==
    UNION {{tasks[i].title} \X tasks[i].deps : i \in {j \in DOMAIN tasks : IsLast(tasks, j)}}

AllEdges(tasks) == UNION {{tasks[i].title} \X tasks[i].deps : i \in DOMAIN tasks}

Without(E, title) == {e \in E : e[1] # title}

\* The loop turns to task i of tasks: depsByTitle of its title starts empty.
StartTask(tasks, E, i) ==
    /\ plan' = tasks
    /\ at' = i
    /\ todo' = IF i <= Len(tasks) THEN tasks[i].deps ELSE {}
    /\ edges' = IF i <= Len(tasks) THEN Without(E, tasks[i].title) ELSE E

InitFrom(plans) ==
    \E p \in plans :
        LET tasks == Normalized(p.tasks) IN
        /\ needs = p.needs
        /\ plan = tasks
        /\ stage = "planner"
        /\ at = 1
        /\ todo = IF 1 <= Len(tasks) THEN tasks[1].deps ELSE {}
        /\ edges = IF 1 <= Len(tasks) THEN Without(GraphOf(tasks), tasks[1].title) ELSE {}
        /\ asked = AllEdges(tasks)
        /\ leads = LeadsOf(tasks)
        /\ forgot = {}

Init == InitFrom(Plans)

PruneDirectOnly ==
    \E d \in todo :
        LET title == plan[at].title IN
        /\ todo' = todo \ {d}
        /\ \/ /\ (<<d, title>> \in edges)
              /\ plan' = [plan EXCEPT ![at].deps = @ \ {d}]
              /\ edges' = edges
           \/ /\ ~(<<d, title>> \in edges)
              /\ plan' = plan
              /\ edges' = edges \cup {<<title, d>>}
        /\ UNCHANGED <<needs, stage, at, asked, leads, forgot>>

PruneBackwards ==
    \E d \in todo :
        LET title == plan[at].title IN
        /\ todo' = todo \ {d}
        /\ \/ /\ Reaches(edges, title, d)
              /\ plan' = [plan EXCEPT ![at].deps = @ \ {d}]
              /\ edges' = edges
           \/ /\ ~Reaches(edges, title, d)
              /\ plan' = plan
              /\ edges' = edges \cup {<<title, d>>}
        /\ UNCHANGED <<needs, stage, at, asked, leads, forgot>>

\* One dependency is looked at.  The order of a task's own dependencies is the
\* LLM's or the alphabet's and is left open.
Prune ==
    \E d \in todo :
        LET title == plan[at].title IN
        /\ todo' = todo \ {d}
        /\ \/ /\ Reaches(edges, d, title)
              /\ plan' = [plan EXCEPT ![at].deps = @ \ {d}]
              /\ edges' = edges
           \/ /\ ~Reaches(edges, d, title)
              /\ plan' = plan
              /\ edges' = edges \cup {<<title, d>>}
        /\ UNCHANGED <<needs, stage, at, asked, leads, forgot>>

NextTask ==
    /\ todo = {}
    /\ at <= Len(plan)
    /\ StartTask(plan, edges, at + 1)
    /\ UNCHANGED <<needs, stage, asked, leads, forgot>>

\* The marks a task may have by its description alone, <<task, mark>>; nobody
\* asks for the mark "lean" again.
Described ==
    {p \in (DOMAIN plan) \X (Marks \ {"lean"}) :
        Has(plan[p[1]], p[2]) /\ plan[p[1]].title \notin Added}

\* The planner's tasks become domain tasks and the runtime normalizes again.
\* A domain task keeps the goal or, without one, the description: a task with
\* both may lose any of its marks.
Convert ==
    /\ stage = "planner"
    /\ at > Len(plan)
    /\ stage' = "runtime"
    /\ \E lost \in SUBSET Described :
         LET domain == [i \in 1..Len(plan) |->
                          [plan[i] EXCEPT !.marks = {m \in @ : <<i, m>> \notin lost}]]
             tasks  == Normalized(domain)
         IN  /\ StartTask(tasks, GraphOf(tasks), 1)
             /\ asked' = AllEdges(tasks)
             /\ forgot' = {p[2] : p \in {q \in lost : q[2] \in DOMAIN leads /\ q[1] = First(plan, q[2])}}
    /\ UNCHANGED <<needs, leads>>

Finish ==
    /\ stage = "runtime"
    /\ at > Len(plan)
    /\ stage' = "done"
    /\ UNCHANGED <<needs, plan, at, todo, edges, asked, leads, forgot>>

Done == stage = "done" /\ UNCHANGED vars

Next == Prune \/ NextTask \/ Convert \/ Finish \/ Done

Spec == Init /\ [][Next]_vars
-----------------------------------------------------------------------------
\* The dependencies as CreateTaskDependency writes them: between tasks.
TaskEdges ==
    {e \in (DOMAIN plan) \X (DOMAIN plan) :
        /\ IsLast(plan, e[2])
        /\ plan[e[2]].title \in plan[e[1]].deps}

TypeOK ==
    /\ needs \in BOOLEAN
    /\ plan \in Seq(Task)
    /\ stage \in {"planner", "runtime", "done"}
    /\ at \in Nat \ {0}
    /\ todo \subseteq Titles
    /\ edges \subseteq Titles \X Titles
    /\ asked \subseteq Titles \X Titles
    /\ leads \in [{"research", "reflection"} -> Titles \cup {NoTitle}]
    /\ forgot \subseteq {"research", "reflection"}

\* The stored dependencies have no cycle, whatever the LLM answered: the tasks
\* of a cycle would wait for each other for ever (pruneDomainDependencyCycles).
StoredPlanAcyclic == stage = "done" => Acyclic(TaskEdges)

\* Pruning takes nothing from a plan without cycles, although it looks at tasks
\* whose own dependencies have not been pruned yet.
AcyclicPlanKept ==
    stage = "done" /\ Acyclic(asked) => AllEdges(plan) = asked

Awaits(title, root) == root = NoTitle \/ Reaches(AllEdges(plan), title, root)

\* Research first, then reflection, then the rest (milestones.md:441): a request
\* that needs them gets both (ensureResearchAndReflectionTasks), and in the plan
\* as it is stored all other tasks wait for the planner's first research task
\* and for its first reflection task, and the latter for the former, in whatever
\* order and with whatever dependencies the LLM gave them.  The exception is a
\* task known by its description alone, which the conversion drops beside a goal
\* (planner/llm.go:74-77): the runtime then takes another one for the research,
\* or none, and clears its dependencies.
ResearchThenReflection ==
    LET research   == leads["research"]
        reflection == leads["reflection"]
    IN  /\ needs => research # NoTitle /\ reflection # NoTitle
        /\ stage = "done" /\ "research" \notin forgot =>
             \A i \in DOMAIN plan : Awaits(plan[i].title, research)
        /\ stage = "done" /\ forgot = {} =>
             \A i \in DOMAIN plan :
                 plan[i].title # research => Awaits(plan[i].title, reflection)

\* A final task (verification, report) waits for every task whose title is not
\* that of a final one, so that it judges the finished work (addDep of the
\* candidates).  Of two tasks that share a title the last one decides.
FinalTasksComeLast ==
    stage = "done" =>
        \A i, j \in DOMAIN plan :
            FinalTitle(plan, plan[i].title) /\ ~FinalTitle(plan, plan[j].title) =>
                Reaches(AllEdges(plan), plan[i].title, plan[j].title)
=============================================================================
