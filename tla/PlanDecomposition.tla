-------------------------- MODULE PlanDecomposition --------------------------
(* What the planner does to the LLM's list of tasks before it normalizes    *)
(* the dependencies (planner/llm.go): it takes research and reflection out  *)
(* of requests that need none, refuses lists that are too long, adds        *)
(* research and reflection to those that need them, and pads project-scale  *)
(* plans with a slice of work and a summary.                                *)
EXTENDS PlanDependencies, SequencesExt

\* A request, as far as the planner asks about it: a simple browser read, pure
\* content generation, project scale, words of a complex task, and its size.
Request == [simple : BOOLEAN, content : BOOLEAN, scale : BOOLEAN,
            marked : BOOLEAN, size : {"low", "medium", "high"}]

NeedsResearch(req) == ~req.simple /\ ~req.content /\ (req.scale \/ req.marked)

MaxTasksFor(req) ==
    IF req.scale \/ req.size = "high" THEN 15 ELSE IF req.size = "medium" THEN 7 ELSE 3

\* The tasks the planner adds itself, with the marker lists their texts match.
ResearchTask == [title |-> "research!", marks |-> {"research", "lean"}, deps |-> {}]
ReflectionTask(deps) ==
    [title |-> "reflection!", marks |-> {"research", "reflection", "final", "lean"}, deps |-> deps]
SliceTask(deps)   == [title |-> "slice!", marks |-> {"final"}, deps |-> deps]
SummaryTask(deps) == [title |-> "summary!", marks |-> {"final"}, deps |-> deps]
AddedTitles == {"research!", "reflection!", "slice!", "summary!"}

\* Without the tasks marked lean, unless nothing would be left; what depended
\* on one of them no longer does.
WithoutLean(tasks) ==
    LET rest    == SelectSeq(tasks, LAMBDA t : ~Has(t, "lean"))
        removed == {tasks[i].title : i \in {j \in DOMAIN tasks : Has(tasks[j], "lean")}}
    IN  IF rest = <<>> THEN tasks
        ELSE [i \in DOMAIN rest |-> [rest[i] EXCEPT !.deps = @ \ removed]]

\* Research and reflection in front, or reflection behind the plan's own first
\* research task; tasks without dependencies get one.
WithResearchAndReflection(tasks) ==
    LET research   == FirstTitle(tasks, "research")
        reflection == FirstTitle(tasks, "reflection")
        firstRes   == IF research = NoTitle THEN ResearchTask.title ELSE research
        firstRef   == IF reflection = NoTitle THEN "reflection!" ELSE reflection
        Rooted(t)  == IF t.deps # {} \/ Has(t, "research") THEN t
                      ELSE [t EXCEPT !.deps = {IF Has(t, "reflection") THEN firstRes ELSE firstRef}]
        rooted     == [i \in DOMAIN tasks |-> Rooted(tasks[i])]
        prefix     == (IF research = NoTitle THEN <<ResearchTask>> ELSE <<>>)
                      \o (IF reflection = NoTitle THEN <<ReflectionTask({firstRes})>> ELSE <<>>)
        behind     == CHOOSE i \in DOMAIN tasks : \/ ~ \E j \in DOMAIN tasks : Has(tasks[j], "research")
                                                  \/ /\ Has(tasks[i], "research")
                                                     /\ \A j \in 1..(i - 1) : ~Has(tasks[j], "research")
    IN  IF research # NoTitle /\ reflection = NoTitle
        THEN SubSeq(rooted, 1, behind) \o prefix \o SubSeq(rooted, behind + 1, Len(rooted))
        ELSE prefix \o rooted

\* A project-scale plan of fewer than four tasks gets a slice of work if it
\* has none and a summary.
WithMinimum(tasks) ==
    LET IsReflection(t) == {"lean", "reflection"} \subseteq t.marks
        reflections == SelectSeq(tasks, IsReflection)
        last   == tasks[Len(tasks)].title
        anchor == IF reflections # <<>> THEN reflections[1].title ELSE last
        sliced == IF \A i \in DOMAIN tasks : Has(tasks[i], "lean")
                  THEN Append(tasks, SliceTask({anchor})) ELSE tasks
    IN  IF Len(tasks) >= 4 THEN tasks
        ELSE IF Len(sliced) >= 4 THEN sliced
        ELSE Append(sliced, SummaryTask({sliced[Len(sliced)].title}))

Lean(req, tasks) == IF req.simple \/ req.content THEN WithoutLean(tasks) ELSE tasks

Accepted(req, tasks) == tasks # <<>> /\ Len(Lean(req, tasks)) <= MaxTasksFor(req)

Decomposed(req, tasks) ==
    LET lean   == Lean(req, tasks)
        rooted == IF NeedsResearch(req) THEN WithResearchAndReflection(lean) ELSE lean
    IN  IF req.scale THEN WithMinimum(rooted) ELSE rooted

\* What the planner makes of the LLM's possible answers.
PlansFrom(requests, drafts) ==
    {[needs |-> NeedsResearch(p[1]), tasks |-> Decomposed(p[1], p[2])] :
        p \in {q \in requests \X drafts : Accepted(q[1], q[2])}}
=============================================================================
