------------------------------ MODULE MCPlanning ------------------------------
(***************************************************************************)
(* What a planning uses and what it leaves, for TLC: the assets of its     *)
(* context, the model it asks, the dependencies of the plan it stores, and *)
(* the walk that looks for cycles among them.                              *)
(* They share no state, so that one run checks them side by side: a        *)
(* behaviour is one of the part it starts as.                              *)
(***************************************************************************)
EXTENDS PlanDecomposition

CONSTANTS
  Ids, Texts, Inside, Editors, Unparsed,
  Callers, Changes, Nobody,
  Names, Walks

VARIABLES
  part,
  kind, cards, paths, editor, spoiled, planning,
  inner, writer, name, caller, change, overlap,
  ask, seen, stack, answer

assetVars == <<kind, cards, paths, editor, spoiled, planning>>
modelVars == <<inner, writer, name, caller, change, overlap>>
walkVars == <<ask, seen, stack, answer>>

Assets == INSTANCE AssetRegistry
Model == INSTANCE ModelProvider
Walk == INSTANCE DependencyWalk

ASSUME AssetsAssumption == Unparsed \notin Ids \cup Texts
ASSUME ModelAssumption == Nobody \notin Changes /\ Model!Initial \notin Changes
ASSUME WalksAssumption == Walks \subseteq Walk!Question

-----------------------------------------------------------------------------
(* The plans.                                                              *)
MCTitles == {"a", "b", "c"} \cup AddedTitles

Draft(marks, titles) == [title : titles, marks : marks, deps : SUBSET {"a", "b", "c"}]

Plain   == [simple |-> FALSE, content |-> FALSE, scale |-> FALSE, marked |-> FALSE, size |-> "low"]
Story   == [Plain EXCEPT !.content = TRUE]
Code    == [Plain EXCEPT !.marked = TRUE, !.size = "medium"]
Project == [Code EXCEPT !.scale = TRUE]

\* Three tasks with titles of their own, any marks the texts can have together
\* and dependencies on the others.
MarkedDrafts ==
    {<<x, y, z>> : x \in {t \in Draft({{}, {"research", "lean"}, {"final"}}, {"a"}) : "a" \notin t.deps},
                   y \in {t \in Draft({{}, {"reflection", "final", "lean"}, {"research"}}, {"b"}) : "b" \notin t.deps},
                   z \in {t \in Draft({{}, {"final"}, {"research", "reflection"}}, {"c"}) : "c" \notin t.deps}}
MarkedPlans == PlansFrom({Story, Code, Project}, MarkedDrafts)

\* Up to four tasks without marks, two of which may share a title.
Unmarked(title) == {t \in Draft({{}}, {title}) : title \notin t.deps}
CyclicDrafts ==
    {<<w, x, y, z>> : w \in Unmarked("a"), x \in Unmarked("b"), y \in Unmarked("c"),
                      z \in Unmarked("a") \cup Unmarked("b")}
    \cup {<<x, y, z>> : x \in Unmarked("a"), y \in Unmarked("b"), z \in Unmarked("c")}
CyclicPlans == PlansFrom({Plain, Code}, CyclicDrafts)

\* Titles shared by a task that is final and one that is not.
SharedDrafts ==
    {<<w, x, y, z>> : w \in Draft({{}}, {"a"}), x \in Draft({{}}, {"b"}),
                      y \in Draft({{"final"}}, {"a"}), z \in Draft({{}, {"final"}}, {"b"})}
OwnTitle(d) == \A i \in DOMAIN d : d[i].title \notin d[i].deps /\ "c" \notin d[i].deps
SharedPlans == PlansFrom({Code}, {d \in SharedDrafts : OwnTitle(d)})

AllPlans == MarkedPlans \cup CyclicPlans \cup SharedPlans
SomePlan == CHOOSE p \in CyclicPlans : Len(p.tasks) = 3
ASSUME RequestsAreRequests == {Plain, Story, Code, Project} \subseteq Request
ASSUME PlainRequestsAreShort == \A d \in CyclicDrafts : Accepted(Plain, d) <=> Len(d) <= 3

-----------------------------------------------------------------------------
CONSTANTS i1, i2

(* A skill in the directory of another.                                    *)
MCInside == {<<i2, i1>>}

-----------------------------------------------------------------------------
(* Every graph of three tasks, and those of four without an edge into the  *)
(* first or out of the last, on which paths branch and meet.               *)
MCNames == {"a", "b", "c", "d"}
Asking(graph, to) == [edges |-> graph, from |-> "a", target |-> to]
AllWalks ==
    {Asking(graph, to) : graph \in SUBSET ({"a", "b", "c"} \X {"a", "b", "c"}), to \in {"a", "b"}}
    \cup {Asking(graph, "d") : graph \in SUBSET ({"a", "b", "c"} \X {"b", "c", "d"})}
SomeWalk == Asking({}, "b")

-----------------------------------------------------------------------------
(* The parts that do not move stay at one of their initial states.         *)
PlanningInit ==
  /\ part \in {"plan", "assets", "model", "walk"}
  /\ Assets!Init /\ (part # "assets" => kind = "skills" /\ \A i \in Ids : paths[i] = Unparsed)
  /\ Model!Init
  /\ Walk!Init /\ (part # "walk" => ask = SomeWalk)
  /\ InitFrom(IF part = "plan" THEN Plans ELSE {SomePlan})

PlanStep == part = "plan" /\ Next /\ UNCHANGED <<part, assetVars, modelVars, walkVars>>
AssetStep == part = "assets" /\ Assets!Next /\ UNCHANGED <<part, vars, modelVars, walkVars>>
ModelStep == part = "model" /\ Model!Next /\ UNCHANGED <<part, vars, assetVars, walkVars>>
WalkStep == part = "walk" /\ Walk!Next /\ UNCHANGED <<part, vars, assetVars, modelVars>>

PlanningNext == PlanStep \/ AssetStep \/ ModelStep \/ WalkStep
PlanningSpec == PlanningInit /\ [][PlanningNext]_<<part, vars, assetVars, modelVars, walkVars>>

-----------------------------------------------------------------------------
(* The assets keep their types; what the console changed is served as it   *)
(* is on disk, and fails no planning without a reason.                     *)
RegistryServesFiles == part = "assets" => Assets!TypeOK /\ Assets!RegistryServesFiles

(* The lock and the names keep their types; a change of the model reaches  *)
(* every call at once.                                                     *)
ModelInForce == part = "model" => Model!TypeOK /\ Model!ModelInForce

(* The walk keeps its types and finds a path exactly when there is one.    *)
WalkFindsEveryPath == part = "walk" => Walk!TypeOK /\ Walk!FindsEveryPath
=============================================================================
