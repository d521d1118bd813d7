------------------------ MODULE PlanDependencies_proofs ------------------------
(* Proofs about PlanDependencies, for plans of any length with any titles,  *)
(* marks and dependencies: the stored dependencies have no cycle, pruning   *)
(* removes only dependencies that lie on one, and so the tasks that come    *)
(* first and last do.                                                       *)
EXTENDS PlanDependencies, FiniteSetTheorems, TLAPS

-----------------------------------------------------------------------------
(* Lemmas about graphs                                                      *)

\* A closed set with a and without b, of whatever elements, shows that b is
\* not reached from a.
LEMMA ClosedSeparates ==
    ASSUME NEW E, NEW a, NEW b, NEW S, a \in S, Closed(E, S), b \notin S
    PROVE  ~Reaches(E, a, b)
<1> DEFINE T == S \cap (Nodes(E) \cup {a})
<1>1. T \in SUBSET (Nodes(E) \cup {a}) /\ a \in T /\ b \notin T
  OBVIOUS
<1>2. Closed(E, T)
  BY DEF Closed, Nodes
<1> QED
  BY <1>1, <1>2 DEF Reaches

\* And there is such a set whenever b is not reached.
LEMMA SeparatingSet ==
    ASSUME NEW E, NEW a, NEW b, ~Reaches(E, a, b)
    PROVE  \E S : a \in S /\ Closed(E, S) /\ b \notin S
BY DEF Reaches

LEMMA ReachesSelf == ASSUME NEW E, NEW a PROVE Reaches(E, a, a)
BY SeparatingSet

LEMMA ReachesEdge ==
    ASSUME NEW E, NEW a, NEW b, <<a, b>> \in E
    PROVE  Reaches(E, a, b)
BY SeparatingSet DEF Closed

LEMMA ReachesTransitive ==
    ASSUME NEW E, NEW a, NEW b, NEW c, Reaches(E, a, b), Reaches(E, b, c)
    PROVE  Reaches(E, a, c)
<1> SUFFICES ASSUME NEW S, a \in S, Closed(E, S), c \notin S PROVE FALSE
  BY SeparatingSet
<1>1. b \in S
  BY ClosedSeparates
<1> QED
  BY <1>1, ClosedSeparates

LEMMA ReachesMonotone ==
    ASSUME NEW E, NEW F, E \subseteq F, NEW a, NEW b, Reaches(E, a, b)
    PROVE  Reaches(F, a, b)
<1> SUFFICES ASSUME NEW S, a \in S, Closed(F, S), b \notin S PROVE FALSE
  BY SeparatingSet
<1>1. Closed(E, S)
  BY DEF Closed
<1> QED
  BY <1>1, ClosedSeparates

\* An edge t -> d that closes no cycle itself puts no other edge on one.
LEMMA AddedEdge ==
    ASSUME NEW E, NEW t, NEW d, ~Reaches(E, d, t),
           NEW x, NEW y, <<x, y>> \in E, ~Reaches(E, y, x)
    PROVE  ~Reaches(E \cup {<<t, d>>}, y, x)
<1>1. PICK S : d \in S /\ Closed(E, S) /\ t \notin S
  BY SeparatingSet
<1>2. PICK T : y \in T /\ Closed(E, T) /\ x \notin T
  BY SeparatingSet
<1>3. CASE x \notin S
  <2>1. Closed(E \cup {<<t, d>>}, S \cup T)
    BY <1>1, <1>2 DEF Closed
  <2> QED
    BY <1>1, <1>2, <1>3, <2>1, ClosedSeparates
<1>4. CASE x \in S
  <2>1. y \in S
    BY <1>1, <1>4 DEF Closed
  <2>2. Closed(E \cup {<<t, d>>}, S \cap T)
    BY <1>1, <1>2 DEF Closed
  <2> QED
    BY <1>2, <2>1, <2>2, ClosedSeparates
<1> QED
  BY <1>3, <1>4

LEMMA AddedEdgeItself ==
    ASSUME NEW E, NEW t, NEW d, ~Reaches(E, d, t)
    PROVE  ~Reaches(E \cup {<<t, d>>}, d, t)
<1>1. PICK S : d \in S /\ Closed(E, S) /\ t \notin S
  BY SeparatingSet
<1>2. Closed(E \cup {<<t, d>>}, S)
  BY <1>1 DEF Closed
<1> QED
  BY <1>1, <1>2, ClosedSeparates

-----------------------------------------------------------------------------
(* Lemmas about titles and marks                                            *)

\* A non-empty set of numbers has a least one, by the well-foundedness of
\* the strict subset order on the intervals 0..m.
LEMMA FirstExists ==
    ASSUME NEW T, T \subseteq Nat, T # {}
    PROVE  \E m \in T : \A k \in T : m <= k
<1> DEFINE X == {0..m : m \in T}
<1>1. X \subseteq FiniteSubsetsOf(Nat) /\ X # {}
  <2>1. ASSUME NEW m \in T PROVE 0..m \in FiniteSubsetsOf(Nat)
    <3>1. m \in Int /\ 0 \in Int /\ 0..m \subseteq Nat
      OBVIOUS
    <3>2. IsFiniteSet(0..m)
      BY <3>1, FS_Interval
    <3> QED
      BY <3>1, <3>2 DEF FiniteSubsetsOf
  <2> QED
    BY <2>1
<1>2. PICK x \in X : \A y \in X : ~ (<<y, x>> \in StrictSubsetOrdering(Nat))
  BY <1>1, FS_StrictSubsetOrderingWellFounded, WFMin
<1>3. PICK m \in T : x = 0..m
  BY <1>2
<1>4. ASSUME NEW k \in T, ~(m <= k) PROVE FALSE
  <2>1. 0..k \subseteq 0..m /\ 0..k # 0..m
    <3>1. m \notin 0..k /\ m \in 0..m
      BY <1>4
    <3> QED
      BY <1>4, <3>1
  <2>2. <<0..k, 0..m>> \in StrictSubsetOrdering(Nat)
    BY <2>1 DEF StrictSubsetOrdering
  <2> QED
    BY <1>2, <1>3, <2>2
<1> QED
  BY <1>4

LEMMA LastExists ==
    ASSUME NEW n \in Nat, NEW T, T \subseteq 1..n, T # {}
    PROVE  \E m \in T : \A k \in T : k <= m
<1> DEFINE X == {n - k : k \in T}
<1>1. X \subseteq Nat /\ X # {}
  OBVIOUS
<1>2. PICK x \in X : \A y \in X : x <= y
  BY <1>1, FirstExists
<1>3. PICK m \in T : x = n - m
  BY <1>2
<1>4. ASSUME NEW k \in T PROVE k <= m
  <2>1. n - m <= n - k
    BY <1>2, <1>3
  <2> QED
    BY <2>1
<1> QED
  BY <1>4

\* With a marked task there is a first one.
LEMMA FirstIsFirst ==
    ASSUME NEW tasks \in Seq(Task), NEW mark, \E i \in DOMAIN tasks : Has(tasks[i], mark)
    PROVE  /\ First(tasks, mark) \in DOMAIN tasks /\ Has(tasks[First(tasks, mark)], mark)
           /\ \A j \in DOMAIN tasks : Has(tasks[j], mark) => First(tasks, mark) <= j
<1> DEFINE marked == {i \in DOMAIN tasks : Has(tasks[i], mark)}
<1>1. marked \subseteq Nat /\ marked # {}
  OBVIOUS
<1> HIDE DEF marked
<1>2. PICK i \in marked : \A j \in marked : i <= j
  BY <1>1, FirstExists
<1>3. \E n \in DOMAIN tasks : Has(tasks[n], mark) /\ \A j \in DOMAIN tasks : Has(tasks[j], mark) => n <= j
  BY <1>2 DEF marked
<1> QED
  BY <1>3 DEF First

\* A marked task gives a first title; without one there is none.
LEMMA FirstTitleMarked ==
    ASSUME NEW tasks \in Seq(Task), NEW mark
    PROVE  \/ FirstTitle(tasks, mark) = NoTitle /\ \A i \in DOMAIN tasks : ~Has(tasks[i], mark)
           \/ \E i \in DOMAIN tasks : Has(tasks[i], mark) /\ FirstTitle(tasks, mark) = tasks[i].title
BY FirstIsFirst DEF FirstTitle

\* The first task with a mark stays the first one in a list whose tasks have
\* the same titles and fewer marks, if it keeps the mark itself.
LEMMA FirstTitleKept ==
    ASSUME NEW tasks \in Seq(Task), NEW others \in Seq(Task), NEW mark,
           DOMAIN others = DOMAIN tasks,
           \A i \in DOMAIN tasks : /\ others[i].title = tasks[i].title
                                   /\ Has(others[i], mark) => Has(tasks[i], mark),
           (\E i \in DOMAIN tasks : Has(tasks[i], mark)) => Has(others[First(tasks, mark)], mark)
    PROVE  FirstTitle(others, mark) = FirstTitle(tasks, mark)
<1>1. CASE \A i \in DOMAIN tasks : ~Has(tasks[i], mark)
  BY <1>1 DEF FirstTitle
<1>2. CASE \E i \in DOMAIN tasks : Has(tasks[i], mark)
  <2>1. /\ First(tasks, mark) \in DOMAIN tasks /\ Has(others[First(tasks, mark)], mark)
        /\ \A j \in DOMAIN tasks : Has(tasks[j], mark) => First(tasks, mark) <= j
    BY <1>2, FirstIsFirst
  <2>2. /\ First(others, mark) \in DOMAIN others /\ Has(others[First(others, mark)], mark)
        /\ \A j \in DOMAIN others : Has(others[j], mark) => First(others, mark) <= j
    BY <2>1, FirstIsFirst
  <2>3. First(others, mark) <= First(tasks, mark) /\ First(tasks, mark) <= First(others, mark)
    BY <2>1, <2>2
  <2>4. First(others, mark) = First(tasks, mark)
    BY <2>1, <2>2, <2>3
  <2> QED
    BY <1>2, <2>1, <2>4 DEF FirstTitle
<1> QED
  BY <1>1, <1>2

LEMMA FirstTitleType ==
    ASSUME NEW tasks \in Seq(Task), NEW mark, FirstTitle(tasks, mark) # NoTitle
    PROVE  /\ FirstTitle(tasks, mark) \in Titles
           /\ \E i \in DOMAIN tasks : FirstTitle(tasks, mark) = tasks[i].title
<1>1. PICK i \in DOMAIN tasks : FirstTitle(tasks, mark) = tasks[i].title
  BY FirstTitleMarked
<1>2. tasks[i] \in Task
  OBVIOUS
<1> QED
  BY <1>1, <1>2 DEF Task

\* Every title in use has a last task.
LEMMA TitleHasLast ==
    ASSUME NEW tasks \in Seq(Task), NEW i \in DOMAIN tasks
    PROVE  \E j \in DOMAIN tasks : tasks[j].title = tasks[i].title /\ IsLast(tasks, j)
<1> DEFINE T == {j \in DOMAIN tasks : tasks[j].title = tasks[i].title}
<1>1. Len(tasks) \in Nat /\ DOMAIN tasks = 1..Len(tasks)
  OBVIOUS
<1>2. T \subseteq 1..Len(tasks) /\ T # {}
  BY <1>1
<1>3. PICK m \in T : \A k \in T : k <= m
  BY <1>1, <1>2, LastExists
<1> QED
  BY <1>3 DEF IsLast

\* Titles and marks of two task lists agree.
SameTexts(tasks, others) ==
    /\ DOMAIN tasks = DOMAIN others
    /\ \A i \in DOMAIN tasks : tasks[i].title = others[i].title /\ tasks[i].marks = others[i].marks

LEMMA SameTextsSameTitles ==
    ASSUME NEW tasks \in Seq(Task), NEW others, SameTexts(tasks, others)
    PROVE  /\ \A mark : FirstTitle(tasks, mark) = FirstTitle(others, mark)
           /\ \A title : FinalTitle(tasks, title) <=> FinalTitle(others, title)
           /\ Root(tasks) = Root(others)
           /\ \A i \in DOMAIN tasks : IsLast(tasks, i) <=> IsLast(others, i)
<1>1. \A i \in DOMAIN tasks : tasks[i].title = others[i].title
  BY DEF SameTexts
<1>2. ASSUME NEW mark PROVE FirstTitle(tasks, mark) = FirstTitle(others, mark)
  <2>1. \A i \in DOMAIN tasks : Has(tasks[i], mark) <=> Has(others[i], mark)
    BY DEF SameTexts, Has
  <2>2. First(tasks, mark) = First(others, mark)
    BY <2>1 DEF SameTexts, First
  <2>3. (\E i \in DOMAIN tasks : Has(tasks[i], mark)) => First(tasks, mark) \in DOMAIN tasks
    BY FirstIsFirst
  <2>4. DOMAIN tasks = DOMAIN others
    BY DEF SameTexts
  <2> QED
    BY <1>1, <2>1, <2>2, <2>3, <2>4 DEF FirstTitle
<1>3. \A i \in DOMAIN tasks : IsLast(tasks, i) <=> IsLast(others, i)
  BY DEF SameTexts, IsLast
<1>4. ASSUME NEW title PROVE FinalTitle(tasks, title) <=> FinalTitle(others, title)
  BY <1>2, <1>3 DEF SameTexts, FinalTitle, Has
<1>5. Root(tasks) = Root(others)
  BY <1>2 DEF Root
<1> QED
  BY <1>2, <1>3, <1>4, <1>5

LEMMA NormalizedType ==
    ASSUME NEW tasks \in Seq(Task)
    PROVE  /\ Normalized(tasks) \in Seq(Task)
           /\ Len(Normalized(tasks)) = Len(tasks)
           /\ SameTexts(tasks, Normalized(tasks))
           /\ \A i \in DOMAIN tasks : Normalized(tasks)[i].deps = AskedBy(tasks, i)
<1>1. ASSUME NEW i \in DOMAIN tasks PROVE AskedBy(tasks, i) \subseteq Titles
  <2>1. {tasks[j].title : j \in DOMAIN tasks} \subseteq Titles
    <3>1. \A j \in DOMAIN tasks : tasks[j] \in Task
      OBVIOUS
    <3> QED
      BY <3>1 DEF Task
  <2>2. {FirstTitle(tasks, "research")} \ {NoTitle} \subseteq Titles
    BY FirstTitleType
  <2> QED
    BY <2>1, <2>2 DEF AskedBy
<1>2. Len(tasks) \in Nat /\ DOMAIN tasks = 1..Len(tasks) /\ \A i \in 1..Len(tasks) : tasks[i] \in Task
  OBVIOUS
<1>3. ASSUME NEW i \in 1..Len(tasks)
      PROVE  /\ [tasks[i] EXCEPT !.deps = AskedBy(tasks, i)] \in Task
             /\ [tasks[i] EXCEPT !.deps = AskedBy(tasks, i)].title = tasks[i].title
             /\ [tasks[i] EXCEPT !.deps = AskedBy(tasks, i)].marks = tasks[i].marks
             /\ [tasks[i] EXCEPT !.deps = AskedBy(tasks, i)].deps = AskedBy(tasks, i)
  BY <1>1, <1>2 DEF Task
<1>4. Normalized(tasks) \in [1..Len(tasks) -> Task]
  BY <1>3 DEF Normalized
<1>5. Normalized(tasks) \in Seq(Task) /\ Len(Normalized(tasks)) = Len(tasks)
  BY <1>2, <1>4
<1> QED
  BY <1>2, <1>3, <1>5 DEF Normalized, SameTexts

-----------------------------------------------------------------------------
(* What the normalized dependencies E of tasks keep to                      *)

Ordered(tasks, E) ==
    LET research   == FirstTitle(tasks, "research")
        reflection == FirstTitle(tasks, "reflection")
    IN  /\ \A e \in E : e[1] # research
        /\ reflection # research =>
             /\ \A e \in E : e[1] = reflection => e[2] = research
             /\ NoTitle \notin {research, reflection} => <<reflection, research>> \in E
        /\ \A i \in DOMAIN tasks :
             tasks[i].title \notin {research, reflection} =>
                 \A root \in Root(tasks) : <<tasks[i].title, root>> \in E
        /\ \A e \in E : FinalTitle(tasks, e[2]) => FinalTitle(tasks, e[1])
        /\ \A i, j \in DOMAIN tasks :
             FinalTitle(tasks, tasks[i].title) /\ ~Has(tasks[j], "final") =>
                 tasks[i].title = tasks[j].title \/ <<tasks[i].title, tasks[j].title>> \in E

LEMMA OrderedSameTexts ==
    ASSUME NEW tasks \in Seq(Task), NEW others, SameTexts(tasks, others), NEW E, Ordered(tasks, E)
    PROVE  Ordered(others, E)
<1>1. \A i \in DOMAIN tasks : tasks[i].title = others[i].title /\ (Has(tasks[i], "final") <=> Has(others[i], "final"))
  BY DEF SameTexts, Has
<1>2. DOMAIN tasks = DOMAIN others
  BY DEF SameTexts
<1> QED
  BY <1>1, <1>2, SameTextsSameTitles DEF Ordered

LEMMA EdgeOf ==
    ASSUME NEW tasks, NEW e
    PROVE  e \in AllEdges(tasks) <=> \E i \in DOMAIN tasks : \E d \in tasks[i].deps : e = <<tasks[i].title, d>>
BY DEF AllEdges

LEMMA NormalizedEdge ==
    ASSUME NEW tasks \in Seq(Task), NEW e
    PROVE  e \in AllEdges(Normalized(tasks)) <=>
             \E i \in DOMAIN tasks : \E d \in AskedBy(tasks, i) : e = <<tasks[i].title, d>>
<1>1. DOMAIN Normalized(tasks) = DOMAIN tasks
  BY NormalizedType DEF SameTexts
<1>2. \A i \in DOMAIN tasks : Normalized(tasks)[i].title = tasks[i].title /\ Normalized(tasks)[i].deps = AskedBy(tasks, i)
  BY NormalizedType DEF SameTexts
<1> QED
  BY <1>1, <1>2, EdgeOf

LEMMA NormalizedOrdered ==
    ASSUME NEW tasks \in Seq(Task)
    PROVE  Ordered(tasks, AllEdges(Normalized(tasks)))
<1> DEFINE E == AllEdges(Normalized(tasks))
           research == FirstTitle(tasks, "research")
           reflection == FirstTitle(tasks, "reflection")
           own(i) == (Wanted(tasks, i) \cap {tasks[j].title : j \in DOMAIN tasks}) \ {tasks[i].title}
<1>0. ASSUME NEW i \in DOMAIN tasks
      PROVE  /\ tasks[i].title = research => AskedBy(tasks, i) = {}
             /\ tasks[i].title = reflection /\ reflection # research => AskedBy(tasks, i) = {research} \ {NoTitle}
             /\ tasks[i].title \notin {research, reflection} => AskedBy(tasks, i) = own(i)
  BY DEF AskedBy
<1>1. ASSUME NEW e \in E PROVE e[1] # research
  BY <1>0, NormalizedEdge
<1>2. ASSUME reflection # research, NEW e \in E, e[1] = reflection PROVE e[2] = research
  BY <1>0, <1>2, NormalizedEdge
<1>3. ASSUME reflection # research, NoTitle \notin {research, reflection} PROVE <<reflection, research>> \in E
  <2>1. PICK i \in DOMAIN tasks : tasks[i].title = reflection
    BY <1>3, FirstTitleType
  <2>2. research \in AskedBy(tasks, i)
    BY <1>0, <1>3, <2>1
  <2> QED
    BY <2>1, <2>2, NormalizedEdge
<1>4. \A root \in Root(tasks) : root \in {tasks[j].title : j \in DOMAIN tasks}
                               /\ root \in {research, reflection} /\ ~FinalTitle(tasks, root)
  BY FirstTitleType DEF Root, FinalTitle
<1>5. ASSUME NEW i \in DOMAIN tasks, tasks[i].title \notin {research, reflection}, NEW root \in Root(tasks)
      PROVE  <<tasks[i].title, root>> \in E
  <2>1. root \in Wanted(tasks, i)
    BY <1>4 DEF Wanted
  <2>2. root \in AskedBy(tasks, i)
    BY <1>0, <1>4, <1>5, <2>1
  <2> QED
    BY <2>2, NormalizedEdge
<1>6. ASSUME NEW e \in E, FinalTitle(tasks, e[2]) PROVE FinalTitle(tasks, e[1])
  <2>1. PICK i \in DOMAIN tasks : \E x \in AskedBy(tasks, i) : e = <<tasks[i].title, x>>
    BY NormalizedEdge
  <2> DEFINE d == e[2]
  <2>2. d \in AskedBy(tasks, i) /\ e[1] = tasks[i].title /\ d # research
    BY <1>6, <2>1 DEF FinalTitle
  <2>3. d \in Wanted(tasks, i)
    BY <1>0, <2>2
  <2> QED
    BY <1>6, <2>2, <2>3 DEF Wanted
<1>7. ASSUME NEW i \in DOMAIN tasks, NEW j \in DOMAIN tasks,
             FinalTitle(tasks, tasks[i].title), ~Has(tasks[j], "final"), tasks[i].title # tasks[j].title
      PROVE  <<tasks[i].title, tasks[j].title>> \in E
  <2>1. tasks[i].title \notin {research, reflection}
    BY <1>7 DEF FinalTitle
  <2>2. tasks[j].title \in Wanted(tasks, i)
    BY <1>7 DEF Wanted
  <2>3. tasks[j].title \in AskedBy(tasks, i)
    BY <1>0, <1>7, <2>1, <2>2
  <2> QED
    BY <2>3, NormalizedEdge
<1> QED
  BY <1>1, <1>2, <1>3, <1>5, <1>6, <1>7 DEF Ordered

-----------------------------------------------------------------------------
(* The inductive invariant                                                  *)

Shape ==
    /\ TypeOK
    /\ at \in 1..(Len(plan) + 1)
    /\ at <= Len(plan) => todo \subseteq plan[at].deps
    /\ at > Len(plan) => todo = {}
    /\ stage = "done" => at > Len(plan)

\* Only dependencies that were asked for are left, and of those every one
\* that lies on no cycle of them.
Kept ==
    /\ edges \subseteq asked
    /\ AllEdges(plan) \subseteq asked
    /\ \A e \in asked : ~Reaches(asked, e[2], e[1]) => e \in AllEdges(plan)

\* The loop has come to a task with this title.
Begun(title) == \E i \in DOMAIN plan : i <= at /\ plan[i].title = title

\* The dependencies of a task the loop has come to are in depsByTitle as soon
\* as they were looked at, until it comes to a later task of that title; and
\* none of them is on a cycle, whatever the later tasks still depend on.
NoCycleYet ==
    /\ \A i \in DOMAIN plan :
         i <= at /\ (\A j \in DOMAIN plan : i < j /\ j <= at => plan[j].title # plan[i].title) =>
             \A d \in plan[i].deps : <<plan[i].title, d>> \in edges \/ (i = at /\ d \in todo)
    /\ \A e \in edges : Begun(e[1]) => ~Reaches(edges, e[2], e[1])

IInv == Shape /\ Kept /\ NoCycleYet /\ Ordered(plan, asked)

-----------------------------------------------------------------------------
(* The loop starts over the normalized tasks.                               *)

LEMMA AllEdgesType ==
    ASSUME NEW tasks \in Seq(Task)
    PROVE  AllEdges(tasks) \subseteq Titles \X Titles
<1>1. \A i \in DOMAIN tasks : tasks[i] \in Task
  OBVIOUS
<1> QED
  BY <1>1, EdgeOf DEF Task

LEMMA GraphInEdges == ASSUME NEW tasks PROVE GraphOf(tasks) \subseteq AllEdges(tasks)
BY DEF GraphOf, AllEdges

\* What Init and Convert establish: the first task begins, with no
\* dependencies of its title in depsByTitle.
LoopBegins(tasks) ==
    LET t == Normalized(tasks) IN
    /\ plan = t
    /\ at = 1
    /\ todo = IF 1 <= Len(t) THEN t[1].deps ELSE {}
    /\ edges \subseteq GraphOf(t)
    /\ 1 <= Len(t) => \A e \in edges : e[1] # t[1].title
    /\ asked = AllEdges(t)
    /\ needs \in BOOLEAN /\ stage \in {"planner", "runtime"}
    /\ leads \in [{"research", "reflection"} -> Titles \cup {NoTitle}]
    /\ forgot \subseteq {"research", "reflection"}

LEMMA BeginInv == \A tasks \in Seq(Task) : LoopBegins(tasks) => IInv
<1> SUFFICES ASSUME NEW tasks \in Seq(Task), LoopBegins(tasks) PROVE IInv
  OBVIOUS
<1> DEFINE t == Normalized(tasks)
<1>1. t \in Seq(Task) /\ plan = t /\ asked = AllEdges(plan)
  BY NormalizedType DEF LoopBegins
<1>2. edges \subseteq asked
  BY <1>1, GraphInEdges DEF LoopBegins
<1>3. Len(plan) \in Nat /\ DOMAIN plan = 1..Len(plan) /\ \A i \in DOMAIN plan : plan[i] \in Task
  BY <1>1
<1>4. Shape
  <2>1. todo \subseteq Titles
    BY <1>1, <1>3 DEF LoopBegins, Task
  <2>2. asked \subseteq Titles \X Titles /\ edges \subseteq Titles \X Titles
    BY <1>1, <1>2, AllEdgesType
  <2> QED
    BY <1>1, <1>3, <2>1, <2>2 DEF LoopBegins, Shape, TypeOK
<1>5. Kept
  BY <1>1, <1>2 DEF Kept
<1>6. NoCycleYet
  <2>1. at = 1 /\ (1 <= Len(plan) => todo = plan[1].deps /\ \A e \in edges : e[1] # plan[1].title)
    BY <1>1 DEF LoopBegins
  <2> QED
    BY <1>3, <2>1 DEF NoCycleYet, Begun
<1>7. Ordered(plan, asked)
  BY <1>1, NormalizedOrdered, NormalizedType, OrderedSameTexts
<1> QED
  BY <1>4, <1>5, <1>6, <1>7 DEF IInv

LEMMA InitInv == Init => IInv
<1> SUFFICES ASSUME Init PROVE IInv
  OBVIOUS
<1>1. PICK p \in Plans :
        LET t == Normalized(p.tasks) IN
        /\ needs = p.needs
        /\ plan = t
        /\ stage = "planner"
        /\ at = 1
        /\ todo = IF 1 <= Len(t) THEN t[1].deps ELSE {}
        /\ edges = IF 1 <= Len(t) THEN Without(GraphOf(t), t[1].title) ELSE {}
        /\ asked = AllEdges(t)
        /\ leads = LeadsOf(t)
        /\ forgot = {}
  BY DEF Init, InitFrom
<1>2. p.needs \in BOOLEAN /\ p.tasks \in Seq(Task)
  BY PlansAssumption
<1>4. LeadsOf(Normalized(p.tasks)) \in [{"research", "reflection"} -> Titles \cup {NoTitle}]
  BY <1>2, NormalizedType, FirstTitleType DEF LeadsOf
<1>3. LoopBegins(p.tasks)
  BY <1>1, <1>2, <1>4 DEF LoopBegins, Without
<1> QED
  BY <1>2, <1>3, BeginInv

LEMMA BeginInvNext == \A tasks \in Seq(Task) : LoopBegins(tasks)' => IInv'
<1>1. (\A tasks \in Seq(Task) : LoopBegins(tasks) => IInv)'
  BY BeginInv, PTL
<1> QED
  BY <1>1

LEMMA ConvertInv == ASSUME IInv, Convert PROVE IInv'
<1>1. plan \in Seq(Task)
  BY DEF IInv, Shape, TypeOK
<1>2. Len(plan) \in Nat /\ \A i \in 1..Len(plan) : plan[i] \in Task
  BY <1>1
<1>3. PICK lost \in SUBSET Described :
         LET domain == [i \in 1..Len(plan) |->
                          [plan[i] EXCEPT !.marks = {m \in @ : <<i, m>> \notin lost}]]
             tasks  == Normalized(domain)
         IN  /\ StartTask(tasks, GraphOf(tasks), 1)
             /\ asked' = AllEdges(tasks)
             /\ forgot' = {p[2] : p \in {q \in lost : q[2] \in DOMAIN leads /\ q[1] = First(plan, q[2])}}
  BY DEF Convert
<1> DEFINE domain == [i \in 1..Len(plan) |->
                        [plan[i] EXCEPT !.marks = {m \in @ : <<i, m>> \notin lost}]]
<1>4. domain \in Seq(Task)
  <2>1. \A i \in 1..Len(plan) : [plan[i] EXCEPT !.marks = {m \in @ : <<i, m>> \notin lost}] \in Task
    BY <1>2 DEF Task
  <2>2. domain \in [1..Len(plan) -> Task]
    BY <1>2, <2>1
  <2> QED
    BY <1>2, <2>2
<1> HIDE DEF domain
<1>5. /\ StartTask(Normalized(domain), GraphOf(Normalized(domain)), 1)
      /\ asked' = AllEdges(Normalized(domain))
  BY <1>3 DEF domain
<1>9. DOMAIN leads = {"research", "reflection"} /\ leads' = leads
  BY DEF Convert, IInv, Shape, TypeOK
<1>10. leads' \in [{"research", "reflection"} -> Titles \cup {NoTitle}] /\ forgot' \subseteq {"research", "reflection"}
  BY <1>3, <1>9 DEF IInv, Shape, TypeOK
<1>6. needs' \in BOOLEAN /\ stage' = "runtime"
  BY DEF Convert, IInv, Shape, TypeOK
<1>7. PICK tasks \in Seq(Task) : tasks = domain
  BY <1>4
<1>8. LoopBegins(tasks)'
  BY <1>5, <1>6, <1>7, <1>10 DEF LoopBegins, StartTask, Without
<1> QED
  BY <1>8, BeginInvNext

\* What Prune does, with the two outcomes told apart.
LEMMA PruneEffect ==
    ASSUME Shape, Prune
    PROVE  \E d \in todo :
             LET title == plan[at].title IN
             /\ at \in DOMAIN plan /\ d \in plan[at].deps
             /\ todo' = todo \ {d} /\ UNCHANGED <<needs, stage, at, asked, leads, forgot>>
             /\ plan' \in Seq(Task) /\ SameTexts(plan, plan')
             /\ Len(plan') = Len(plan)
             /\ \A i \in DOMAIN plan : i # at => plan'[i] = plan[i]
             /\ \/ /\ Reaches(edges, d, title)
                   /\ plan'[at].deps = plan[at].deps \ {d}
                   /\ edges' = edges
                \/ /\ ~Reaches(edges, d, title)
                   /\ plan' = plan
                   /\ edges' = edges \cup {<<title, d>>}
<1>1. PICK d \in todo :
        LET title == plan[at].title IN
        /\ todo' = todo \ {d}
        /\ \/ /\ Reaches(edges, d, title)
              /\ plan' = [plan EXCEPT ![at].deps = @ \ {d}]
              /\ edges' = edges
           \/ /\ ~Reaches(edges, d, title)
              /\ plan' = plan
              /\ edges' = edges \cup {<<title, d>>}
        /\ UNCHANGED <<needs, stage, at, asked, leads, forgot>>
  BY DEF Prune
<1>2. plan \in Seq(Task) /\ Len(plan) \in Nat /\ DOMAIN plan = 1..Len(plan)
  BY DEF Shape, TypeOK
<1>3. at \in DOMAIN plan /\ d \in plan[at].deps
  BY <1>2 DEF Shape
<1>4. plan[at] \in Task
  BY <1>2, <1>3
<1>5. CASE /\ plan' = plan /\ ~Reaches(edges, d, plan[at].title)
           /\ edges' = edges \cup {<<plan[at].title, d>>}
  <2>1. plan' \in Seq(Task) /\ SameTexts(plan, plan') /\ Len(plan') = Len(plan)
    BY <1>2, <1>5 DEF SameTexts
  <2> QED
    BY <1>1, <1>3, <1>5, <2>1
<1>6. CASE plan' = [plan EXCEPT ![at].deps = @ \ {d}] /\ Reaches(edges, d, plan[at].title) /\ edges' = edges
  <2> DEFINE new == [plan[at] EXCEPT !.deps = @ \ {d}]
  <2>1. new \in Task /\ new.title = plan[at].title /\ new.marks = plan[at].marks /\ new.deps = plan[at].deps \ {d}
    BY <1>4 DEF Task
  <2>2. plan' = [plan EXCEPT ![at] = new]
    BY <1>6
  <2> HIDE DEF new
  <2>3. plan' \in Seq(Task) /\ Len(plan') = Len(plan) /\ DOMAIN plan' = DOMAIN plan
    BY <1>2, <1>3, <2>1, <2>2
  <2>4. plan'[at] = new /\ \A i \in DOMAIN plan : i # at => plan'[i] = plan[i]
    BY <1>2, <1>3, <2>2
  <2>5. SameTexts(plan, plan')
    BY <2>1, <2>3, <2>4 DEF SameTexts
  <2> QED
    BY <1>1, <1>3, <1>6, <2>1, <2>3, <2>4, <2>5
<1> QED
  BY <1>1, <1>5, <1>6

LEMMA PruneInv == ASSUME IInv, Prune PROVE IInv'
<1> USE DEF IInv
<1>1. PICK d \in todo :
        LET title == plan[at].title IN
        /\ at \in DOMAIN plan /\ d \in plan[at].deps
        /\ todo' = todo \ {d} /\ UNCHANGED <<needs, stage, at, asked, leads, forgot>>
        /\ plan' \in Seq(Task) /\ SameTexts(plan, plan')
        /\ Len(plan') = Len(plan)
        /\ \A i \in DOMAIN plan : i # at => plan'[i] = plan[i]
        /\ \/ /\ Reaches(edges, d, title)
              /\ plan'[at].deps = plan[at].deps \ {d}
              /\ edges' = edges
           \/ /\ ~Reaches(edges, d, title)
              /\ plan' = plan
              /\ edges' = edges \cup {<<title, d>>}
  BY PruneEffect
<1> DEFINE title == plan[at].title
<1>2. /\ plan \in Seq(Task) /\ Len(plan) \in Nat /\ DOMAIN plan = 1..Len(plan)
      /\ DOMAIN plan' = DOMAIN plan /\ at \in 1..Len(plan)
      /\ edges \subseteq Titles \X Titles
  BY <1>1 DEF Shape, TypeOK, SameTexts
<1>3. \A i \in DOMAIN plan : plan'[i].title = plan[i].title
  BY <1>1 DEF SameTexts
<1>4. <<title, d>> \in asked
  BY <1>1, EdgeOf DEF Kept
<1>5. plan'[at].deps \subseteq plan[at].deps
  BY <1>1
<1>6. Shape'
  <2>1. plan[at] \in Task
    BY <1>2
  <2>2. title \in Titles /\ d \in Titles
    BY <1>1, <2>1 DEF Task
  <2>3. edges' \subseteq Titles \X Titles
    BY <1>1, <1>2, <2>2
  <2>4. todo' \subseteq plan'[at].deps
    BY <1>1, <1>2 DEF Shape
  <2> QED
    BY <1>1, <1>2, <2>3, <2>4 DEF Shape, TypeOK
<1>7. Kept'
  <2>1. edges' \subseteq asked'
    BY <1>1, <1>4 DEF Kept
  <2>2. \A i \in DOMAIN plan : plan'[i].deps \subseteq plan[i].deps
    BY <1>1, <1>5
  <2>3. AllEdges(plan') \subseteq AllEdges(plan)
    BY <1>2, <1>3, <2>2, EdgeOf
  <2>4. ASSUME NEW e \in asked, ~Reaches(asked, e[2], e[1]) PROVE e \in AllEdges(plan')
    <3>1. PICK i \in DOMAIN plan : \E x \in plan[i].deps : e = <<plan[i].title, x>>
      BY <2>4, EdgeOf DEF Kept
    <3>2. e[2] \in plan[i].deps /\ e = <<plan[i].title, e[2]>>
      BY <3>1
    <3>3. e[2] \in plan'[i].deps
      <4>1. CASE i # at
        BY <1>1, <3>2, <4>1
      <4>2. CASE i = at /\ e[2] # d
        BY <1>1, <3>2, <4>2
      <4>3. CASE i = at /\ e[2] = d
        <5>1. ~Reaches(edges, d, title)
          BY <2>4, <3>2, <4>3, ReachesMonotone DEF Kept
        <5> QED
          BY <1>1, <3>2, <4>3, <5>1
      <4> QED
        BY <4>1, <4>2, <4>3
    <3> QED
      BY <1>2, <1>3, <3>2, <3>3, EdgeOf
  <2> QED
    BY <1>1, <2>1, <2>3, <2>4 DEF Kept
<1>8. NoCycleYet'
  <2>1. at' = at /\ edges \subseteq edges' /\ todo' = todo \ {d}
    BY <1>1
  <2>2. d \in plan'[at].deps => <<title, d>> \in edges'
    BY <1>1
  <2>3. ASSUME NEW i \in DOMAIN plan', i <= at',
               \A j \in DOMAIN plan' : i < j /\ j <= at' => plan'[j].title # plan'[i].title,
               NEW x \in plan'[i].deps
        PROVE  <<plan'[i].title, x>> \in edges' \/ (i = at' /\ x \in todo')
    <3>1. x \in plan[i].deps
      BY <1>1, <1>2, <1>5, <2>3
    <3>2. <<plan[i].title, x>> \in edges \/ (i = at /\ x \in todo)
      BY <1>2, <1>3, <2>1, <2>3, <3>1 DEF NoCycleYet
    <3> QED
      BY <1>2, <1>3, <2>1, <2>2, <2>3, <3>2
  <2>4. \A t : Begun(t)' => Begun(t)
    BY <1>2, <1>3, <2>1 DEF Begun
  <2>5. ASSUME NEW e \in edges', Begun(e[1])' PROVE ~Reaches(edges', e[2], e[1])
    <3>1. CASE edges' = edges
      BY <2>4, <2>5, <3>1 DEF NoCycleYet
    <3>2. CASE edges' = edges \cup {<<title, d>>} /\ ~Reaches(edges, d, title) /\ e = <<title, d>>
      BY <3>2, AddedEdgeItself
    <3>3. CASE edges' = edges \cup {<<title, d>>} /\ ~Reaches(edges, d, title) /\ e \in edges
      <4>1. e = <<e[1], e[2]>>
        BY <1>2, <3>3
      <4>2. ~Reaches(edges, e[2], e[1])
        BY <2>4, <2>5, <3>3 DEF NoCycleYet
      <4> QED
        BY <3>3, <4>1, <4>2, AddedEdge
    <3> QED
      BY <1>1, <2>5, <3>1, <3>2, <3>3
  <2> QED
    BY <2>3, <2>5 DEF NoCycleYet
<1>9. Ordered(plan', asked')
  BY <1>1, <1>2, OrderedSameTexts
<1> QED
  BY <1>6, <1>7, <1>8, <1>9

LEMMA NextTaskInv == ASSUME IInv, NextTask PROVE IInv'
<1> USE DEF IInv
<1>1. /\ todo = {} /\ at <= Len(plan) /\ plan' = plan /\ at' = at + 1
      /\ todo' = IF at + 1 <= Len(plan) THEN plan[at + 1].deps ELSE {}
      /\ edges' = IF at + 1 <= Len(plan) THEN Without(edges, plan[at + 1].title) ELSE edges
      /\ UNCHANGED <<needs, stage, asked, leads, forgot>>
  BY DEF NextTask, StartTask
<1>2. /\ plan \in Seq(Task) /\ Len(plan) \in Nat /\ DOMAIN plan = 1..Len(plan)
      /\ at \in 1..Len(plan) /\ edges \subseteq Titles \X Titles
  BY <1>1 DEF Shape, TypeOK
<1>3. edges' \subseteq edges /\ (at + 1 <= Len(plan) => \A e \in edges' : e[1] # plan[at + 1].title)
  BY <1>1 DEF Without
<1>4. \A e \in edges : at + 1 > Len(plan) \/ e[1] # plan[at + 1].title => e \in edges'
  BY <1>1, <1>2 DEF Without
<1>5. Shape'
  <2>1. \A i \in 1..Len(plan) : plan[i] \in Task
    BY <1>2
  <2>2. todo' \subseteq Titles
    BY <1>1, <1>2, <2>1 DEF Task
  <2> QED
    BY <1>1, <1>2, <1>3, <2>2 DEF Shape, TypeOK
<1>6. Kept'
  BY <1>1, <1>3 DEF Kept
<1>7. ASSUME NEW i \in DOMAIN plan, i <= at + 1,
             \A j \in DOMAIN plan : i < j /\ j <= at + 1 => plan[j].title # plan[i].title,
             NEW x \in plan[i].deps
      PROVE  <<plan[i].title, x>> \in edges' \/ (i = at + 1 /\ x \in todo')
  <2>1. CASE i = at + 1
    BY <1>1, <1>2, <2>1
  <2>2. CASE i <= at
    <3>1. \A j \in DOMAIN plan : i < j /\ j <= at => plan[j].title # plan[i].title
      BY <1>2, <1>7
    <3>2. <<plan[i].title, x>> \in edges
      BY <1>1, <2>2, <3>1 DEF NoCycleYet
    <3>3. at + 1 > Len(plan) \/ plan[i].title # plan[at + 1].title
      BY <1>2, <1>7, <2>2
    <3> QED
      BY <1>4, <3>2, <3>3
  <2> QED
    BY <1>2, <1>7, <2>1, <2>2
<1>8. ASSUME NEW e \in edges', \E i \in DOMAIN plan : i <= at + 1 /\ plan[i].title = e[1]
      PROVE  ~Reaches(edges', e[2], e[1])
  <2>1. PICK i \in DOMAIN plan : i <= at + 1 /\ plan[i].title = e[1]
    BY <1>8
  <2>2. i <= at
    BY <1>2, <1>3, <2>1
  <2>3. ~Reaches(edges, e[2], e[1])
    BY <1>3, <2>1, <2>2 DEF NoCycleYet, Begun
  <2> QED
    BY <1>3, <2>3, ReachesMonotone
<1>9. NoCycleYet'
  BY <1>1, <1>7, <1>8 DEF NoCycleYet, Begun
<1> QED
  BY <1>1, <1>5, <1>6, <1>9

\* Every step of the two loops keeps the invariant.
LEMMA NextInv == IInv /\ [Next]_vars => IInv'
<1>1. ASSUME IInv, Finish PROVE IInv'
  BY <1>1 DEF IInv, Finish, Shape, TypeOK, Kept, NoCycleYet, Begun
<1>2. ASSUME IInv, UNCHANGED vars PROVE IInv'
  BY <1>2 DEF vars, IInv, Shape, TypeOK, Kept, NoCycleYet, Begun
<1> QED
  BY <1>1, <1>2, PruneInv, NextTaskInv, ConvertInv DEF Next, Done

LEMMA Invariance == Spec => []IInv
BY InitInv, NextInv, PTL DEF Spec

-----------------------------------------------------------------------------
(* The stored plan has no cycle.                                            *)

LEMMA IInvAcyclic == IInv => StoredPlanAcyclic
<1> SUFFICES ASSUME IInv, stage = "done" PROVE Acyclic(TaskEdges)
  BY DEF StoredPlanAcyclic
<1>1. /\ plan \in Seq(Task) /\ Len(plan) \in Nat /\ DOMAIN plan = 1..Len(plan)
      /\ at = Len(plan) + 1 /\ todo = {}
  BY DEF IInv, Shape, TypeOK
<1>2. ASSUME NEW i \in DOMAIN plan, IsLast(plan, i), NEW x \in plan[i].deps
      PROVE  <<plan[i].title, x>> \in edges
  <2>1. \A j \in DOMAIN plan : i < j => plan[j].title # plan[i].title
    BY <1>1, <1>2 DEF IsLast
  <2> QED
    BY <1>1, <2>1 DEF IInv, NoCycleYet
<1>3. \A e \in TaskEdges : /\ e[1] \in DOMAIN plan /\ e[2] \in DOMAIN plan
                         /\ IsLast(plan, e[2]) /\ plan[e[2]].title \in plan[e[1]].deps
  BY DEF TaskEdges
<1>4. ASSUME NEW e \in TaskEdges PROVE ~Reaches(TaskEdges, e[2], e[1])
  <2> DEFINE i == e[1]
             j == e[2]
  <2>1. CASE ~IsLast(plan, i)
    <3> DEFINE S == {k \in DOMAIN plan : IsLast(plan, k)}
    <3>1. Closed(TaskEdges, S) /\ j \in S /\ i \notin S
      BY <1>3, <2>1 DEF Closed
    <3> QED
      BY <3>1, ClosedSeparates
  <2>2. CASE IsLast(plan, i)
    <3>1. <<plan[i].title, plan[j].title>> \in edges
      BY <1>2, <1>3, <2>2
    <3>2. Begun(plan[i].title)
      BY <1>1, <1>3 DEF Begun
    <3>3. ~Reaches(edges, plan[j].title, plan[i].title)
      BY <3>1, <3>2 DEF IInv, NoCycleYet
    <3>4. PICK S : plan[j].title \in S /\ Closed(edges, S) /\ plan[i].title \notin S
      BY <3>3, SeparatingSet
    <3> DEFINE T == {k \in DOMAIN plan : IsLast(plan, k) /\ plan[k].title \in S}
    <3>5. Closed(TaskEdges, T)
      <4>1. ASSUME NEW f \in TaskEdges, f[1] \in T PROVE f[2] \in T
        <5>1. <<plan[f[1]].title, plan[f[2]].title>> \in edges
          BY <1>2, <1>3, <4>1
        <5> QED
          BY <1>3, <3>4, <4>1, <5>1 DEF Closed
      <4> QED
        BY <4>1 DEF Closed
    <3>6. j \in T /\ i \notin T
      BY <1>3, <3>4
    <3> QED
      BY <3>5, <3>6, ClosedSeparates
  <2> QED
    BY <2>1, <2>2
<1> QED
  BY <1>4 DEF Acyclic

\* For plans of any length with any titles, shared ones included, and any
\* dependencies, no stored task waits for itself, however many steps away
\* (pruneDomainDependencyCycles).
THEOREM StoredPlansAcyclic == Spec => []StoredPlanAcyclic
BY Invariance, IInvAcyclic, PTL

-----------------------------------------------------------------------------
(* Pruning removes only what lies on a cycle.                               *)

\* From a plan without cycles pruning takes nothing, in whatever order it
\* looks at the tasks and their dependencies (pruneDependencyCycles).
THEOREM AcyclicPlansKept == Spec => []AcyclicPlanKept
<1>1. ASSUME IInv PROVE AcyclicPlanKept
  BY <1>1 DEF IInv, Kept, Acyclic, AcyclicPlanKept
<1> QED
  BY <1>1, Invariance, PTL

\* What was asked for and is separated from its own end by a closed set of
\* the dependencies asked for is in the plan.
LEMMA KeptEdge ==
    ASSUME Kept, NEW a, NEW b, <<a, b>> \in asked,
           NEW S, b \in S, Closed(asked, S), a \notin S
    PROVE  <<a, b>> \in AllEdges(plan)
BY ClosedSeparates DEF Kept

\* Every task waits for research and reflection, at every moment.
LEMMA AwaitsRoots ==
    ASSUME IInv, NEW i \in DOMAIN plan
    PROVE  /\ Awaits(plan[i].title, FirstTitle(plan, "research"))
           /\ plan[i].title # FirstTitle(plan, "research") =>
                Awaits(plan[i].title, FirstTitle(plan, "reflection"))
<1> DEFINE title == plan[i].title
           research == FirstTitle(plan, "research")
           reflection == FirstTitle(plan, "reflection")
<1>1. title # NoTitle
  <2>1. plan[i] \in Task
    BY DEF IInv, Shape, TypeOK
  <2> QED
    BY <2>1, PlansAssumption DEF Task
<1>2. /\ \A e \in asked : e[1] # research
      /\ reflection # research => \A e \in asked : e[1] = reflection => e[2] = research
  BY DEF IInv, Ordered
<1>3. Closed(asked, {research}) /\ Closed(asked, {research, reflection})
  BY <1>2 DEF Closed
<1>4. ASSUME reflection # research, NoTitle \notin {research, reflection}
      PROVE  <<reflection, research>> \in AllEdges(plan)
  <2>1. <<reflection, research>> \in asked
    BY <1>4 DEF IInv, Ordered
  <2> QED
    BY <1>3, <1>4, <2>1, KeptEdge DEF IInv
<1>5. CASE title = research
  BY <1>5, ReachesSelf DEF Awaits
<1>6. CASE title # research /\ title = reflection
  BY <1>1, <1>4, <1>6, ReachesSelf, ReachesEdge DEF Awaits
<1>7. CASE title \notin {research, reflection}
  <2>1. ASSUME NEW root \in Root(plan) PROVE <<title, root>> \in AllEdges(plan)
    <3>1. <<title, root>> \in asked /\ root \in {research, reflection}
      BY <1>7 DEF IInv, Ordered, Root
    <3> QED
      BY <1>3, <1>7, <3>1, KeptEdge DEF IInv
  <2>2. reflection # NoTitle => Reaches(AllEdges(plan), title, reflection)
    BY <2>1, ReachesEdge DEF Root
  <2>3. CASE reflection = NoTitle
    BY <2>1, <2>3, ReachesEdge DEF Root, Awaits
  <2>4. CASE reflection # NoTitle /\ research = reflection
    BY <2>2, <2>4 DEF Awaits
  <2>5. CASE reflection # NoTitle /\ research # reflection /\ research # NoTitle
    <3>1. Reaches(AllEdges(plan), reflection, research)
      BY <1>4, <2>5, ReachesEdge
    <3> QED
      BY <2>2, <2>5, <3>1, ReachesTransitive DEF Awaits
  <2>6. CASE reflection # NoTitle /\ research = NoTitle
    BY <2>2, <2>6 DEF Awaits
  <2> QED
    BY <2>3, <2>4, <2>5, <2>6
<1> QED
  BY <1>5, <1>6, <1>7

\* For plans of any length with any titles and marks, the tasks that verify
\* and report wait, over any number of steps, for all the others
\* (normalizePlannedDependencies, normalizeTaskDependencies).
THEOREM FinalTasksLast == Spec => []FinalTasksComeLast
<1>1. ASSUME IInv, NEW i \in DOMAIN plan, NEW j \in DOMAIN plan,
             FinalTitle(plan, plan[i].title), ~FinalTitle(plan, plan[j].title)
      PROVE  Reaches(AllEdges(plan), plan[i].title, plan[j].title)
  <2> DEFINE final == plan[i].title
             title == plan[j].title
             research == FirstTitle(plan, "research")
             reflection == FirstTitle(plan, "reflection")
  <2>1. plan \in Seq(Task) /\ plan[j] \in Task /\ final \notin {research, reflection}
    BY <1>1 DEF IInv, Shape, TypeOK, FinalTitle
  <2>2. title # NoTitle
    BY <2>1, PlansAssumption DEF Task
  <2>3. CASE title \in {research, reflection}
    BY <1>1, <2>1, <2>2, <2>3, AwaitsRoots DEF Awaits
  <2>4. CASE title \notin {research, reflection}
    <3>1. PICK k \in DOMAIN plan : plan[k].title = title /\ IsLast(plan, k)
      BY <2>1, TitleHasLast
    <3>2. ~Has(plan[k], "final")
      BY <1>1, <2>4, <3>1 DEF FinalTitle
    <3>3. <<final, title>> \in asked
      BY <1>1, <3>1, <3>2 DEF IInv, Ordered
    <3> DEFINE S == {title} \cup {t \in Titles : ~FinalTitle(plan, t)}
    <3>4. Closed(asked, S)
      <4>1. asked \subseteq Titles \X Titles
        BY <1>1 DEF IInv, Shape, TypeOK
      <4>2. \A e \in asked : e[1] \in S => ~FinalTitle(plan, e[2])
        BY <1>1 DEF IInv, Ordered
      <4> QED
        BY <4>1, <4>2 DEF Closed
    <3>5. title \in S /\ final \notin S
      BY <1>1
    <3> HIDE DEF S
    <3>6. <<final, title>> \in AllEdges(plan)
      BY <1>1, <3>3, <3>4, <3>5, KeptEdge DEF IInv
    <3> QED
      BY <3>6, ReachesEdge
  <2> QED
    BY <2>3, <2>4
<1>2. IInv => FinalTasksComeLast
  BY <1>1 DEF FinalTasksComeLast
<1> QED
  BY <1>2, Invariance, PTL

-----------------------------------------------------------------------------
(* Research and reflection.                                                 *)

\* What the planner's decomposition gives: a plan for a request that needs
\* research has a task marked for it and one for reflection.
PlansHaveBoth ==
    \A p \in Plans : p.needs =>
        \A mark \in {"research", "reflection"} : FirstTitle(p.tasks, mark) # NoTitle

\* What the planner's leading tasks are to the runtime.
LeadsInv ==
    /\ needs => \A mark \in {"research", "reflection"} : leads[mark] # NoTitle
    /\ stage = "planner" => forgot = {}
    /\ \A mark \in {"research", "reflection"} \ forgot : FirstTitle(plan, mark) = leads[mark]

LEMMA InitLeads == PlansHaveBoth /\ Init => LeadsInv
<1> SUFFICES ASSUME PlansHaveBoth, Init PROVE LeadsInv
  OBVIOUS
<1>1. PICK p \in Plans : needs = p.needs /\ plan = Normalized(p.tasks) /\ leads = LeadsOf(plan)
  BY DEF Init, InitFrom
<1>2. p.tasks \in Seq(Task) /\ forgot = {}
  BY PlansAssumption DEF Init, InitFrom
<1>3. \A mark : FirstTitle(p.tasks, mark) = FirstTitle(plan, mark)
  BY <1>1, <1>2, NormalizedType, SameTextsSameTitles
<1> QED
  BY <1>1, <1>2, <1>3 DEF PlansHaveBoth, LeadsInv, LeadsOf

\* The conversion takes a leading task's mark, or leaves it the first with it.
LEMMA ConvertLeads == ASSUME IInv, LeadsInv, Convert PROVE LeadsInv'
<1>1. plan \in Seq(Task) /\ Len(plan) \in Nat /\ DOMAIN plan = 1..Len(plan)
  BY DEF IInv, Shape, TypeOK
<1>2. PICK lost \in SUBSET Described :
         /\ plan' = Normalized([i \in 1..Len(plan) |->
                      [plan[i] EXCEPT !.marks = {m \in @ : <<i, m>> \notin lost}]])
         /\ forgot' = {p[2] : p \in {q \in lost : q[2] \in DOMAIN leads /\ q[1] = First(plan, q[2])}}
  BY DEF Convert, StartTask
<1> DEFINE domain == [i \in 1..Len(plan) |->
                        [plan[i] EXCEPT !.marks = {m \in @ : <<i, m>> \notin lost}]]
<1>3. \A i \in 1..Len(plan) : /\ domain[i] \in Task /\ domain[i].title = plan[i].title
                              /\ domain[i].marks = {m \in plan[i].marks : <<i, m>> \notin lost}
  <2>1. \A i \in 1..Len(plan) : plan[i] \in Task
    BY <1>1
  <2> QED
    BY <2>1 DEF Task
<1>4. domain \in Seq(Task) /\ DOMAIN domain = DOMAIN plan
  BY <1>1, <1>3
<1>5. plan' = Normalized(domain)
  BY <1>2
<1> HIDE DEF domain
<1>6. DOMAIN leads = {"research", "reflection"}
  BY DEF IInv, Shape, TypeOK
<1>7. UNCHANGED <<needs, leads>> /\ stage' = "runtime" /\ forgot = {}
  BY DEF Convert, LeadsInv
<1>8. ASSUME NEW mark \in {"research", "reflection"}, mark \notin forgot'
      PROVE  FirstTitle(plan', mark) = leads[mark]
  <2>1. <<First(plan, mark), mark>> \notin lost
    BY <1>2, <1>6, <1>8
  <2>2. (\E i \in DOMAIN plan : Has(plan[i], mark)) => Has(domain[First(plan, mark)], mark)
    BY <1>1, <1>3, <2>1, FirstIsFirst DEF Has
  <2>3. FirstTitle(domain, mark) = FirstTitle(plan, mark)
    BY <1>1, <1>3, <1>4, <2>2, FirstTitleKept DEF Has
  <2>4. FirstTitle(domain, mark) = FirstTitle(plan', mark)
    BY <1>4, <1>5, NormalizedType, SameTextsSameTitles
  <2> QED
    BY <1>7, <2>3, <2>4 DEF LeadsInv
<1>9. \A mark : FirstTitle(plan, mark)' = FirstTitle(plan', mark)
  BY DEF FirstTitle, First, Has
<1> QED
  BY <1>7, <1>8, <1>9 DEF LeadsInv

LEMMA NextLeads == IInv /\ LeadsInv /\ [Next]_vars => LeadsInv'
<1>1. ASSUME IInv, LeadsInv, Prune PROVE LeadsInv'
  <2>1. SameTexts(plan, plan') /\ UNCHANGED <<needs, stage, leads, forgot>>
    BY <1>1, PruneEffect DEF IInv
  <2>2. \A mark : FirstTitle(plan, mark) = FirstTitle(plan', mark)
    BY <1>1, <2>1, SameTextsSameTitles DEF IInv, Shape, TypeOK
  <2>3. \A mark : FirstTitle(plan, mark)' = FirstTitle(plan', mark)
    BY DEF FirstTitle, First, Has
  <2> QED
    BY <1>1, <2>1, <2>2, <2>3 DEF LeadsInv
<1>2. ASSUME LeadsInv, NextTask \/ Finish \/ Done \/ UNCHANGED vars PROVE LeadsInv'
  <2>1. UNCHANGED <<needs, plan, leads, forgot>> /\ (stage' = "planner" => stage = "planner")
    BY <1>2 DEF NextTask, StartTask, Finish, Done, vars
  <2>2. \A mark : FirstTitle(plan, mark)' = FirstTitle(plan, mark)
    BY <2>1 DEF FirstTitle, First, Has
  <2> QED
    BY <1>2, <2>1, <2>2 DEF LeadsInv
<1> QED
  BY <1>1, <1>2, ConvertLeads DEF Next

\* For plans of any length that the decomposition can give, a request that
\* needs research and reflection has both, and all other tasks of the stored
\* plan wait for the planner's first research and reflection tasks, unless the
\* conversion to domain tasks drops the description that alone names such a task
\* (ensureResearchAndReflectionTasks, planner/llm.go:74-77,
\* normalizeTaskDependencies).
THEOREM ResearchComesFirst ==
    ASSUME PlansHaveBoth
    PROVE  Spec => []ResearchThenReflection
<1>1. IInv /\ LeadsInv => ResearchThenReflection
  BY AwaitsRoots DEF LeadsInv, ResearchThenReflection
<1>2. Init => LeadsInv
  BY InitLeads
<1>3. IInv /\ LeadsInv /\ [Next]_vars => LeadsInv'
  BY NextLeads
<1> QED
  BY <1>1, <1>2, <1>3, Invariance, PTL DEF Spec
=============================================================================
