---------------------------- MODULE DependencyWalk ----------------------------
(* The walk that asks whether a task would come to depend on itself          *)
(* (domainDependencyReaches in runtime/service_planning.go, reachesDependency *)
(* in planner/llm.go): depth first, from a dependency to the task that wants  *)
(* it, with one set of seen titles for the whole walk.  A call is a frame of  *)
(* the stack; no title is empty.                                              *)
EXTENDS Naturals, Sequences, DependencyGraph

CONSTANTS
    Names,     \* titles of tasks
    Walks      \* graphs with the two titles a walk is asked about: members of Question

Question == [edges : SUBSET (Names \X Names), from : Names, target : Names]

VARIABLES
    ask,       \* depsByTitle, from and target of the outermost call
    seen,      \* the set all calls share
    stack,     \* the calls in progress: title and dependencies still to try
    answer     \* what the outermost call returned
walkVars == <<ask, seen, stack, answer>>

Frame(title) == [title |-> title, rest |-> {e[2] : e \in {f \in ask.edges : f[1] = title}}]
Top == stack[Len(stack)]

Init ==
    /\ ask \in Walks
    /\ seen = {} /\ stack = <<>> /\ answer = "none"

\* The outermost call.
Begin ==
    /\ answer = "none" /\ stack = <<>>
    /\ \/ /\ ask.from = ask.target
          /\ answer' = "found" /\ UNCHANGED <<seen, stack>>
       \/ /\ ask.from # ask.target
          /\ seen' = {ask.from} /\ stack' = <<Frame(ask.from)>> /\ UNCHANGED answer
    /\ UNCHANGED ask

\* The innermost call has tried one of its dependencies.
Tried(next) == [stack EXCEPT ![Len(stack)].rest = @ \ {next}]

\* Faulty: all dependencies of a call count as seen at once.
SeeingAll(next) == seen \cup Top.rest

\* The titles seen once the call for next is entered.
Seeing(next) == seen \cup {next}

\* It calls for the next one, in whatever order the list has: TRUE goes
\* through all the calls, a seen title gives FALSE, another one is entered.
Try ==
    /\ stack # <<>>
    /\ \E next \in Top.rest :
         \/ /\ next = ask.target
            /\ answer' = "found" /\ stack' = <<>> /\ UNCHANGED seen
         \/ /\ next # ask.target /\ next \in seen
            /\ stack' = Tried(next) /\ UNCHANGED <<seen, answer>>
         \/ /\ next # ask.target /\ next \notin seen
            /\ seen' = Seeing(next)
            /\ stack' = Append(Tried(next), Frame(next)) /\ UNCHANGED answer
    /\ UNCHANGED ask

\* It has tried them all and returns FALSE to its caller.
Back ==
    /\ stack # <<>> /\ Top.rest = {}
    /\ stack' = SubSeq(stack, 1, Len(stack) - 1)
    /\ answer' = IF Len(stack) = 1 THEN "not found" ELSE answer
    /\ UNCHANGED <<ask, seen>>

Returned == answer # "none" /\ UNCHANGED walkVars

Next == Begin \/ Try \/ Back \/ Returned
-----------------------------------------------------------------------------
TypeOK ==
    /\ ask \in Question
    /\ seen \subseteq Names
    /\ stack \in Seq([title : Names, rest : SUBSET Names])
    /\ answer \in {"none", "found", "not found"}

\* The walk finds a path exactly when there is one, in whatever order it tries
\* the dependencies and although a call leaves out what others have seen.
FindsEveryPath ==
    answer # "none" => (answer = "found" <=> Reaches(ask.edges, ask.from, ask.target))
=============================================================================
