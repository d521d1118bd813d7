--------------------------- MODULE DependencyGraph ---------------------------
(* Dependency graphs as sets of pairs <<task, what it depends on>>.  The    *)
(* code's walk along them is DependencyWalk.                                *)

Nodes(E) == {e[1] : e \in E} \cup {e[2] : e \in E}

Closed(E, S) == \A e \in E : e[1] \in S => e[2] \in S

\* b is reached from a, in any number of steps: no closed set holds a without b.
Reaches(E, a, b) ==
    \A S \in SUBSET (Nodes(E) \cup {a}) : a \in S /\ Closed(E, S) => b \in S

Acyclic(E) == \A e \in E : ~Reaches(E, e[2], e[1])
=============================================================================
