---------------------------- MODULE ProjectPhases ----------------------------
(***************************************************************************)
(* What the run queue of internal/runtime/queue.go promises about each     *)
(* project, with the channel, the dedup map, the workers and the           *)
(* submitters hidden: a project has at most one run queued or in progress  *)
(* at a time, and a run begins only for a project that was queued.         *)
(***************************************************************************)
CONSTANT Projects       \* the projects runs are submitted for

VARIABLE phase          \* phase[p]: what the queue is doing about project p

vars == <<phase>>

Init == phase = [p \in Projects |-> "idle"]

\* A submission is taken for a project with nothing queued and nothing running.
Accept(p) == /\ phase[p] = "idle"
             /\ phase' = [phase EXCEPT ![p] = "queued"]

\* A queued project is given up: the buffer was full.
Refuse(p) == /\ phase[p] = "queued"
             /\ phase' = [phase EXCEPT ![p] = "idle"]

Begin(p) == /\ phase[p] = "queued"
            /\ phase' = [phase EXCEPT ![p] = "running"]

Finish(p) == /\ phase[p] = "running"
             /\ phase' = [phase EXCEPT ![p] = "idle"]

Next == \E p \in Projects : Accept(p) \/ Refuse(p) \/ Begin(p) \/ Finish(p)

Spec == Init /\ [][Next]_vars
=============================================================================
