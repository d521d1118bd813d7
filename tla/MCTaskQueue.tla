----------------------------- MODULE MCTaskQueue -----------------------------
(***************************************************************************)
(* TLC instance of TaskQueue.  Capacity 1 against three projects makes the *)
(* buffer-full path of Submit reachable; two submitters race each other    *)
(* and two workers can hold two runs at once.                              *)
(***************************************************************************)
EXTENDS TaskQueue, TLC

CONSTANTS p1, p2, p3, w1, w2, s1, s2

MCProjects == {p1, p2, p3}
MCWorkers == {w1, w2}
MCSubmitters == {s1, s2}
=============================================================================
