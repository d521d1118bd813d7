---------------------------- MODULE MCProjectRun ----------------------------
(* Instances of ProjectRun for TLC.                                        *)
EXTENDS ProjectRun, TLC

\* Goroutines are interchangeable (not used where a property is temporal).
SlotSymmetry == Permutations(Slots)
=============================================================================
