--------------------------------- MODULE MC ---------------------------------
(* Instances of TaskRuns for TLC. *)
EXTENDS TaskRuns, TLC

CONSTANTS c1, c2, t1, t2

NoRivals == {}
BothRivals == {<<t1, t2>>, <<t2, t1>>}

\* Cores are interchangeable; only safety runs use this.
CoreSymmetry == Permutations(Cores)
=============================================================================
