-------------------------- MODULE MCSubforumIndex --------------------------
(* A subforum without threads at first; the sort is looked at with up to four.*)
EXTENDS SubforumIndex, TLC

MCTables == {<<>>}

\* All that up to four threads may say, at two instants.
MCSamples == UNION {[1 .. n -> 1 .. 2] : n \in 0 .. 4}

Symmetry == Permutations(Readers)
=============================================================================
