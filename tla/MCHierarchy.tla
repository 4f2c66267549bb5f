---------------------------- MODULE MCHierarchy ----------------------------
(* Symmetry and small sets for the run of Hierarchy *)
EXTENDS Hierarchy, TLC

CONSTANTS p1, p2, b1, b2, f1, f2, r1, r2, a, A, B, n1, n2, g1, q1, q2

\* Sound: the run checks invariants and action properties only.
Interchangeable ==
    Permutations(Slots) \cup Permutations(Properties) \cup Permutations(Buildings)
      \cup Permutations(Floors) \cup Permutations(Rooms) \cup Permutations(Names)

\* Two codes, one of them typed in lower and in upper case
UpperCase == a :> A @@ A :> A @@ B :> B

=============================================================================
