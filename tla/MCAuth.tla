------------------------------- MODULE MCAuth -------------------------------
(* Symmetry and small sets for the runs of Auth *)
EXTENDS AuthOverlaps, TLC

CONSTANTS u1, u1upper, pw1, pw2, k1, k2, k3, x1, q1, q2

\* Sound: the runs check invariants and action properties only.
Interchangeable == Permutations(Slots) \cup Permutations(Tokens)
                     \cup Permutations(Passwords)

\* One address, and another way to write it
OneAddress == [u \in Users |-> u1]

Suspension == {"ACTIVE", "SUSPENDED"}

=============================================================================
