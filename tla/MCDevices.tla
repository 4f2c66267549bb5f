----------------------------- MODULE MCDevices -----------------------------
(* Symmetry and small sets for the runs of Devices *)
EXTENDS DevicesOverlaps, TLC

CONSTANTS d1, p1, p2, r1, r2, e1, q1, q2

\* Sound for the runs of invariants and action properties only.
Interchangeable == Permutations({q1, q2})

\* One property has no room
OneRoom == r1 :> p1

NoChange == [status |-> Keep, room |-> Keep, lastError |-> Keep]
\* Operators take devices out of rooms and write metadata, or move devices anywhere
Evictions == {[NoChange EXCEPT !.room = r] : r \in {Keep, Null}}
             \cup {[NoChange EXCEPT !.lastError = e1]}
Moves == {[NoChange EXCEPT !.room = r] : r \in Rooms \cup {Null}}

=============================================================================
