--------------------------- MODULE MCHousekeeping ---------------------------
(* Symmetry and small sets for the runs of Housekeeping *)
EXTENDS HousekeepingRefinement, TLC

CONSTANTS t1, t2, r1, r2, h1, h2, s1, n1, q1, q2

\* Sound for the runs of invariants and action properties only.
Interchangeable == Permutations({q1, q2})

AllRoomStatuses == RoomStatuses
CleanRoom == {"VACANT_CLEAN"}
DirtyRoom == {"VACANT_DIRTY"}
\* One status a room may not become clean from, so that a promotion may be skipped
OutOfOrder == {"OUT_OF_ORDER"}
FrontDeskMoves == {"VACANT_DIRTY", "OCCUPIED_CLEAN", "OUT_OF_ORDER"}

=============================================================================
