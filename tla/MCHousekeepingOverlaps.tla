----------------------- MODULE MCHousekeepingOverlaps -----------------------
(* The small sets of MCHousekeeping for the run that has the history variable *)
EXTENDS MCHousekeeping, HousekeepingOverlaps

=============================================================================
