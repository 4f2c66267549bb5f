----------------------------- MODULE RoomStatus -----------------------------
(***************************************************************************)
(* The status table of a room, as properties/room-status.state-machine.ts  *)
(* holds it.                                                               *)
(***************************************************************************)

RoomStatuses == {"VACANT_CLEAN", "VACANT_DIRTY", "OCCUPIED_CLEAN", "OCCUPIED_DIRTY",
                 "MAINTENANCE_REQUIRED", "OUT_OF_ORDER"}

RoomTransitions ==
    LET always == {"MAINTENANCE_REQUIRED", "OUT_OF_ORDER"}
    IN  [VACANT_CLEAN         |-> {"OCCUPIED_CLEAN", "VACANT_DIRTY"} \cup always,
         VACANT_DIRTY         |-> {"VACANT_CLEAN"} \cup always,
         OCCUPIED_CLEAN       |-> {"OCCUPIED_DIRTY", "VACANT_DIRTY"} \cup always,
         OCCUPIED_DIRTY       |-> {"OCCUPIED_CLEAN", "VACANT_DIRTY"} \cup always,
         MAINTENANCE_REQUIRED |-> RoomStatuses \ {"MAINTENANCE_REQUIRED"},
         OUT_OF_ORDER         |-> {"VACANT_DIRTY", "MAINTENANCE_REQUIRED"}]

\* A room may always be "moved" to the status it has: the no-op is accepted.
RoomCanTransition(from, to) == from = to \/ to \in RoomTransitions[from]

=============================================================================
