----------------------- MODULE HousekeepingRefinement -----------------------
(***************************************************************************)
(* Housekeeping implements RoomTurnover where handlers of one row keep     *)
(* apart, as they do when it serves one request at a time.                 *)
(***************************************************************************)
EXTENDS Housekeeping

\* A task is due from the write that completes it to the room's.
DueTasks == {req[q].task : q \in {p \in Slots : req[p].op = "pass"
                                                /\ req[p].pc \in {"room", "promote"}}}

StatusOf == [t \in Tasks |-> IF tasks[t] = Null THEN Null ELSE tasks[t].status]
RoomOf   == [t \in Tasks |-> IF tasks[t] = Null THEN Null ELSE tasks[t].room]

Turnover == INSTANCE RoomTurnover WITH
    status <- StatusOf, home <- RoomOf, due <- DueTasks, MayFail <- CanFail

\* Tasks and rooms walk their tables, and the room of every task that passes is
\* promoted, if it may be, before anything else happens to either, unless the
\* request fails (housekeeping.service.ts:61-327, properties.service.ts:345-378).
ImplementsTurnover == Turnover!FairSpec

\* The same without the promise that what is due is seen to
WalksTurnover == Turnover!Spec

\* However many handlers overlap, a task that passed is decided on: its room becomes
\* VACANT_CLEAN or may not become so, and only a request that fails leaves it at that
\* (housekeeping.service.ts:266-283).
PassedAreDecided ==
    [][\A t \in DueTasks \ DueTasks' :
          \/ rooms'[tasks[t].room] = "VACANT_CLEAN"
          \/ ~RoomCanTransition(rooms[tasks[t].room], "VACANT_CLEAN")
          \/ \E q \in Slots : req[q].task = t /\ Fail(q)]_vars

=============================================================================
