---------------------------- MODULE RoomTurnover ----------------------------
(***************************************************************************)
(* What housekeeping promises its users, with nothing of how: every task   *)
(* walks the task table, every room walks the room table, and the room of  *)
(* a task whose inspection passed becomes VACANT_CLEAN if its status lets  *)
(* it, unless a failure comes in between.  The promises are those of the   *)
(* comments over the two tables (task-status.state-machine.ts,             *)
(* room-status.state-machine.ts) and over inspectTask                      *)
(* (housekeeping.service.ts).                                              *)
(***************************************************************************)
EXTENDS TaskStatus, RoomStatus

CONSTANTS Tasks, Rooms, Null,
    MayFail  \* whether a failure may keep the promise from being kept

VARIABLES
    status,  \* of every task; Null before it is created
    home,    \* the room of every task; Null before it is created
    rooms,   \* the status of every room
    due      \* tasks that passed and whose room is still to be promoted

vars == <<status, home, rooms, due>>

Init ==
    /\ status = [t \in Tasks |-> Null]
    /\ home = [t \in Tasks |-> Null]
    /\ rooms \in [Rooms -> RoomStatuses]
    /\ due = {}

New(t, r) ==
    /\ status[t] = Null
    /\ status' = [status EXCEPT ![t] = "PENDING"]
    /\ home' = [home EXCEPT ![t] = r]
    /\ UNCHANGED <<rooms, due>>

Move(t, to) ==
    /\ status[t] # Null
    /\ TaskCanTransition(status[t], to)
    /\ status' = [status EXCEPT ![t] = to]
    /\ due' = IF to = "COMPLETED" THEN due \cup {t} ELSE due
    /\ UNCHANGED <<home, rooms>>

\* The promise is kept, or the room may not become clean from where it is.
Promote(t) ==
    /\ t \in due
    /\ due' = due \ {t}
    /\ rooms' = IF RoomCanTransition(rooms[home[t]], "VACANT_CLEAN")
                THEN [rooms EXCEPT ![home[t]] = "VACANT_CLEAN"] ELSE rooms
    /\ UNCHANGED <<status, home>>

\* The promise is forgotten for good: nothing tries again.
Abandon(t) ==
    /\ MayFail
    /\ t \in due
    /\ due' = due \ {t}
    /\ UNCHANGED <<status, home, rooms>>

SetRoom(r, to) ==
    /\ RoomCanTransition(rooms[r], to)
    /\ rooms' = [rooms EXCEPT ![r] = to]
    /\ UNCHANGED <<status, home, due>>

Next ==
    \/ \E t \in Tasks : \/ \E r \in Rooms : New(t, r)
                        \/ \E s \in TaskStatuses : Move(t, s)
                        \/ Promote(t) \/ Abandon(t)
    \/ \E r \in Rooms, s \in RoomStatuses : SetRoom(r, s)

Spec == Init /\ [][Next]_vars

\* What is due is seen to.
FairSpec == Spec /\ \A t \in Tasks : WF_vars(Promote(t))

=============================================================================
