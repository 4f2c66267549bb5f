----------------------------- MODULE TaskStatus -----------------------------
(***************************************************************************)
(* The status table of a housekeeping task, as                             *)
(* housekeeping/task-status.state-machine.ts holds it.                     *)
(***************************************************************************)

TaskStatuses == {"PENDING", "ASSIGNED", "IN_PROGRESS", "INSPECTION", "COMPLETED", "CANCELLED"}

TaskTransitions ==
    [PENDING     |-> {"ASSIGNED", "CANCELLED"},
     ASSIGNED    |-> {"IN_PROGRESS", "PENDING", "CANCELLED"},
     IN_PROGRESS |-> {"INSPECTION", "CANCELLED"},
     INSPECTION  |-> {"COMPLETED", "IN_PROGRESS"},
     COMPLETED   |-> {},
     CANCELLED   |-> {}]

\* A task never moves to the status it has: a self-transition is refused.
TaskCanTransition(from, to) == from # to /\ to \in TaskTransitions[from]

TerminalStatuses == {s \in TaskStatuses : TaskTransitions[s] = {}}

=============================================================================
