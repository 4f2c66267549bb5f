---------------------------- MODULE Housekeeping ----------------------------
(***************************************************************************)
(* The housekeeping service and the front desk's room status endpoint:     *)
(* housekeeping/housekeeping.service.ts and updateRoomStatus of            *)
(* properties/properties.service.ts.                                       *)
(*                                                                         *)
(* Both keep their state in PostgreSQL and use no transaction: a handler   *)
(* reads a row, decides on what it read, writes the row, and only then     *)
(* appends to the audit log.  Every one of those is an await, where the    *)
(* single Node process serves other requests, so each database call is an  *)
(* action here.  The code that runs between two calls of a handler (the    *)
(* validation, the `new Date()`) touches only the handler's own variables  *)
(* and belongs to the call before it.                                      *)
(***************************************************************************)
EXTENDS Naturals, TaskStatus, RoomStatus

CONSTANTS
    Tasks,                \* task ids; a task row exists once createTask inserts it
    Rooms,                \* rooms, all created before
    Housekeepers,         \* users whose role is HOUSEKEEPING
    Supervisors,          \* users of another role
    Notes,                \* contents of the notes column, "" among them
    Slots,                \* requests that can be in flight at once
    InitialRoomStatuses,  \* statuses the rooms may be created with
    FrontDeskTargets,     \* statuses the front desk asks for
    Logged,               \* bound on the audit log: the actions whose entries it keeps
    MaxTime,              \* bound on the clock
    CanFail,              \* whether a database call may fail, or the process die
    Null                  \* a NULL column; an id that names no row

ASSUME MaxTimeAssumption == MaxTime \in Nat \ {0}
ASSUME UsersAssumption == Housekeepers \cap Supervisors = {}
ASSUME StatusAssumption ==
    InitialRoomStatuses \subseteq RoomStatuses /\ FrontDeskTargets \subseteq RoomStatuses
ASSUME FailAssumption == CanFail \in BOOLEAN

VARIABLES
    tasks,   \* the HousekeepingTask table
    rooms,   \* the status column of the Room table
    req,     \* the request each slot is serving
    audit,   \* the audit log, as <<action, resource id>> pairs
    now      \* the clock that `new Date()` reads

vars == <<tasks, rooms, req, audit, now>>

-----------------------------------------------------------------------------
Users == Housekeepers \cup Supervisors
Time == 1..MaxTime
OrNull(S) == S \cup {Null}

Row == [status: TaskStatuses, room: Rooms, assignedTo: OrNull(Housekeepers),
        startedAt: OrNull(Time), completedAt: OrNull(Time), inspectedAt: OrNull(Time),
        inspectedBy: OrNull(Supervisors), notes: OrNull(Notes)]

\* NULL is none of the values a column holds, and no row
ASSUME NullAssumption ==
    Null \notin Nat \cup Notes \cup Tasks \cup Rooms \cup Users \cup TaskStatuses /\ Null \notin Row

\* The handlers of one task row and the status each one asks for.  "pass" and
\* "fail" are inspectTask with dto.passed true and false.
Target == [assign |-> "ASSIGNED", start |-> "IN_PROGRESS", submit |-> "INSPECTION",
           pass |-> "COMPLETED", fail |-> "IN_PROGRESS", cancel |-> "CANCELLED"]
TaskOps == DOMAIN Target
Ops == TaskOps \cup {"create", "roomStatus"}

\* A request in flight: what was asked (task, room, user, target, notes) and what
\* the handler has read so far (seen, the status; kept, the notes; at, the clock),
\* with the database call it waits for.
Request(op, pc, task, room, user, target, notes) ==
    [op |-> op, pc |-> pc, task |-> task, room |-> room, user |-> user,
     target |-> target, notes |-> notes, seen |-> Null, kept |-> Null, at |-> Null]

Idle == Request("none", "idle", Null, Null, Null, Null, Null)

PCs == {"read", "user", "write", "room", "promote", "audit"}

RequestType == [op: Ops \cup {"none"}, pc: PCs \cup {"idle"}, task: OrNull(Tasks),
                room: OrNull(Rooms), user: OrNull(Users), target: OrNull(RoomStatuses),
                notes: OrNull(Notes), seen: OrNull(TaskStatuses), kept: OrNull(Notes),
                at: OrNull(Time)]

\* The requests a client may send.  An unknown room, user or task is one of the
\* inputs: Null, or an id of Tasks that was not inserted yet.
CreateRequests == {Request("create", "read", t, r, Null, Null, n) :
                       t \in Tasks, r \in OrNull(Rooms), n \in OrNull(Notes)}
AssignRequests == {Request("assign", "read", t, Null, u, Null, Null) :
                       t \in Tasks, u \in OrNull(Users)}
StartRequests == {Request("start", "read", t, Null, Null, Null, Null) : t \in Tasks}
CancelRequests == {Request("cancel", "read", t, Null, Null, Null, Null) : t \in Tasks}
SubmitRequests == {Request("submit", "read", t, Null, Null, Null, n) :
                       t \in Tasks, n \in OrNull(Notes)}
InspectRequests == {Request(op, "read", t, Null, s, Null, n) :
                        op \in {"pass", "fail"}, t \in Tasks, s \in Supervisors,
                        n \in OrNull(Notes)}
RoomStatusRequests == {Request("roomStatus", "read", Null, r, Null, s, Null) :
                           r \in OrNull(Rooms), s \in FrontDeskTargets}

\* Prisma generates the id of a new task, so no other createTask can have it.
IsFresh(t) == tasks[t] = Null /\ \A q \in Slots : ~(req[q].op = "create" /\ req[q].task = t)

-----------------------------------------------------------------------------
Init ==
    /\ tasks = [t \in Tasks |-> Null]
    /\ rooms \in [Rooms -> InitialRoomStatuses]
    /\ req = [q \in Slots |-> Idle]
    /\ audit = {}
    /\ now = 1

Accept(q, requests) ==
    /\ req[q] = Idle
    /\ \E new \in requests :
          /\ new.op = "create" => IsFresh(new.task)
          /\ req' = [req EXCEPT ![q] = new]
    /\ UNCHANGED <<tasks, rooms, audit, now>>

Receive(q) ==
    \/ Accept(q, CreateRequests)
    \/ Accept(q, AssignRequests)
    \/ Accept(q, StartRequests)
    \/ Accept(q, SubmitRequests)
    \/ Accept(q, InspectRequests)
    \/ Accept(q, CancelRequests)
    \/ Accept(q, RoomStatusRequests)

\* The handler moves on to its next database call, or answers.
Await(q, pc) == req' = [req EXCEPT ![q] = [@ EXCEPT !.pc = pc]]
Answer(q) == req' = [req EXCEPT ![q] = Idle]

AtCall(q, op, pc) == req[q].op = op /\ req[q].pc = pc

\* prisma.housekeepingTask.update on the row of the request
UpdateTask(q, row) ==
    /\ tasks' = [tasks EXCEPT ![req[q].task] = row]
    /\ UNCHANGED <<rooms, audit, now>>

-----------------------------------------------------------------------------
(* The handlers.  A definition whose comment starts with "..." is what the one *)
(* after it would be with a bug; no action uses it.                          *)

(* createTask *)

CreateReadRoom(q) ==
    /\ AtCall(q, "create", "read")
    /\ IF req[q].room \in Rooms THEN Await(q, "write") ELSE Answer(q)
    /\ UNCHANGED <<tasks, rooms, audit, now>>

NewTask(room, notes) ==
    [status |-> "PENDING", room |-> room, assignedTo |-> Null, startedAt |-> Null,
     completedAt |-> Null, inspectedAt |-> Null, inspectedBy |-> Null, notes |-> notes]

CreateWrite(q) ==
    /\ AtCall(q, "create", "write")
    /\ UpdateTask(q, NewTask(req[q].room, req[q].notes))
    /\ Await(q, "audit")

-----------------------------------------------------------------------------
(* assignTask, startTask, submitForInspection, inspectTask, cancelTask *)

\* ... as `dto.notes ?? null`
OrElseNull(a, b) == a

\* `dto.notes ?? task.notes`; an empty string is given, so it replaces the notes.
Coalesce(a, b) == IF a # Null THEN a ELSE b

\* ... where any task not yet closed may be assigned
AssignableWhileOpen(status) == status \notin TerminalStatuses

\* assignTask pivots an ASSIGNED task through PENDING before it validates.
AssignableFrom(status) ==
    IF status = "ASSIGNED"
    THEN TaskCanTransition(status, "PENDING") /\ TaskCanTransition("PENDING", "ASSIGNED")
    ELSE TaskCanTransition(status, "ASSIGNED")

\* ... where a passed inspection sees to the room before the task
WithRowRoomFirst(r, row) ==
    [r EXCEPT !.pc = CASE r.op = "assign" -> "user" [] r.op = "pass" -> "room"
                       [] OTHER -> "write",
              !.room = row.room, !.seen = row.status, !.at = now]

\* What the handler knows once it has read the row: the row's room and notes, and
\* for the handlers that stamp one, the date.
WithRow(r, row) ==
    [r EXCEPT !.pc = IF r.op = "assign" THEN "user" ELSE "write",
              !.room = row.room,
              !.kept = IF r.op \in {"submit", "pass", "fail"} THEN row.notes ELSE @,
              !.seen = IF r.op = "assign" THEN row.status ELSE @,
              !.at = IF r.op \in {"start", "pass", "fail"} THEN now ELSE @]

\* ... without validateTransition
ProceedsOnAnyRow(r) == tasks[r.task] # Null

\* getTaskOrThrow, then validateTransition (assignTask validates after its next read)
Proceeds(r) ==
    /\ tasks[r.task] # Null
    /\ r.op # "assign" => TaskCanTransition(tasks[r.task].status, Target[r.op])

ReadTask(q) ==
    /\ req[q].op \in TaskOps /\ req[q].pc = "read"
    /\ \/ /\ Proceeds(req[q])
          /\ req' = [req EXCEPT ![q] = WithRow(@, tasks[@.task])]
       \/ ~Proceeds(req[q]) /\ Answer(q)
    /\ UNCHANGED <<tasks, rooms, audit, now>>

\* ... without the role check
AssignReadAnyUser(q) ==
    /\ AtCall(q, "assign", "user")
    /\ IF req[q].user \in Users /\ AssignableFrom(req[q].seen)
       THEN Await(q, "write") ELSE Answer(q)
    /\ UNCHANGED <<tasks, rooms, audit, now>>

AssignReadUser(q) ==
    /\ AtCall(q, "assign", "user")
    /\ IF req[q].user \in Housekeepers /\ AssignableFrom(req[q].seen)
       THEN Await(q, "write") ELSE Answer(q)
    /\ UNCHANGED <<tasks, rooms, audit, now>>

\* The row as each handler's update leaves it.

\* ... had the pivot of a reassignment been written
AssignedByPivot(row, r) ==
    [row EXCEPT !.status = IF @ = "ASSIGNED" THEN "PENDING" ELSE "ASSIGNED",
                !.assignedTo = r.user]

Assigned(row, r) == [row EXCEPT !.status = "ASSIGNED", !.assignedTo = r.user]

\* ... with startedAt forgotten
StartedUndated(row, r) == [row EXCEPT !.status = "IN_PROGRESS"]

Started(row, r) == [row EXCEPT !.status = "IN_PROGRESS", !.startedAt = r.at]

Submitted(row, r) ==
    [row EXCEPT !.status = "INSPECTION", !.notes = Coalesce(r.notes, r.kept)]

\* ... with completedAt set whatever the verdict, or by a second `new Date()`
InspectedAlwaysDated(row, r) ==
    [row EXCEPT !.status = Target[r.op], !.inspectedBy = r.user, !.inspectedAt = r.at,
                !.completedAt = r.at, !.notes = Coalesce(r.notes, r.kept)]
InspectedTwoDates(row, r) ==
    [row EXCEPT !.status = Target[r.op], !.inspectedBy = r.user, !.inspectedAt = r.at,
                !.completedAt = IF r.op = "pass" THEN now ELSE @, !.notes = Coalesce(r.notes, r.kept)]

Inspected(row, r) ==
    [row EXCEPT !.status = Target[r.op], !.inspectedBy = r.user, !.inspectedAt = r.at,
                !.completedAt = IF r.op = "pass" THEN r.at ELSE @, !.notes = Coalesce(r.notes, r.kept)]

\* ... with the assignee released
CancelledUnassigned(row) == [row EXCEPT !.status = "CANCELLED", !.assignedTo = Null]

Cancelled(row) == [row EXCEPT !.status = "CANCELLED"]

AssignWrite(q) ==
    /\ AtCall(q, "assign", "write")
    /\ UpdateTask(q, Assigned(tasks[req[q].task], req[q]))
    /\ Await(q, "audit")

StartWrite(q) ==
    /\ AtCall(q, "start", "write")
    /\ UpdateTask(q, Started(tasks[req[q].task], req[q]))
    /\ Await(q, "audit")

SubmitWrite(q) ==
    /\ AtCall(q, "submit", "write")
    /\ UpdateTask(q, Submitted(tasks[req[q].task], req[q]))
    /\ Await(q, "audit")

InspectWrite(q) ==
    /\ req[q].op \in {"pass", "fail"} /\ req[q].pc = "write"
    /\ UpdateTask(q, Inspected(tasks[req[q].task], req[q]))
    /\ Await(q, IF req[q].op = "pass" THEN "room" ELSE "audit")

CancelWrite(q) ==
    /\ AtCall(q, "cancel", "write")
    /\ UpdateTask(q, Cancelled(tasks[req[q].task]))
    /\ Await(q, "audit")

\* inspectTask, once the task is COMPLETED: promote the room, if it may be promoted

\* ... with canTransition not asked
PromoteUnasked(q) ==
    /\ AtCall(q, "pass", "room")
    /\ Await(q, "promote")
    /\ UNCHANGED <<tasks, rooms, audit, now>>

PromoteReadRoom(q) ==
    /\ AtCall(q, "pass", "room")
    /\ Await(q, IF RoomCanTransition(rooms[req[q].room], "VACANT_CLEAN")
                THEN "promote" ELSE "audit")
    /\ UNCHANGED <<tasks, rooms, audit, now>>

\* ... that says so and writes nothing
PromoteLogged(q) ==
    /\ AtCall(q, "pass", "promote")
    /\ Await(q, "audit")
    /\ UNCHANGED <<tasks, rooms, audit, now>>

PromoteWrite(q) ==
    /\ AtCall(q, "pass", "promote")
    /\ rooms' = [rooms EXCEPT ![req[q].room] = "VACANT_CLEAN"]
    /\ Await(q, "audit")
    /\ UNCHANGED <<tasks, audit, now>>

-----------------------------------------------------------------------------
(* updateRoomStatus *)

RoomStatusRead(q) ==
    /\ AtCall(q, "roomStatus", "read")
    /\ \/ /\ req[q].room \in Rooms
          /\ RoomCanTransition(rooms[req[q].room], req[q].target)
          /\ Await(q, "write")
       \/ /\ req[q].room \in Rooms => ~RoomCanTransition(rooms[req[q].room], req[q].target)
          /\ Answer(q)
    /\ UNCHANGED <<tasks, rooms, audit, now>>

RoomStatusWrite(q) ==
    /\ AtCall(q, "roomStatus", "write")
    /\ rooms' = [rooms EXCEPT ![req[q].room] = req[q].target]
    /\ Await(q, "audit")
    /\ UNCHANGED <<tasks, audit, now>>

-----------------------------------------------------------------------------
\* auditService.log, the last call of every handler that wrote
Subject(r) == IF r.op = "roomStatus" THEN r.room ELSE r.task

AppendAudit(q) ==
    /\ req[q].pc = "audit"
    /\ audit' = IF req[q].op \in Logged
                THEN audit \cup {<<req[q].op, Subject(req[q])>>} ELSE audit
    /\ Answer(q)
    /\ UNCHANGED <<tasks, rooms, now>>

\* The call a handler waits for rejects, its answer is lost, or the process dies:
\* the handler ends where it stands.  A crash is this step of every slot in turn.
Fail(q) ==
    /\ CanFail
    /\ req[q].pc \in PCs
    /\ Answer(q)
    /\ UNCHANGED <<tasks, rooms, audit, now>>

Tick ==
    /\ now < MaxTime
    /\ now' = now + 1
    /\ UNCHANGED <<tasks, rooms, req, audit>>

\* What a request in flight does by itself
Step(q) ==
    \/ CreateReadRoom(q) \/ CreateWrite(q)
    \/ ReadTask(q) \/ AssignReadUser(q)
    \/ AssignWrite(q) \/ StartWrite(q) \/ SubmitWrite(q) \/ InspectWrite(q) \/ CancelWrite(q)
    \/ PromoteReadRoom(q) \/ PromoteWrite(q)
    \/ RoomStatusRead(q) \/ RoomStatusWrite(q)
    \/ AppendAudit(q)

Next == Tick \/ \E q \in Slots : Receive(q) \/ Step(q) \/ Fail(q)

Spec == Init /\ [][Next]_vars

\* Every database call settles and Node resumes every settled promise, so a
\* request that is in flight goes on to its next call.  Nobody need send one.
FairSpec == Spec /\ \A q \in Slots : WF_vars(Step(q))

\* Behaviours in which handlers of one row keep out of each other's way: from its read
\* of a row to its write, a handler is the only one that has read the row in order to
\* write it.  The code does not see to that; it is what a lock on the row would give
\* and what clients give that do not ask two things of one row at a time.
ReliesOnTask(q, t) == req[q].task = t /\ req[q].op \in TaskOps /\ req[q].pc \in {"user", "write"}
ReliesOnRoom(q, r) ==
    req[q].room = r /\ (AtCall(q, "pass", "promote") \/ AtCall(q, "roomStatus", "write"))

Apart ==
    \A p, q \in Slots : p # q =>
       /\ \A t \in Tasks : ~(ReliesOnTask(p, t) /\ ReliesOnTask(q, t))
       /\ \A r \in Rooms : ~(ReliesOnRoom(p, r) /\ ReliesOnRoom(q, r))

ApartSpec == Init /\ [][Next /\ Apart']_vars

-----------------------------------------------------------------------------
(* Properties.  The first group holds however requests interleave and fail; *)
(* the second one, which is proved, needs handlers of one task to be Apart.  *)

Statuses(t) == IF tasks[t] = Null THEN {} ELSE {tasks[t].status}

\* The tables, the requests in flight and the log have the shape the schema and
\* the handlers give them (schema.prisma, housekeeping.service.ts).
TypeOK ==
    /\ tasks \in [Tasks -> OrNull(Row)]
    /\ rooms \in [Rooms -> RoomStatuses]
    /\ req \in [Slots -> RequestType]
    /\ audit \subseteq Ops \X (Tasks \cup Rooms)
    /\ now \in Time

\* A task that is on somebody's list, under way, inspected or completed has a
\* HOUSEKEEPING user as its assignee, whichever stale handler wrote it last
\* (assignTask is the only way out of PENDING, housekeeping.service.ts:103-151).
AssigneeKnown ==
    \A t \in Tasks : Statuses(t) \cap {"ASSIGNED", "IN_PROGRESS", "INSPECTION", "COMPLETED"} # {}
        => tasks[t].assignedTo \in Housekeepers

\* A PENDING row is as createTask left it: no handler's stale write puts a task
\* somebody worked on back into the backlog (housekeeping.service.ts:61-95).
PendingUntouched ==
    \A t \in Tasks : "PENDING" \in Statuses(t)
        => tasks[t] = NewTask(tasks[t].room, tasks[t].notes)

\* A COMPLETED task names its inspector and carries one date as both its
\* inspection and its completion, although several inspections of it may be in
\* flight (inspectTask, housekeeping.service.ts:233-298).
InspectionRecorded ==
    \A t \in Tasks : "COMPLETED" \in Statuses(t)
        => /\ tasks[t].inspectedBy \in Supervisors
           /\ tasks[t].completedAt \in Time
           /\ tasks[t].completedAt = tasks[t].inspectedAt

\* Housekeeping touches a room only for a task in that room whose inspection
\* was committed as passed, even if the task was changed or the handler was
\* overtaken in between (housekeeping.service.ts:268-284).
PromotionBacked ==
    \A q \in Slots : req[q].op = "pass" /\ req[q].pc \in {"room", "promote"}
        => LET row == tasks[req[q].task]
           IN  row # Null /\ row.room = req[q].room /\ row.completedAt # Null

\* What an audit entry of a task proves about its row, whatever came after it
Evidence(op, row) ==
    CASE op = "assign" -> row.assignedTo # Null
      [] op = "start"  -> row.startedAt # Null
      [] op = "pass"   -> row.completedAt # Null /\ row.inspectedBy # Null
      [] op = "fail"   -> row.inspectedAt # Null /\ row.inspectedBy # Null
      [] OTHER         -> TRUE

\* The audit log never reports what did not happen: the row still shows the mark
\* of every handler the log names, since auditService.log comes after the write
\* (every handler of housekeeping.service.ts; audit.service.ts:37-71).
AuditJustified ==
    \A op \in TaskOps \cup {"create"}, t \in Tasks : <<op, t>> \in audit
        => tasks[t] # Null /\ Evidence(op, tasks[t])

\* Work that was recorded stays recorded: no handler, however stale what it read,
\* clears the assignee, a date or the inspector of a row, moves a task to another
\* room or removes a row (the data of every update in housekeeping.service.ts).
KeepsRecord(old, new) ==
    /\ new # Null
    /\ new.room = old.room
    /\ \A c \in {"assignedTo", "startedAt", "completedAt", "inspectedAt", "inspectedBy"} :
          old[c] # Null => new[c] # Null
RecordsKept == [][\A t \in Tasks : tasks[t] # Null => KeepsRecord(tasks[t], tasks'[t])]_vars

-----------------------------------------------------------------------------
\* While handlers of one task keep Apart: a task has a completion date exactly while it is
\* COMPLETED, no earlier than its start, so that the turnaround getMetrics
\* computes is of completed tasks and never negative
\* (housekeeping.service.ts:362-427).
CompletionDated ==
    \A t \in Tasks : tasks[t] # Null =>
        /\ (tasks[t].completedAt # Null) = (tasks[t].status = "COMPLETED")
        /\ tasks[t].startedAt # Null /\ tasks[t].completedAt # Null
              => tasks[t].startedAt <= tasks[t].completedAt

\* While handlers of one task keep Apart: every change of a task's status is a transition of the
\* table (task-status.state-machine.ts:4-30).
TaskStepsLegal ==
    [][\A t \in Tasks : tasks[t] # Null /\ tasks'[t].status # tasks[t].status
          => TaskCanTransition(tasks[t].status, tasks'[t].status)]_vars

-----------------------------------------------------------------------------
(* What the repository says and the code does not do *)

\* "COMPLETED -> (terminal)" (task-status.state-machine.ts:20).
CompletedIsTerminal ==
    [][\A t \in Tasks : "COMPLETED" \in Statuses(t) => tasks'[t].status = "COMPLETED"]_vars

\* "Validate state transition through the deterministic state machine"
\* (properties.service.ts:350): a room changes along the table of room statuses.
RoomStepsLegal ==
    [][\A r \in Rooms : RoomCanTransition(rooms[r], rooms'[r])]_vars

\* "automatically promotes the associated room to VACANT_CLEAN"
\* (docs/api-documentation.md:574): once a task is COMPLETED its room becomes
\* clean, or is in a status that cannot become clean.
CompletedRoomPromoted ==
    \A t \in Tasks, r \in Rooms :
        ("COMPLETED" \in Statuses(t) /\ tasks[t].room = r)
            ~> (RoomCanTransition(rooms[r], "VACANT_CLEAN") => rooms[r] = "VACANT_CLEAN")

=============================================================================
