-------------------- MODULE HousekeepingRefinementProofs --------------------
(***************************************************************************)
(* Where handlers of one row keep apart, Housekeeping is RoomTurnover:     *)
(* whatever a handler does between two calls is one of its steps, or       *)
(* nothing at all.                                                         *)
(***************************************************************************)
EXTENDS HousekeepingOverlaps, HousekeepingProofs

USE NullAssumption, StatusAssumption, FailAssumption

\* The two modules have the same tables.
LEMMA SameTables ==
    /\ Turnover!TaskStatuses = TaskStatuses /\ Turnover!RoomStatuses = RoomStatuses
    /\ \A a, b : Turnover!TaskCanTransition(a, b) <=> TaskCanTransition(a, b)
    /\ \A a, b : Turnover!RoomCanTransition(a, b) <=> RoomCanTransition(a, b)
  BY DEF Turnover!TaskStatuses, TaskStatuses, Turnover!RoomStatuses, RoomStatuses,
     Turnover!TaskCanTransition, TaskCanTransition, Turnover!TaskTransitions, TaskTransitions,
     Turnover!RoomCanTransition, RoomCanTransition, Turnover!RoomTransitions, RoomTransitions

\* What a handler found out about the room before it writes to it is still so.
Allowed(r) ==
    /\ r.op = "pass" /\ r.pc = "promote" => RoomCanTransition(rooms[r.room], "VACANT_CLEAN")
    /\ r.op = "roomStatus" /\ r.pc = "write" => RoomCanTransition(rooms[r.room], r.target)

RoomInv == \A q \in Slots : Allowed(req[q])

\* A task is due while a handler is between the two writes of its pass.
Promoting(r) == r.op = "pass" /\ r.pc \in {"room", "promote"}
DueOf(r) == IF Promoting(r) THEN {r.task} ELSE {}

\* It is COMPLETED then, and one handler is at it.
DueInv ==
    /\ \A q \in Slots : Promoting(req[q]) => tasks[req[q].task].status = "COMPLETED"
    /\ \A p, q \in Slots : Promoting(req[p]) /\ Promoting(req[q]) /\ req[p].task = req[q].task
          => p = q

LEMMA DueIs == \A t : t \in DueTasks <=> \E p \in Slots : Promoting(req[p]) /\ req[p].task = t
  BY DEF DueTasks, Promoting

\* What a step of one slot does to the tasks that are due
LEMMA DueNext ==
    ASSUME TypeOK, DueInv, NEW q \in Slots, NEW r, req' = [req EXCEPT ![q] = r]
    PROVE  DueTasks' = (DueTasks \ DueOf(req[q])) \cup DueOf(r)
<1>1. req'[q] = r /\ \A p \in Slots : p # q => req'[p] = req[p]
  BY DEF TypeOK
<1>2. \A t : t \in DueTasks' <=> \E p \in Slots : Promoting(req'[p]) /\ req'[p].task = t
  BY DEF DueTasks, Promoting
<1>3. ASSUME NEW t
      PROVE  t \in DueTasks' <=> t \in (DueTasks \ DueOf(req[q])) \cup DueOf(r)
  <2>1. t \in DueOf(r) <=> Promoting(r) /\ r.task = t
    BY DEF DueOf
  <2>2. t \in DueOf(req[q]) <=> Promoting(req[q]) /\ req[q].task = t
    BY DEF DueOf
  <2>3. t \in DueTasks \ DueOf(req[q])
          <=> \E p \in Slots : p # q /\ Promoting(req[p]) /\ req[p].task = t
    BY <2>2, DueIs DEF DueInv
  <2>4. t \in DueTasks' <=> \/ Promoting(r) /\ r.task = t
                            \/ \E p \in Slots : p # q /\ Promoting(req[p]) /\ req[p].task = t
    BY <1>1, <1>2
  <2> QED BY <2>1, <2>3, <2>4
<1> QED BY <1>3

\* A step of a row that changes no more than its status, or adds the row
LEMMA RowNext ==
    ASSUME TypeOK, NEW t \in Tasks, NEW row \in Row, tasks' = [tasks EXCEPT ![t] = row]
    PROVE  /\ StatusOf' = [StatusOf EXCEPT ![t] = row.status]
           /\ RoomOf' = [RoomOf EXCEPT ![t] = row.room]
<1>1. \A u \in Tasks : tasks'[u] = IF u = t THEN row ELSE tasks[u]
  BY DEF TypeOK
<1>2. row # Null
  BY NullAssumption
<1>3. StatusOf' = [u \in Tasks |-> IF u = t THEN row.status ELSE StatusOf[u]]
  BY <1>1, <1>2 DEF StatusOf
<1>4. RoomOf' = [u \in Tasks |-> IF u = t THEN row.room ELSE RoomOf[u]]
  BY <1>1, <1>2 DEF RoomOf
<1>5. DOMAIN StatusOf = Tasks /\ DOMAIN RoomOf = Tasks
  BY DEF StatusOf, RoomOf
<1> QED BY <1>3, <1>4, <1>5

\* Moving to another status is a step of the task; staying is none.
LEMMA MoveIsAStep ==
    ASSUME TypeOK, NEW t \in Tasks, NEW row \in Row, tasks[t] \in Row,
           tasks' = [tasks EXCEPT ![t] = row], row.room = tasks[t].room, rooms' = rooms,
           row.status = tasks[t].status \/ TaskCanTransition(tasks[t].status, row.status),
           DueTasks' = IF row.status = "COMPLETED" THEN DueTasks \cup {t} ELSE DueTasks,
           row.status = tasks[t].status => DueTasks' = DueTasks
    PROVE  [Turnover!Next]_(Turnover!vars)
<1>1. StatusOf' = [StatusOf EXCEPT ![t] = row.status] /\ RoomOf' = [RoomOf EXCEPT ![t] = row.room]
  BY RowNext
<1>2. /\ StatusOf[t] = tasks[t].status /\ RoomOf[t] = tasks[t].room
      /\ tasks[t].status \in TaskStatuses /\ row.status \in TaskStatuses /\ StatusOf[t] # Null
  <2>1. tasks[t] # Null /\ tasks[t].status \in TaskStatuses /\ row.status \in TaskStatuses
    BY NullAssumption DEF Row
  <2>2. StatusOf[t] = tasks[t].status /\ RoomOf[t] = tasks[t].room
    BY <2>1 DEF StatusOf, RoomOf
  <2> QED BY <2>1, <2>2, NullAssumption
<1>3. RoomOf' = RoomOf
  BY <1>1, <1>2 DEF RoomOf
<1>4. CASE row.status = tasks[t].status
  <2>1. StatusOf' = StatusOf
    BY <1>1, <1>2, <1>4 DEF StatusOf
  <2> QED BY <1>3, <1>4, <2>1 DEF Turnover!vars
<1>5. CASE TaskCanTransition(tasks[t].status, row.status)
  <2>1. Turnover!Move(t, row.status)
    BY <1>1, <1>2, <1>3, <1>5, SameTables DEF Turnover!Move
  <2> QED BY <1>2, <2>1, SameTables DEF Turnover!Next
<1> QED BY <1>4, <1>5

\* An update of one task by the handler that read it
LEMMA UpdateIsAStep ==
    ASSUME TypeInv, CurrentInv, DueInv, NEW q \in Slots, req[q].op \in TaskOps, req[q].pc = "write",
           NEW row \in Row, UpdateTask(q, row), NEW pc, Await(q, pc),
           row.room = tasks[req[q].task].room,
           row.status = Target[req[q].op],
           pc = IF req[q].op = "pass" THEN "room" ELSE "audit"
    PROVE  [Turnover!Next]_(Turnover!vars)
<1>1. PICK r, t : r = req[q] /\ t = r.task
  OBVIOUS
<1>2. r \in RequestType /\ Asked(r) /\ Found(r) /\ TypeOK
  BY <1>1 DEF TypeInv, TypeOK
<1>3. t \in Tasks /\ tasks[t] \in Row
  BY <1>1, <1>2 DEF Asked, Found, TypeOK, OrNull
<1>4. tasks' = [tasks EXCEPT ![t] = row] /\ rooms' = rooms /\ row.room = tasks[t].room
  BY <1>1 DEF UpdateTask
<1>5. DueTasks' = IF r.op = "pass" THEN DueTasks \cup {t} ELSE DueTasks
  <2>1. PICK new : new = [r EXCEPT !.pc = pc]
    OBVIOUS
  <2>2. req' = [req EXCEPT ![q] = new] /\ new.op = r.op /\ new.task = t /\ new.pc = pc
    BY <1>1, <1>2, <2>1 DEF Await, RequestType
  <2>3. DueTasks' = (DueTasks \ DueOf(r)) \cup DueOf(new)
    BY <1>1, <1>2, <2>2, DueNext
  <2> QED BY <1>1, <2>2, <2>3 DEF DueOf, Promoting
<1>6. row.status = "COMPLETED" <=> r.op = "pass"
  BY <1>1 DEF Target, TaskOps
<1>7. row.status = tasks[t].status \/ TaskCanTransition(tasks[t].status, row.status)
  BY <1>1 DEF CurrentInv, Current, AssignableFrom, Target
<1>8. row.status = tasks[t].status => r.op = "assign"
  BY <1>1 DEF CurrentInv, Current, TaskCanTransition
<1> QED BY <1>2, <1>3, <1>4, <1>5, <1>6, <1>7, <1>8, MoveIsAStep

\* A step that leaves tables and due tasks alone is none.
LEMMA NothingIsAStep ==
    ASSUME tasks' = tasks, rooms' = rooms, DueTasks' = DueTasks
    PROVE  [Turnover!Next]_(Turnover!vars)
  BY DEF Turnover!vars, StatusOf, RoomOf

LEMMA StepImplements ==
    ASSUME TypeInv, FreshInv, CurrentInv, RoomInv, DueInv, NEW q \in Slots,
           Receive(q) \/ Step(q) \/ Fail(q)
    PROVE  [Turnover!Next]_(Turnover!vars)
<1> DEFINE old == req[q]
<1> USE DEF AtCall
<1>0. old \in RequestType /\ Asked(old) /\ Found(old) /\ TypeOK
  BY DEF TypeInv, TypeOK
<1>1. ASSUME NEW r, req' = [req EXCEPT ![q] = r], ~Promoting(r), ~Promoting(old),
             tasks' = tasks, rooms' = rooms
      PROVE  [Turnover!Next]_(Turnover!vars)
  <2>1. DueTasks' = DueTasks
    BY <1>0, <1>1, DueNext DEF DueOf
  <2> QED BY <1>1, <2>1, NothingIsAStep
<1>2. ASSUME Answer(q)
      PROVE  req' = [req EXCEPT ![q] = Idle] /\ ~Promoting(Idle) /\ DueTasks' = DueTasks \ DueOf(old)
  <2>1. req' = [req EXCEPT ![q] = Idle] /\ ~Promoting(Idle)
    BY <1>2 DEF Answer, Idle, Request, Promoting
  <2> QED BY <1>0, <2>1, DueNext DEF DueOf
<1>3. ASSUME NEW pc, Await(q, pc)
      PROVE  \E r : /\ req' = [req EXCEPT ![q] = r]
                    /\ DueTasks' = (DueTasks \ DueOf(old)) \cup DueOf(r)
                    /\ r.op = old.op /\ r.task = old.task /\ r.pc = pc
  <2>1. PICK r : r = [old EXCEPT !.pc = pc]
    OBVIOUS
  <2>2. req' = [req EXCEPT ![q] = r] /\ r.op = old.op /\ r.task = old.task /\ r.pc = pc
    BY <1>0, <1>3, <2>1 DEF Await, RequestType
  <2> QED BY <1>0, <2>2, DueNext
<1>4. CASE Receive(q)
  <2> DEFINE All == CreateRequests \cup AssignRequests \cup StartRequests \cup SubmitRequests
                    \cup InspectRequests \cup CancelRequests \cup RoomStatusRequests
  <2>1. PICK new \in All : req' = [req EXCEPT ![q] = new]
    BY <1>4 DEF Receive, Accept
  <2>2. new.pc = "read"
    BY <2>1 DEF CreateRequests, AssignRequests, StartRequests, SubmitRequests, InspectRequests,
       CancelRequests, RoomStatusRequests, Request
  <2>3. tasks' = tasks /\ rooms' = rooms /\ old = Idle
    BY <1>4 DEF Receive, Accept
  <2> HIDE DEF All
  <2>4. ~Promoting(new) /\ ~Promoting(old)
    BY <2>2, <2>3 DEF Promoting, Idle, Request
  <2> QED BY <1>1, <2>1, <2>3, <2>4
<1>5. CASE ReadTask(q)
  <2>1. tasks' = tasks /\ rooms' = rooms /\ ~Promoting(old)
    BY <1>5 DEF ReadTask, Promoting
  <2>2. CASE Proceeds(old) /\ req' = [req EXCEPT ![q] = WithRow(old, tasks[old.task])]
    <3>1. PICK r : r = WithRow(old, tasks[old.task])
      OBVIOUS
    <3>2. r.pc \in {"user", "write"}
      BY <1>0, <3>1 DEF WithRow, RequestType
    <3> QED BY <1>1, <2>1, <2>2, <3>1, <3>2 DEF Promoting
  <2> QED BY <1>1, <1>2, <1>5, <2>1, <2>2 DEF ReadTask
<1>6. CASE CreateReadRoom(q) \/ AssignReadUser(q) \/ RoomStatusRead(q)
  <2>1. tasks' = tasks /\ rooms' = rooms /\ ~Promoting(old)
    BY <1>6 DEF CreateReadRoom, AssignReadUser, RoomStatusRead, Promoting
  <2>2. Answer(q) \/ Await(q, "write")
    BY <1>6 DEF CreateReadRoom, AssignReadUser, RoomStatusRead
  <2>3. CASE Await(q, "write")
    <3>1. PICK r : req' = [req EXCEPT ![q] = r] /\ r.pc = "write"
      BY <1>3, <2>3
    <3> QED BY <1>1, <2>1, <3>1 DEF Promoting
  <2> QED BY <1>1, <1>2, <2>1, <2>2, <2>3
<1>7. CASE CreateWrite(q)
  <2>1. PICK t, r, row : t = old.task /\ r = old.room /\ row = NewTask(old.room, old.notes)
    OBVIOUS
  <2>2. t \in Tasks /\ r \in Rooms /\ row \in Row /\ tasks[t] = Null
    <3>1. tasks[t] = Null /\ t \in Tasks /\ r \in Rooms /\ old.notes \in OrNull(Notes)
      BY <1>0, <1>7, <2>1 DEF CreateWrite, Asked, FreshInv, RequestType
    <3> QED BY <2>1, <3>1 DEF NewTask, Row, OrNull, TaskStatuses
  <2>3. row.status = "PENDING" /\ row.room = r
    BY <2>1 DEF NewTask
  <2>4. tasks' = [tasks EXCEPT ![t] = row] /\ rooms' = rooms
    BY <1>7, <2>1 DEF CreateWrite, UpdateTask
  <2>5. StatusOf' = [StatusOf EXCEPT ![t] = "PENDING"] /\ RoomOf' = [RoomOf EXCEPT ![t] = r]
    BY <1>0, <2>2, <2>3, <2>4, RowNext
  <2>6. DueTasks' = DueTasks
    <3>1. PICK new : DueTasks' = (DueTasks \ DueOf(old)) \cup DueOf(new) /\ new.op = old.op
      BY <1>3, <1>7 DEF CreateWrite
    <3> QED BY <1>0, <1>7, <3>1 DEF CreateWrite, DueOf, Promoting
  <2>7. Turnover!New(t, r)
    BY <2>2, <2>4, <2>5, <2>6 DEF Turnover!New, StatusOf
  <2> QED BY <2>2, <2>7 DEF Turnover!Next
<1>8. CASE AssignWrite(q) \/ StartWrite(q) \/ SubmitWrite(q) \/ InspectWrite(q) \/ CancelWrite(q)
  <2>1. PICK row : row = tasks[old.task]
    OBVIOUS
  <2>2. old.op \in TaskOps /\ old.pc = "write"
    BY <1>8 DEF AssignWrite, StartWrite, SubmitWrite, InspectWrite, CancelWrite, TaskOps, Target
  <2>3. row \in Row
    BY <1>0, <2>1, <2>2 DEF Asked, Found, TypeOK, OrNull
  <2>4. PICK new : /\ UpdateTask(q, new)
                   /\ \/ new = Assigned(row, old) /\ old.op = "assign"
                      \/ new = Started(row, old) /\ old.op = "start"
                      \/ new = Submitted(row, old) /\ old.op = "submit"
                      \/ new = Inspected(row, old) /\ old.op \in {"pass", "fail"}
                      \/ new = Cancelled(row) /\ old.op = "cancel"
    BY <1>8, <2>1 DEF AssignWrite, StartWrite, SubmitWrite, InspectWrite, CancelWrite
  <2>5. new \in Row /\ new.room = row.room
    BY <1>0, <2>2, <2>3, <2>4, UpdatedRows
  <2>6. new.status = Target[old.op]
    <3>1. Assigned(row, old).status = "ASSIGNED" /\ Started(row, old).status = "IN_PROGRESS"
          /\ Submitted(row, old).status = "INSPECTION" /\ Cancelled(row).status = "CANCELLED"
      BY <2>3 DEF Row, Assigned, Started, Submitted, Cancelled
    <3>2. Inspected(row, old).status = Target[old.op]
      BY <2>3 DEF Row, Inspected
    <3> QED BY <2>4, <3>1, <3>2 DEF Target
  <2>7. PICK pc : Await(q, pc) /\ pc = IF old.op = "pass" THEN "room" ELSE "audit"
    BY <1>8 DEF AssignWrite, StartWrite, SubmitWrite, InspectWrite, CancelWrite
  <2> QED BY <2>1, <2>2, <2>4, <2>5, <2>6, <2>7, UpdateIsAStep
<1>9. CASE PromoteReadRoom(q) \/ PromoteWrite(q) \/ (Fail(q) /\ Promoting(old))
  <2>1. PICK t, r : t = old.task /\ r = old.room
    OBVIOUS
  <2>2. old.op = "pass" /\ old.pc \in {"room", "promote"} /\ DueOf(old) = {t} /\ t \in DueTasks
    BY <1>0, <1>9, <2>1, DueIs DEF PromoteReadRoom, PromoteWrite, DueOf, Promoting
  <2>3. t \in Tasks /\ r \in Rooms /\ tasks[t] # Null /\ tasks[t].room = r
    BY <1>0, <2>1, <2>2 DEF Asked, Found, TaskOps, Target
  <2>4. RoomOf[t] = r /\ tasks' = tasks /\ StatusOf' = StatusOf /\ RoomOf' = RoomOf
    BY <1>9, <2>3 DEF RoomOf, StatusOf, PromoteReadRoom, PromoteWrite, Fail
  <2>5. CASE PromoteReadRoom(q) /\ RoomCanTransition(rooms[r], "VACANT_CLEAN")
    <3>1. PICK new : DueTasks' = (DueTasks \ DueOf(old)) \cup DueOf(new) /\ new.op = "pass" /\ new.task = t /\ new.pc = "promote"
      BY <1>3, <2>1, <2>2, <2>5 DEF PromoteReadRoom
    <3>2. DueTasks' = DueTasks /\ rooms' = rooms
      BY <2>2, <2>5, <3>1 DEF DueOf, Promoting, PromoteReadRoom
    <3> QED BY <2>4, <3>2, NothingIsAStep
  <2>6. CASE PromoteReadRoom(q) /\ ~RoomCanTransition(rooms[r], "VACANT_CLEAN")
    <3>1. PICK new : DueTasks' = (DueTasks \ DueOf(old)) \cup DueOf(new) /\ new.pc = "audit"
      BY <1>3, <2>1, <2>6 DEF PromoteReadRoom
    <3>2. DueTasks' = DueTasks \ {t} /\ rooms' = rooms
      BY <2>2, <2>6, <3>1 DEF DueOf, Promoting, PromoteReadRoom
    <3>3. Turnover!Promote(t)
      BY <2>2, <2>4, <2>6, <3>2, SameTables DEF Turnover!Promote
    <3> QED BY <2>3, <3>3 DEF Turnover!Next
  <2>7. CASE PromoteWrite(q)
    <3>1. PICK new : DueTasks' = (DueTasks \ DueOf(old)) \cup DueOf(new) /\ new.pc = "audit"
      BY <1>3, <2>7 DEF PromoteWrite
    <3>2. /\ DueTasks' = DueTasks \ {t} /\ rooms' = [rooms EXCEPT ![r] = "VACANT_CLEAN"]
          /\ RoomCanTransition(rooms[r], "VACANT_CLEAN")
      BY <2>1, <2>2, <2>7, <3>1 DEF DueOf, Promoting, PromoteWrite, RoomInv, Allowed
    <3>3. Turnover!Promote(t)
      BY <2>2, <2>4, <3>2, SameTables DEF Turnover!Promote
    <3> QED BY <2>3, <3>3 DEF Turnover!Next
  <2>8. CASE Fail(q)
    <3>1. DueTasks' = DueTasks \ {t} /\ rooms' = rooms /\ CanFail
      BY <1>2, <2>2, <2>8 DEF Fail
    <3>2. Turnover!Abandon(t)
      BY <2>2, <2>4, <3>1 DEF Turnover!Abandon
    <3> QED BY <2>3, <3>2 DEF Turnover!Next
  <2> QED BY <1>9, <2>5, <2>6, <2>7, <2>8
<1>10. CASE RoomStatusWrite(q)
  <2>1. PICK r, s : r = old.room /\ s = old.target
    OBVIOUS
  <2>2. r \in Rooms /\ s \in RoomStatuses /\ RoomCanTransition(rooms[r], s)
    BY <1>0, <1>10, <2>1 DEF RoomStatusWrite, Asked, RoomInv, Allowed
  <2>3. rooms' = [rooms EXCEPT ![r] = s] /\ tasks' = tasks
    BY <1>10, <2>1 DEF RoomStatusWrite
  <2>4. StatusOf' = StatusOf /\ RoomOf' = RoomOf
    BY <2>3 DEF StatusOf, RoomOf
  <2>5. DueTasks' = DueTasks
    <3>1. PICK new : DueTasks' = (DueTasks \ DueOf(old)) \cup DueOf(new) /\ new.op = old.op
      BY <1>3, <1>10 DEF RoomStatusWrite
    <3> QED BY <1>0, <1>10, <3>1 DEF RoomStatusWrite, DueOf, Promoting
  <2>6. Turnover!SetRoom(r, s)
    BY <2>2, <2>3, <2>4, <2>5, SameTables DEF Turnover!SetRoom
  <2> QED BY <2>2, <2>6, SameTables DEF Turnover!Next
<1>11. CASE AppendAudit(q)
  BY <1>1, <1>2, <1>11 DEF AppendAudit, Promoting
<1>12. CASE Fail(q) /\ ~Promoting(old)
  BY <1>1, <1>2, <1>12 DEF Fail
<1> QED BY <1>4, <1>5, <1>6, <1>7, <1>8, <1>9, <1>10, <1>11, <1>12 DEF Step

\* While a handler relies on a room, no other handler writes it.
LEMMA OthersKeepOffRooms ==
    ASSUME TypeInv, Apart, NEW q \in Slots, Receive(q) \/ Step(q) \/ Fail(q),
           NEW p \in Slots, p # q, NEW r \in Rooms, ReliesOnRoom(p, r)
    PROVE  rooms'[r] = rooms[r]
<1> SUFFICES ASSUME rooms' # rooms PROVE rooms'[r] = rooms[r]
  OBVIOUS
<1>1. rooms \in [Rooms -> RoomStatuses]
  BY DEF TypeInv, TypeOK
<1>2. CASE PromoteWrite(q) \/ RoomStatusWrite(q)
  <2>1. req[q].room # r
    BY <1>2 DEF PromoteWrite, RoomStatusWrite, Apart, ReliesOnRoom
  <2> QED BY <1>1, <1>2, <2>1 DEF PromoteWrite, RoomStatusWrite
<1> QED
  BY <1>2 DEF Step, Receive, Accept, Fail, CreateReadRoom, CreateWrite, ReadTask, AssignReadUser,
     AssignWrite, StartWrite, SubmitWrite, InspectWrite, CancelWrite, UpdateTask, PromoteReadRoom,
     RoomStatusRead, AppendAudit

LEMMA RoomStep ==
    ASSUME TypeInv, Apart, RoomInv, NEW q \in Slots, Receive(q) \/ Step(q) \/ Fail(q)
    PROVE  RoomInv'
<1> DEFINE old == req[q]
<1> USE DEF AtCall
<1>0. old \in RequestType /\ TypeOK
  BY DEF TypeInv, TypeOK
<1>a. ASSUME NEW p \in Slots, p # q, req'[p] = req[p] PROVE Allowed(req[p])'
  <2>1. Allowed(req[p]) /\ Asked(req[p]) /\ Found(req[p])
    BY DEF RoomInv, TypeInv
  <2>2. CASE AtCall(p, "pass", "promote") \/ AtCall(p, "roomStatus", "write")
    <3>1. PICK r \in Rooms : r = req[p].room
      BY <2>1, <2>2 DEF Asked, Found, TaskOps, Target
    <3>2. rooms'[r] = rooms[r]
      BY <1>a, <2>2, <3>1, OthersKeepOffRooms DEF ReliesOnRoom
    <3> QED BY <1>a, <2>1, <3>1, <3>2 DEF Allowed
  <2> QED BY <1>a, <2>2 DEF Allowed
<1>b. ASSUME NEW r, req' = [req EXCEPT ![q] = r], Allowed(r)'
      PROVE  RoomInv'
  <2>1. req'[q] = r /\ \A p \in Slots : p # q => req'[p] = req[p]
    BY <1>0, <1>b DEF TypeOK
  <2>2. Allowed(req[q])'
    BY <1>b, <2>1 DEF Allowed
  <2> QED BY <1>a, <2>1, <2>2 DEF RoomInv
<1>1. ASSUME NEW r, req' = [req EXCEPT ![q] = r],
             r.op = "pass" => r.pc # "promote", r.op = "roomStatus" => r.pc # "write"
      PROVE  RoomInv'
  BY <1>1, <1>b DEF Allowed
<1>2. ASSUME Answer(q) PROVE RoomInv'
  <2>1. Idle.op = "none"
    BY DEF Idle, Request
  <2> QED BY <1>1, <1>2, <2>1 DEF Answer
<1>3. ASSUME NEW pc, Await(q, pc)
      PROVE  \E r : /\ req' = [req EXCEPT ![q] = r] /\ r.op = old.op /\ r.pc = pc
                    /\ r.room = old.room /\ r.target = old.target
  <2>1. PICK r : r = [old EXCEPT !.pc = pc]
    OBVIOUS
  <2>2. /\ req' = [req EXCEPT ![q] = r] /\ r.op = old.op /\ r.pc = pc
        /\ r.room = old.room /\ r.target = old.target
    BY <1>0, <1>3, <2>1 DEF Await, RequestType
  <2> QED BY <2>2
<1>4. ASSUME NEW pc, Await(q, pc), old.op # "pass" \/ pc # "promote", old.op # "roomStatus" \/ pc # "write"
      PROVE  RoomInv'
  <2>1. PICK r : req' = [req EXCEPT ![q] = r] /\ r.op = old.op /\ r.pc = pc
    BY <1>3, <1>4
  <2> QED BY <1>1, <1>4, <2>1
<1>5. CASE Receive(q)
  <2> DEFINE All == CreateRequests \cup AssignRequests \cup StartRequests \cup SubmitRequests
                    \cup InspectRequests \cup CancelRequests \cup RoomStatusRequests
  <2>1. PICK new \in All : req' = [req EXCEPT ![q] = new]
    BY <1>5 DEF Receive, Accept
  <2>2. new.pc = "read"
    BY <2>1 DEF CreateRequests, AssignRequests, StartRequests, SubmitRequests, InspectRequests,
       CancelRequests, RoomStatusRequests, Request
  <2> HIDE DEF All
  <2> QED BY <1>1, <2>1, <2>2
<1>6. CASE ReadTask(q)
  <2>1. CASE Proceeds(old) /\ req' = [req EXCEPT ![q] = WithRow(old, tasks[old.task])]
    <3>1. PICK r : r = WithRow(old, tasks[old.task])
      OBVIOUS
    <3>2. r.pc \in {"user", "write"} /\ r.op \in TaskOps
      BY <1>0, <1>6, <3>1 DEF ReadTask, WithRow, RequestType
    <3> QED BY <1>1, <2>1, <3>1, <3>2 DEF TaskOps, Target
  <2> QED BY <1>2, <1>6, <2>1 DEF ReadTask
<1>7. CASE AssignWrite(q) \/ StartWrite(q) \/ SubmitWrite(q) \/ InspectWrite(q) \/ CancelWrite(q)
           \/ CreateWrite(q)
  BY <1>4, <1>7 DEF AssignWrite, StartWrite, SubmitWrite, InspectWrite, CancelWrite, CreateWrite
<1>8. CASE CreateReadRoom(q) \/ AssignReadUser(q)
  BY <1>2, <1>4, <1>8 DEF CreateReadRoom, AssignReadUser
<1>9. CASE PromoteReadRoom(q)
  <2>1. CASE RoomCanTransition(rooms[old.room], "VACANT_CLEAN")
    <3>1. PICK r : req' = [req EXCEPT ![q] = r] /\ r.op = "pass" /\ r.room = old.room
      BY <1>3, <1>9, <2>1 DEF PromoteReadRoom
    <3>2. rooms' = rooms
      BY <1>9 DEF PromoteReadRoom
    <3>3. Allowed(r)'
      BY <2>1, <3>1, <3>2 DEF Allowed
    <3> QED BY <1>b, <3>1, <3>3
  <2> QED BY <1>4, <1>9, <2>1 DEF PromoteReadRoom
<1>10. CASE RoomStatusRead(q)
  <2>1. CASE RoomCanTransition(rooms[old.room], old.target) /\ Await(q, "write")
    <3>1. PICK r : /\ req' = [req EXCEPT ![q] = r] /\ r.op = "roomStatus" /\ r.room = old.room
                   /\ r.target = old.target
      BY <1>3, <1>10, <2>1 DEF RoomStatusRead
    <3>2. rooms' = rooms
      BY <1>10 DEF RoomStatusRead
    <3>3. Allowed(r)'
      BY <2>1, <3>1, <3>2 DEF Allowed
    <3> QED BY <1>b, <3>1, <3>3
  <2> QED BY <1>2, <1>10, <2>1 DEF RoomStatusRead
<1>11. CASE PromoteWrite(q) \/ RoomStatusWrite(q)
  BY <1>4, <1>11 DEF PromoteWrite, RoomStatusWrite
<1>12. CASE AppendAudit(q) \/ Fail(q)
  BY <1>2, <1>12 DEF AppendAudit, Fail
<1> QED BY <1>5, <1>6, <1>7, <1>8, <1>9, <1>10, <1>11, <1>12 DEF Step

\* A task stays COMPLETED while it is due: who could write it has read it earlier, and
\* would know that it was not.
LEMMA DueStep ==
    ASSUME TypeInv, FreshInv, CurrentInv, DueInv, NEW q \in Slots,
           Receive(q) \/ Step(q) \/ Fail(q)
    PROVE  DueInv'
<1> DEFINE old == req[q]
<1> USE DEF AtCall
<1>0. /\ old \in RequestType /\ Asked(old) /\ Found(old) /\ TypeOK
      /\ tasks \in [Tasks -> OrNull(Row)]
  BY DEF TypeInv, TypeOK
<1>1. ASSUME NEW r, req' = [req EXCEPT ![q] = r], tasks' = tasks,
             Promoting(r) => Promoting(old) /\ r.task = old.task
      PROVE  DueInv'
  <2>1. req'[q] = r /\ \A p \in Slots : p # q => req'[p] = req[p]
    BY <1>0, <1>1 DEF TypeOK
  <2>2. \A p \in Slots : Promoting(req'[p]) => Promoting(req[p]) /\ req'[p].task = req[p].task
    BY <1>1, <2>1
  <2> QED BY <1>1, <2>2 DEF DueInv, Promoting
<1>2. ASSUME Answer(q), tasks' = tasks PROVE DueInv'
  <2>1. ~Promoting(Idle)
    BY DEF Promoting, Idle, Request
  <2> QED BY <1>1, <1>2, <2>1 DEF Answer
<1>3. ASSUME NEW pc, Await(q, pc), tasks' = tasks, pc \in {"room", "promote"} => Promoting(old)
      PROVE  DueInv'
  <2>1. PICK r : r = [old EXCEPT !.pc = pc]
    OBVIOUS
  <2>2. req' = [req EXCEPT ![q] = r] /\ r.op = old.op /\ r.task = old.task /\ r.pc = pc
    BY <1>0, <1>3, <2>1 DEF Await, RequestType
  <2> QED BY <1>1, <1>3, <2>2 DEF Promoting
\* A write of a row that nobody is promoting the room of
<1>4. ASSUME NEW row, UpdateTask(q, row), NEW pc, Await(q, pc), old.task \in Tasks, ~Promoting(old),
             \A p \in Slots : Promoting(req[p]) => req[p].task # old.task,
             old.op = "pass" /\ pc \in {"room", "promote"} => row.status = "COMPLETED"
      PROVE  DueInv'
  <2>1. PICK r : r = [old EXCEPT !.pc = pc]
    OBVIOUS
  <2>2. /\ req'[q] = r /\ r.op = old.op /\ r.task = old.task /\ r.pc = pc
        /\ \A p \in Slots : p # q => req'[p] = req[p]
    BY <1>0, <1>4, <2>1 DEF Await, RequestType, TypeOK
  <2>3. \A t \in Tasks : tasks'[t] = IF t = old.task THEN row ELSE tasks[t]
    BY <1>0, <1>4 DEF UpdateTask
  <2>4. ASSUME NEW p \in Slots, Promoting(req'[p]) PROVE tasks'[req'[p].task].status = "COMPLETED"
    <3>1. CASE p = q
      BY <1>4, <2>2, <2>3, <2>4, <3>1 DEF Promoting
    <3>2. CASE p # q
      <4>1. req'[p] = req[p] /\ Promoting(req[p]) /\ req[p].task \in Tasks /\ req[p].task # old.task
        BY <1>4, <2>2, <2>4, <3>2 DEF Promoting, TypeInv, Asked, TaskOps, Target
      <4> QED BY <2>3, <4>1 DEF DueInv
    <3> QED BY <3>1, <3>2
  <2>5. ASSUME NEW p \in Slots, NEW o \in Slots, Promoting(req'[p]), Promoting(req'[o]),
               req'[p].task = req'[o].task
        PROVE  p = o
    BY <1>4, <2>2, <2>5 DEF DueInv
  <2> QED BY <2>4, <2>5 DEF DueInv, Promoting
<1>5. CASE Receive(q)
  <2> DEFINE All == CreateRequests \cup AssignRequests \cup StartRequests \cup SubmitRequests
                    \cup InspectRequests \cup CancelRequests \cup RoomStatusRequests
  <2>1. PICK new \in All : req' = [req EXCEPT ![q] = new]
    BY <1>5 DEF Receive, Accept
  <2>2. new.pc = "read"
    BY <2>1 DEF CreateRequests, AssignRequests, StartRequests, SubmitRequests, InspectRequests,
       CancelRequests, RoomStatusRequests, Request
  <2>3. tasks' = tasks
    BY <1>5 DEF Receive, Accept
  <2> HIDE DEF All
  <2> QED BY <1>1, <2>1, <2>2, <2>3 DEF Promoting
<1>6. CASE ReadTask(q)
  <2>0. tasks' = tasks
    BY <1>6 DEF ReadTask
  <2>1. CASE req' = [req EXCEPT ![q] = WithRow(old, tasks[old.task])]
    <3>1. PICK r : r = WithRow(old, tasks[old.task])
      OBVIOUS
    <3>2. r.pc \in {"user", "write"}
      BY <1>0, <3>1 DEF WithRow, RequestType
    <3> QED BY <1>1, <2>0, <2>1, <3>1, <3>2 DEF Promoting
  <2> QED BY <1>2, <1>6, <2>0, <2>1 DEF ReadTask
<1>7. CASE CreateWrite(q)
  <2>1. old.task \in Tasks /\ tasks[old.task] = Null /\ old.op = "create"
    BY <1>0, <1>7 DEF CreateWrite, Asked, FreshInv
  <2>2. \A p \in Slots : Promoting(req[p]) => req[p].task # old.task
    BY <2>1 DEF TypeInv, Found, Promoting, TaskOps, Target
  <2> QED BY <1>4, <1>7, <2>1, <2>2 DEF CreateWrite, Promoting
<1>8. CASE AssignWrite(q) \/ StartWrite(q) \/ SubmitWrite(q) \/ InspectWrite(q) \/ CancelWrite(q)
  <2>1. old.op \in TaskOps /\ old.pc = "write"
    BY <1>8 DEF AssignWrite, StartWrite, SubmitWrite, InspectWrite, CancelWrite, TaskOps, Target
  <2>2. old.task \in Tasks /\ tasks[old.task] \in Row
    BY <1>0, <2>1 DEF Asked, Found, OrNull
  <2>3. tasks[old.task].status # "COMPLETED"
    <3>1. tasks[old.task].status \in TaskStatuses /\ Target[old.op] \in TaskStatuses
      BY <2>1, <2>2 DEF Row, TaskOps, Target, TaskStatuses
    <3> QED BY <2>1, <3>1, CompletedIsLast DEF CurrentInv, Current
  <2>4. \A p \in Slots : Promoting(req[p]) => req[p].task # old.task
    BY <2>3 DEF DueInv
  <2>5. ~Promoting(old)
    BY <2>1 DEF Promoting
  <2>6. CASE InspectWrite(q)
    <3>1. PICK row : row = Inspected(tasks[old.task], old)
      OBVIOUS
    <3>2. old.op = "pass" => row.status = "COMPLETED"
      BY <2>2, <3>1 DEF Inspected, Row, Target
    <3> QED BY <1>4, <2>2, <2>4, <2>5, <2>6, <3>1, <3>2 DEF InspectWrite
  <2> QED
    BY <1>4, <1>8, <2>2, <2>4, <2>5, <2>6 DEF AssignWrite, StartWrite, SubmitWrite, CancelWrite
<1>9. CASE PromoteReadRoom(q) \/ PromoteWrite(q)
  BY <1>3, <1>9 DEF PromoteReadRoom, PromoteWrite, Promoting
<1>10. CASE CreateReadRoom(q) \/ AssignReadUser(q) \/ RoomStatusRead(q) \/ RoomStatusWrite(q)
  BY <1>2, <1>3, <1>10 DEF CreateReadRoom, AssignReadUser, RoomStatusRead, RoomStatusWrite
<1>11. CASE AppendAudit(q) \/ Fail(q)
  BY <1>2, <1>11 DEF AppendAudit, Fail
<1> QED BY <1>5, <1>6, <1>7, <1>8, <1>9, <1>10, <1>11 DEF Step

LEMMA TurnoverInit == Init => RoomInv /\ DueInv /\ Turnover!Init
<1>1. Init => RoomInv /\ DueInv
  BY DEF Init, RoomInv, Allowed, DueInv, Promoting, Idle, Request
<1>2. Init => Turnover!Init
  BY SameTables DEF Init, Turnover!Init, StatusOf, RoomOf, DueTasks, Idle, Request
<1> QED BY <1>1, <1>2

LEMMA TurnoverNext ==
    ASSUME TypeInv, FreshInv, Apart, CurrentInv, RoomInv, DueInv, [Next]_vars
    PROVE  RoomInv' /\ DueInv' /\ [Turnover!Next]_(Turnover!vars)
<1>1. CASE Tick \/ UNCHANGED vars
  <2>1. tasks' = tasks /\ rooms' = rooms /\ req' = req
    BY <1>1 DEF Tick, vars
  <2>2. DueTasks' = DueTasks
    BY <2>1 DEF DueTasks
  <2>3. RoomInv' /\ DueInv'
    BY <2>1 DEF RoomInv, Allowed, DueInv, Promoting
  <2> QED BY <2>1, <2>2, <2>3, NothingIsAStep
<1>2. CASE \E q \in Slots : Receive(q) \/ Step(q) \/ Fail(q)
  BY <1>2, RoomStep, DueStep, StepImplements
<1> QED BY <1>1, <1>2 DEF Next

LEMMA RoomsNext ==
    ASSUME TypeInv, Apart, RoomInv, [Next]_vars
    PROVE  RoomInv' /\ \A r \in Rooms : RoomCanTransition(rooms[r], rooms'[r])
<1>1. CASE Tick \/ UNCHANGED vars
  BY <1>1 DEF Tick, vars, RoomInv, Allowed, RoomCanTransition
<1>2. CASE \E q \in Slots : Receive(q) \/ Step(q) \/ Fail(q)
  <2>1. PICK q \in Slots : Receive(q) \/ Step(q) \/ Fail(q)
    BY <1>2
  <2>2. RoomInv' /\ Allowed(req[q]) /\ rooms \in [Rooms -> RoomStatuses]
    BY <2>1, RoomStep DEF RoomInv, TypeInv, TypeOK
  <2>3. CASE PromoteWrite(q) \/ RoomStatusWrite(q)
    BY <2>2, <2>3 DEF PromoteWrite, RoomStatusWrite, AtCall, Allowed, RoomCanTransition
  <2>4. CASE rooms' = rooms
    BY <2>2, <2>4 DEF RoomCanTransition
  <2> QED
    BY <2>1, <2>2, <2>3, <2>4
    DEF Step, Receive, Accept, Fail, CreateReadRoom, CreateWrite, ReadTask, AssignReadUser,
        AssignWrite, StartWrite, SubmitWrite, InspectWrite, CancelWrite, UpdateTask, PromoteReadRoom,
        RoomStatusRead, AppendAudit
<1> QED BY <1>1, <1>2 DEF Next

\* Where handlers of one row keep apart, tasks and rooms walk their tables, and a room is
\* promoted for a task that passed, or given up on only by a failure: the handlers of
\* housekeeping.service.ts and updateRoomStatus implement RoomTurnover.
THEOREM ApartIsTurnover == ApartSpec => WalksTurnover
<1>1. TypeInv /\ FreshInv /\ Apart /\ CurrentInv /\ RoomInv /\ DueInv /\ [Next]_vars
        => RoomInv' /\ DueInv' /\ [Turnover!Next]_(Turnover!vars)
  BY TurnoverNext
<1> QED
  BY <1>1, TurnoverInit, CurrentInvariant, ApartAlways, ApartIsSpec, PTL
  DEF Spec, WalksTurnover, Turnover!Spec

\* Served one request at a time, the handlers implement RoomTurnover.
THEOREM SerialIsTurnover ==
    ASSUME Serial
    PROVE  Spec => Turnover!Spec
  BY SerialIsApart, ApartIsTurnover, PTL DEF WalksTurnover

\* Where handlers of one room keep apart, every change of a room's status is a transition
\* of room-status.state-machine.ts, inspectTask's among them: a lock on the row is all
\* that properties.service.ts:350 lacks.
THEOREM ApartRoomsLegal == ApartSpec => RoomStepsLegal
<1>1. TypeInv /\ Apart /\ RoomInv /\ [Next]_vars
        => RoomInv' /\ [\A r \in Rooms : RoomCanTransition(rooms[r], rooms'[r])]_vars
  BY RoomsNext
<1> QED
  BY <1>1, TurnoverInit, CurrentInvariant, ApartAlways, ApartIsSpec, PTL DEF Spec, RoomStepsLegal

-----------------------------------------------------------------------------
(* Handlers that may overlap: all of this holds until they first do. *)

\* What holds as long as no two handlers have overlapped
ApartInv == Apart /\ CurrentInv /\ RoomInv /\ DueInv /\ DatedInv

HistoryInv == overlapped \in BOOLEAN /\ (overlapped \/ ApartInv)

LEMMA HistoryIsSpec == HistorySpec => Spec
<1>1. [HistoryNext]_historyVars => [Next]_vars
  BY DEF HistoryNext, historyVars, vars
<1> QED BY <1>1, PTL DEF HistorySpec, HistoryInit, Spec

LEMMA ApartInit == Init => Apart
  BY DEF Init, Apart, ReliesOnTask, ReliesOnRoom, AtCall, Idle, Request, TaskOps, Target

LEMMA HistoryStep ==
    ASSUME TypeInv, FreshInv, HistoryInv, [HistoryNext]_historyVars
    PROVE  HistoryInv'
<1>1. overlapped' \in BOOLEAN /\ [Next]_vars
  BY DEF HistoryInv, HistoryNext, historyVars, vars
<1>2. ASSUME ~overlapped' PROVE ApartInv'
  <2>1. ~overlapped
    BY <1>2 DEF HistoryNext, historyVars
  <2>2. ApartInv
    BY <2>1 DEF HistoryInv
  <2>3. CurrentInv' /\ RoomInv' /\ DueInv' /\ DatedInv'
    BY <1>1, <2>2, CurrentNext, TurnoverNext, DatedNext DEF ApartInv
  <2>4. Apart'
    <3>1. CASE HistoryNext
      BY <1>2, <3>1 DEF HistoryNext
    <3>2. CASE UNCHANGED historyVars
      BY <2>2, <3>2 DEF ApartInv, historyVars, vars, Apart, ReliesOnTask, ReliesOnRoom, AtCall
    <3> QED BY <3>1, <3>2
  <2> QED BY <2>3, <2>4 DEF ApartInv
<1> QED BY <1>1, <1>2 DEF HistoryInv

LEMMA HistoryInvariant == HistorySpec => [](TypeInv /\ FreshInv /\ HistoryInv)
<1>1. HistoryInit => TypeInv /\ FreshInv /\ HistoryInv
  <2>1. Init => TypeInv /\ FreshInv /\ ApartInv
    BY TypeInit, CurrentInit, TurnoverInit, DatedInit, ApartInit DEF Init, FreshInv, Idle, Request, ApartInv
  <2> QED BY <2>1 DEF HistoryInit, HistoryInv
<1>2. TypeInv /\ FreshInv /\ HistoryInv /\ [HistoryNext]_historyVars => HistoryInv'
  BY HistoryStep
<1>3. [HistoryNext]_historyVars => [Next]_vars
  BY DEF HistoryNext, historyVars, vars
<1> QED BY <1>1, <1>2, <1>3, TypeNext, PTL DEF HistorySpec

\* The history is true to what it stands for: while it says that handlers have kept
\* apart, so they have.
THEOREM NoOverlapIsApart == HistorySpec => ([](~overlapped) => ApartSpec)
<1>1. [HistoryNext]_historyVars /\ (~overlapped)' => [Next /\ Apart']_vars
  BY DEF HistoryNext, historyVars, vars
<1>2. HistoryInit => Init
  BY DEF HistoryInit
<1> QED BY <1>1, <1>2, PTL DEF HistorySpec, ApartSpec

\* Whatever fails and however often a request is repeated, nothing overwrites COMPLETED
\* until two handlers of one row have overlapped (housekeeping.service.ts:109-327).
THEOREM CompletedBeforeOverlap == HistorySpec => CompletedUntilOverlap
<1>1. TypeInv /\ FreshInv /\ HistoryInv /\ [HistoryNext]_historyVars
        => [overlapped \/ \A t \in Tasks :
              "COMPLETED" \in Statuses(t) => tasks'[t].status = "COMPLETED"]_historyVars
  <2> SUFFICES ASSUME TypeInv, FreshInv, ApartInv, [HistoryNext]_historyVars, NEW t \in Tasks,
                      "COMPLETED" \in Statuses(t)
               PROVE  tasks'[t].status = "COMPLETED"
    BY DEF HistoryInv
  <2>1. [Next]_vars
    BY DEF HistoryNext, historyVars, vars
  <2> QED BY <2>1, CompletedNext DEF ApartInv
<1> QED BY <1>1, HistoryInvariant, PTL DEF HistorySpec, CompletedUntilOverlap

\* Until then a completion date marks exactly the completed tasks and is no earlier than
\* the start, wherever requests fail (housekeeping.service.ts:158-298).
THEOREM DatesBeforeOverlap == HistorySpec => []DatesUntilOverlap
<1>1. HistoryInv => DatesUntilOverlap
  BY DEF HistoryInv, ApartInv, DatedInv, Dated, CompletionDated, DatesUntilOverlap
<1> QED BY <1>1, HistoryInvariant, PTL

\* Until then notes change only to those that the request at its write brought: what
\* submitForInspection and inspectTask fall back on is still what the row says
\* (housekeeping.service.ts:203 and 252).
THEOREM NotesBeforeOverlap == HistorySpec => NotesUntilOverlap
<1>1. TypeInv /\ FreshInv /\ HistoryInv /\ [HistoryNext]_historyVars
        => [overlapped \/ \A t \in Tasks :
              tasks[t] # Null /\ tasks'[t].notes # tasks[t].notes
              => \E q \in Slots :
                    /\ req[q].task = t /\ req[q].pc = "write"
                    /\ req[q].notes # Null /\ tasks'[t].notes = req[q].notes]_historyVars
  <2> SUFFICES ASSUME TypeInv, FreshInv, ApartInv, [HistoryNext]_historyVars, NEW t \in Tasks,
                      tasks[t] # Null, tasks'[t].notes # tasks[t].notes
               PROVE  \E q \in Slots : /\ req[q].task = t /\ req[q].pc = "write"
                                       /\ req[q].notes # Null /\ tasks'[t].notes = req[q].notes
    BY DEF HistoryInv
  <2>1. [Next]_vars
    BY DEF HistoryNext, historyVars, vars
  <2> QED BY <2>1, NotesStep DEF ApartInv
<1> QED BY <1>1, HistoryInvariant, PTL DEF HistorySpec, NotesUntilOverlap

\* No room leaves its table until then: neither a failed promotion nor a task that was
\* cancelled or failed brings it there (housekeeping.service.ts:266-292,
\* properties.service.ts:345-378).
THEOREM RoomsLegalBeforeOverlap == HistorySpec => RoomsLegalUntilOverlap
<1>1. TypeInv /\ FreshInv /\ HistoryInv /\ [HistoryNext]_historyVars
        => [overlapped \/ \A r \in Rooms : RoomCanTransition(rooms[r], rooms'[r])]_historyVars
  <2> SUFFICES ASSUME TypeInv, FreshInv, ApartInv, [HistoryNext]_historyVars, NEW r \in Rooms
               PROVE  RoomCanTransition(rooms[r], rooms'[r])
    BY DEF HistoryInv
  <2>1. [Next]_vars
    BY DEF HistoryNext, historyVars, vars
  <2> QED BY <2>1, RoomsNext DEF ApartInv
<1> QED BY <1>1, HistoryInvariant, PTL DEF HistorySpec, RoomsLegalUntilOverlap

\* Until then every step of a handler is a step of RoomTurnover, or none
\* (housekeeping.service.ts:61-327).
THEOREM TurnoverBeforeOverlap == HistorySpec => TurnoverUntilOverlap
<1>1. TypeInv /\ FreshInv /\ HistoryInv /\ [HistoryNext]_historyVars
        => [overlapped \/ [Turnover!Next]_(Turnover!vars)]_historyVars
  <2> SUFFICES ASSUME TypeInv, FreshInv, ApartInv, [HistoryNext]_historyVars
               PROVE  [Turnover!Next]_(Turnover!vars)
    BY DEF HistoryInv
  <2>1. [Next]_vars
    BY DEF HistoryNext, historyVars, vars
  <2> QED BY <2>1, TurnoverNext DEF ApartInv
<1> QED BY <1>1, HistoryInvariant, PTL DEF HistorySpec, TurnoverUntilOverlap

-----------------------------------------------------------------------------
(* Handlers that overlap as they like: what passes is decided on. *)

LEMMA OneRequest ==
    ASSUME NEW q \in Slots, Receive(q) \/ Step(q) \/ Fail(q)
    PROVE  \E r : req' = [req EXCEPT ![q] = r]
<1>1. ASSUME NEW pc, Await(q, pc) PROVE \E r : req' = [req EXCEPT ![q] = r]
  BY <1>1 DEF Await
<1>2. ASSUME Answer(q) PROVE \E r : req' = [req EXCEPT ![q] = r]
  BY <1>2 DEF Answer
<1>3. CASE Receive(q) \/ Fail(q) \/ ReadTask(q) \/ AppendAudit(q)
  BY <1>1, <1>2, <1>3 DEF Receive, Accept, Fail, ReadTask, AppendAudit
<1>4. CASE \/ CreateReadRoom(q) \/ CreateWrite(q) \/ AssignReadUser(q) \/ RoomStatusRead(q)
           \/ RoomStatusWrite(q) \/ PromoteReadRoom(q) \/ PromoteWrite(q)
  BY <1>1, <1>2, <1>4 DEF CreateReadRoom, CreateWrite, AssignReadUser, RoomStatusRead,
     RoomStatusWrite, PromoteReadRoom, PromoteWrite
<1>5. CASE AssignWrite(q) \/ StartWrite(q) \/ SubmitWrite(q) \/ InspectWrite(q) \/ CancelWrite(q)
  BY <1>1, <1>2, <1>5 DEF AssignWrite, StartWrite, SubmitWrite, InspectWrite, CancelWrite
<1> QED BY <1>3, <1>4, <1>5 DEF Step

LEMMA DueLeaves ==
    ASSUME TypeInv, NEW q \in Slots, Receive(q) \/ Step(q) \/ Fail(q),
           NEW t \in DueTasks, t \notin DueTasks'
    PROVE  req[q].task = t /\ Promoting(req[q]) /\ ~(Promoting(req'[q]) /\ req'[q].task = t)
<1>1. PICK p \in Slots : Promoting(req[p]) /\ req[p].task = t
  BY DueIs
<1>2. ~(Promoting(req'[p]) /\ req'[p].task = t)
  BY DEF DueTasks, Promoting
<1>3. PICK r : req' = [req EXCEPT ![q] = r]
  BY OneRequest
<1>4. p = q
  BY <1>1, <1>2, <1>3 DEF TypeInv, TypeOK
<1> QED BY <1>1, <1>2, <1>4

\* A task whose inspection passed has its room promoted, or found in a status it may not
\* leave for VACANT_CLEAN, unless its request fails, whatever else is done to the task and
\* the room meanwhile: it takes a failure to lose a promotion
\* (housekeeping.service.ts:266-283).
THEOREM PassedAlwaysDecided == Spec => PassedAreDecided
<1>1. TypeInv /\ [Next]_vars
        => [\A t \in DueTasks \ DueTasks' :
              \/ rooms'[tasks[t].room] = "VACANT_CLEAN"
              \/ ~RoomCanTransition(rooms[tasks[t].room], "VACANT_CLEAN")
              \/ \E q \in Slots : req[q].task = t /\ Fail(q)]_vars
  <2> SUFFICES ASSUME TypeInv, [Next]_vars, NEW t \in DueTasks, t \notin DueTasks',
                      ~\E q \in Slots : req[q].task = t /\ Fail(q),
                      RoomCanTransition(rooms[tasks[t].room], "VACANT_CLEAN")
               PROVE  rooms'[tasks[t].room] = "VACANT_CLEAN"
    OBVIOUS
  <2>1. PICK q \in Slots : Receive(q) \/ Step(q) \/ Fail(q)
    BY DEF Next, vars, Tick, DueTasks
  <2>2. req[q].task = t /\ Promoting(req[q]) /\ ~(Promoting(req'[q]) /\ req'[q].task = t)
    BY <2>1, DueLeaves
  <2>3. req[q] \in RequestType /\ req \in [Slots -> RequestType] /\ Found(req[q])
    BY DEF TypeInv, TypeOK
  <2>4. req[q].room \in Rooms /\ tasks[t].room = req[q].room
    BY <2>2, <2>3 DEF Found, Promoting, TaskOps, Target
  <2>5. PromoteReadRoom(q) \/ PromoteWrite(q)
    <3>1. ~Receive(q)
      BY <2>2 DEF Promoting, Receive, Accept, Idle, Request
    <3> QED
      BY <2>1, <2>2, <3>1
      DEF Promoting, Step, AtCall, CreateReadRoom, CreateWrite, ReadTask, AssignReadUser, AssignWrite,
          StartWrite, SubmitWrite, InspectWrite, CancelWrite, RoomStatusRead, RoomStatusWrite, AppendAudit
  <2>6. ~PromoteReadRoom(q)
    BY <2>2, <2>3, <2>4 DEF PromoteReadRoom, Await, Promoting, RequestType
  <2> QED BY <2>4, <2>5, <2>6 DEF PromoteWrite, TypeInv, TypeOK
<1>2. Init => TypeInv /\ FreshInv
  BY TypeInit DEF Init, FreshInv, Idle, Request
<1> QED BY <1>1, <1>2, TypeNext, PTL DEF Spec, PassedAreDecided

=============================================================================
