------------------------- MODULE HousekeepingProofs -------------------------
(***************************************************************************)
(* What holds of Housekeeping for every set of tasks, rooms, users and     *)
(* slots, whatever the requests in flight and wherever they fail.          *)
(***************************************************************************)
EXTENDS Housekeeping, TLAPS

\* What a handler knows about its own request at each call
Asked(r) ==
    /\ r.op = "none" <=> r.pc = "idle"
    /\ r.op \in TaskOps \cup {"create"} => r.task \in Tasks
    /\ r.op = "create" => /\ r.pc \in {"read", "write", "audit"}
                          /\ r.pc # "read" => r.room \in Rooms
    /\ r.op = "roomStatus" => /\ r.pc \in {"read", "write", "audit"}
                              /\ r.target \in RoomStatuses
                              /\ r.pc # "read" => r.room \in Rooms
    /\ r.op \in {"pass", "fail"} => r.user \in Supervisors
    /\ r.op = "assign" /\ r.pc = "write" => r.user \in Housekeepers
    /\ r.op \in {"start", "pass", "fail"} /\ r.pc = "write" => r.at \in Time
    /\ r.pc = "user" => r.op = "assign"
    /\ r.pc \in {"room", "promote"} => r.op = "pass"

\* What the row of a request is once the handler has read it
Found(r) ==
    r.op \in TaskOps /\ r.pc # "read"
        => /\ tasks[r.task] # Null
           /\ r.room = tasks[r.task].room
           /\ r.room \in Rooms

TypeInv ==
    /\ TypeOK
    /\ \A q \in Slots : Asked(req[q]) /\ Found(req[q])

\* The id createTask inserts is its own: no row and no other createTask has it.
FreshInv ==
    /\ \A q \in Slots : req[q].op = "create" /\ req[q].pc # "audit" => tasks[req[q].task] = Null
    /\ \A p, q \in Slots : req[p].op = "create" /\ req[q].op = "create"
                             /\ req[p].task = req[q].task => p = q

USE NullAssumption, MaxTimeAssumption, UsersAssumption, StatusAssumption, FailAssumption

LEMMA TypeInit == Init => TypeInv
  BY DEF Init, TypeInv, TypeOK, Asked, Found, Idle, Request, RequestType, OrNull, TaskOps, Ops,
         Target, PCs, Time

\* A step that keeps the tables and changes one request keeps the invariant
\* if the new request is in order.
LEMMA RequestStep ==
    ASSUME TypeInv, NEW q \in Slots, NEW r,
           r \in RequestType, Asked(r), Found(r),
           req' = [req EXCEPT ![q] = r],
           tasks' \in [Tasks -> OrNull(Row)],
           \A t \in Tasks : tasks[t] # Null
              => tasks'[t] # Null /\ tasks'[t].room = tasks[t].room,
           r.op \in TaskOps => r.task \in Tasks,
           rooms' \in [Rooms -> RoomStatuses],
           audit' \subseteq Ops \X (Tasks \cup Rooms),
           now' \in Time
    PROVE  TypeInv'
<1>1. TypeOK'
  BY DEF TypeInv, TypeOK
<1>2. ASSUME NEW p \in Slots PROVE Asked(req'[p])
  BY DEF TypeInv, TypeOK
<1>3. ASSUME NEW p \in Slots PROVE Found(req[p])' 
  <2>1. CASE p = q
    <3>1. req'[p] = r
      BY <2>1 DEF TypeInv, TypeOK
    <3> QED BY <3>1 DEF Found
  <2>2. CASE p # q
    <3>1. req'[p] = req[p]
      BY <2>2 DEF TypeInv, TypeOK
    <3>2. Asked(req[p]) /\ Found(req[p])
      BY DEF TypeInv
    <3> QED BY <3>1, <3>2 DEF Found, Asked
  <2> QED BY <2>1, <2>2
<1> QED BY <1>1, <1>2, <1>3 DEF TypeInv, Asked

LEMMA AnswerStep ==
    ASSUME TypeInv, NEW q \in Slots, Answer(q), UNCHANGED <<tasks, rooms, now>>,
           audit' \subseteq Ops \X (Tasks \cup Rooms)
    PROVE  TypeInv'
<1> DEFINE r == Idle
<1>1. r \in RequestType /\ Asked(r) /\ Found(r)
  BY DEF Idle, Request, RequestType, OrNull, Asked, Found, TaskOps, Target, Ops
<1>2. req' = [req EXCEPT ![q] = r]
  BY DEF Answer
<1>3. /\ tasks' \in [Tasks -> OrNull(Row)] /\ rooms' \in [Rooms -> RoomStatuses] /\ now' \in Time
      /\ \A t \in Tasks : tasks[t] # Null
              => tasks'[t] # Null /\ tasks'[t].room = tasks[t].room
  BY DEF TypeInv, TypeOK
<1>4. r.op \notin TaskOps
  BY DEF Idle, Request, TaskOps, Target
<1> HIDE DEF r
<1> QED BY <1>1, <1>2, <1>3, <1>4, RequestStep

\* The request moves on, the tables stay.
LEMMA AwaitStep ==
    ASSUME TypeInv, NEW q \in Slots, NEW r, r \in RequestType, Asked(r), Found(r),
           req' = [req EXCEPT ![q] = r], UNCHANGED <<tasks, rooms, audit, now>>
    PROVE  TypeInv'
<1>1. r.op \in TaskOps => r.task \in Tasks
  BY DEF Asked
<1> QED BY <1>1, RequestStep DEF TypeInv, TypeOK

LEMMA TypeReceive ==
    ASSUME TypeInv, NEW q \in Slots, Receive(q)
    PROVE  TypeInv'
<1> DEFINE All == CreateRequests \cup AssignRequests \cup StartRequests \cup SubmitRequests
                  \cup InspectRequests \cup CancelRequests \cup RoomStatusRequests
<1>1. PICK new \in All : req' = [req EXCEPT ![q] = new]
  BY DEF Receive, Accept
<1>2. new \in RequestType /\ Asked(new) /\ Found(new)
  BY <1>1 DEF CreateRequests, AssignRequests, StartRequests, SubmitRequests, InspectRequests,
     CancelRequests, RoomStatusRequests, Request, RequestType, Asked, Found, OrNull, TaskOps,
     Target, Ops, PCs, Users
<1>3. UNCHANGED <<tasks, rooms, audit, now>>
  BY DEF Receive, Accept
<1> HIDE DEF All
<1> QED BY <1>1, <1>2, <1>3, AwaitStep

\* A handler's update of its row
LEMMA UpdateStep ==
    ASSUME TypeInv, NEW q \in Slots, NEW row \in Row, NEW pc \in PCs,
           req[q].task \in Tasks,
           LET old == tasks[req[q].task] IN old # Null => row.room = old.room,
           UpdateTask(q, row), Await(q, pc),
           Asked([req[q] EXCEPT !.pc = pc]),
           req[q].op \in TaskOps => req[q].room = row.room /\ req[q].room \in Rooms
    PROVE  TypeInv'
<1> DEFINE r == [req[q] EXCEPT !.pc = pc]
<1>1. req[q] \in RequestType /\ r \in RequestType
  BY DEF TypeInv, TypeOK, RequestType
<1>2. req' = [req EXCEPT ![q] = r] /\ tasks' = [tasks EXCEPT ![req[q].task] = row]
  BY DEF Await, UpdateTask
<1>3. r.task = req[q].task /\ r.op = req[q].op /\ r.room = req[q].room
  BY <1>1 DEF RequestType
<1>4. UNCHANGED <<rooms, audit, now>>
  BY DEF UpdateTask
<1> HIDE DEF r
<1>5. tasks' \in [Tasks -> OrNull(Row)] /\ row # Null
  BY <1>2 DEF TypeInv, TypeOK, OrNull
<1>6. \A t \in Tasks : tasks[t] # Null
              => tasks'[t] # Null /\ tasks'[t].room = tasks[t].room
  BY <1>2, <1>5 DEF TypeInv, TypeOK
<1>7. TypeOK'
  BY <1>1, <1>2, <1>4, <1>5 DEF TypeInv, TypeOK
<1>8. ASSUME NEW p \in Slots PROVE (Asked(req[p]) /\ Found(req[p]))'
  <2>1. CASE p = q
    <3>1. req'[p] = r
      BY <2>1, <1>2 DEF TypeInv, TypeOK
    <3>2. Asked(r)
      BY DEF r
    <3>3. tasks'[r.task] = row
      BY <1>2, <1>3 DEF TypeInv, TypeOK
    <3> QED BY <3>1, <3>2, <3>3, <1>3, <1>5 DEF Found, Asked
  <2>2. CASE p # q
    <3>1. req'[p] = req[p]
      BY <2>2, <1>2 DEF TypeInv, TypeOK
    <3>2. Asked(req[p]) /\ Found(req[p])
      BY DEF TypeInv
    <3> QED BY <3>1, <3>2, <1>6 DEF Found, Asked
  <2> QED BY <2>1, <2>2
<1> QED BY <1>7, <1>8 DEF TypeInv

\* A handler that changes no table and moves on with what it knows
LEMMA MoveStep ==
    ASSUME TypeInv, NEW q \in Slots, NEW pc \in PCs, Await(q, pc),
           Asked([req[q] EXCEPT !.pc = pc]), req[q].op \in TaskOps => req[q].pc # "read",
           tasks' = tasks, rooms' \in [Rooms -> RoomStatuses], UNCHANGED <<audit, now>>
    PROVE  TypeInv'
<1> DEFINE r == [req[q] EXCEPT !.pc = pc]
<1>0. req[q] \in RequestType /\ Found(req[q])
  BY DEF TypeInv, TypeOK
<1>1. r \in RequestType /\ Found(r) /\ Asked(r)
  BY <1>0 DEF RequestType, Found
<1>2. req' = [req EXCEPT ![q] = r]
  BY DEF Await
<1>3. r.op \in TaskOps => r.task \in Tasks
  BY <1>1 DEF Asked
<1> HIDE DEF r
<1> QED BY <1>1, <1>2, <1>3, RequestStep DEF TypeInv, TypeOK

\* What reading a row adds to a request
LEMMA WithRowFields ==
    ASSUME NEW o \in RequestType, NEW row \in Row, now \in Time
    PROVE  LET r == WithRow(o, row) IN
           /\ r \in RequestType
           /\ r.op = o.op /\ r.task = o.task /\ r.user = o.user /\ r.target = o.target
           /\ r.pc = IF o.op = "assign" THEN "user" ELSE "write"
           /\ r.room = row.room
           /\ o.op \in {"start", "pass", "fail"} => r.at = now
           /\ o.op \in {"submit", "pass", "fail"} => r.kept = row.notes
<1> DEFINE r == WithRow(o, row)
           kept == IF o.op \in {"submit", "pass", "fail"} THEN row.notes ELSE o.kept
           pc == IF o.op = "assign" THEN "user" ELSE "write"
           seen == IF o.op = "assign" THEN row.status ELSE o.seen
           at == IF o.op \in {"start", "pass", "fail"} THEN now ELSE o.at
<1>1. /\ kept \in OrNull(Notes) /\ pc \in PCs /\ seen \in OrNull(TaskStatuses)
      /\ at \in OrNull(Time)
  BY DEF RequestType, Row, OrNull, PCs
<1>2. r = [o EXCEPT !.pc = pc, !.room = row.room, !.kept = kept, !.seen = seen, !.at = at]
  BY DEF WithRow, RequestType
<1> HIDE DEF kept, pc, seen, at, r
<1>3. row.room \in OrNull(Rooms)
  BY DEF Row, OrNull
<1>4. /\ r \in RequestType
      /\ r.op = o.op /\ r.task = o.task /\ r.user = o.user /\ r.target = o.target
      /\ r.pc = pc /\ r.room = row.room /\ r.at = at
      /\ r.kept = kept
  BY <1>1, <1>2, <1>3 DEF RequestType
<1> QED BY <1>4 DEF pc, at, kept, r

\* Each update keeps the row in the table's type and the room of the row.
LEMMA UpdatedRows ==
    ASSUME NEW row \in Row, NEW r \in RequestType, Asked(r), r.pc = "write"
    PROVE  /\ r.op = "assign" => Assigned(row, r) \in Row /\ Assigned(row, r).room = row.room
           /\ r.op = "start" => Started(row, r) \in Row /\ Started(row, r).room = row.room
           /\ Submitted(row, r) \in Row /\ Submitted(row, r).room = row.room
           /\ r.op \in {"pass", "fail"} => Inspected(row, r) \in Row
                                            /\ Inspected(row, r).room = row.room
           /\ Cancelled(row) \in Row /\ Cancelled(row).room = row.room
<1>1. ASSUME r.op = "assign" PROVE Assigned(row, r) \in Row /\ Assigned(row, r).room = row.room
  BY <1>1 DEF Asked, Assigned, Row, OrNull, TaskStatuses
<1>2. ASSUME r.op = "start" PROVE Started(row, r) \in Row /\ Started(row, r).room = row.room
  BY <1>2 DEF Asked, Started, Row, OrNull, TaskStatuses
<1>3. Submitted(row, r) \in Row /\ Submitted(row, r).room = row.room
  <2>1. Coalesce(r.notes, r.kept) \in OrNull(Notes)
    BY DEF RequestType, Coalesce
  <2> QED BY <2>1 DEF Submitted, Row, OrNull, TaskStatuses
<1>4. ASSUME r.op \in {"pass", "fail"}
      PROVE  Inspected(row, r) \in Row /\ Inspected(row, r).room = row.room
  <2>1. r.user \in Supervisors /\ r.at \in Time /\ Coalesce(r.notes, r.kept) \in OrNull(Notes)
        /\ Target[r.op] \in TaskStatuses
    BY <1>4 DEF Asked, RequestType, Target, TaskStatuses, Coalesce
  <2> QED BY <2>1 DEF Inspected, Row, OrNull
<1>5. Cancelled(row) \in Row /\ Cancelled(row).room = row.room
  BY DEF Cancelled, Row, TaskStatuses
<1> QED BY <1>1, <1>2, <1>3, <1>4, <1>5

LEMMA TypeStep ==
    ASSUME TypeInv, FreshInv, NEW q \in Slots, Step(q)
    PROVE  TypeInv'
<1> DEFINE old == req[q]
           Moved(pc) == [old EXCEPT !.pc = pc]
<1> USE DEF AtCall, TaskOps, Target, PCs
<1>0. old \in RequestType /\ Asked(old) /\ Found(old)
  BY DEF TypeInv, TypeOK
<1>1. ASSUME Answer(q), UNCHANGED <<tasks, rooms, audit, now>> PROVE TypeInv'
  BY <1>1, AnswerStep DEF TypeInv, TypeOK
<1>2. CASE CreateReadRoom(q)
  <2>1. req[q].room \in Rooms => Asked(Moved("write"))
    BY <1>0, <1>2 DEF Asked, CreateReadRoom, RequestType
  <2> QED BY <1>1, <1>2, <2>1, MoveStep DEF CreateReadRoom, TypeInv, TypeOK
<1>3. CASE CreateWrite(q)
  <2> DEFINE row == NewTask(old.room, old.notes)
  <2>1. row \in Row /\ row.room = old.room /\ old.task \in Tasks
    BY <1>0, <1>3 DEF CreateWrite, Asked, NewTask, Row, TaskStatuses, OrNull, RequestType
  <2>2. Asked(Moved("audit"))
    BY <1>0, <1>3 DEF Asked, CreateWrite, RequestType
  <2>3. tasks[old.task] = Null
    BY <1>3 DEF CreateWrite, FreshInv
  <2>4. UpdateTask(q, row) /\ Await(q, "audit") /\ old.op \notin TaskOps
    BY <1>3 DEF CreateWrite
  <2> HIDE DEF row
  <2> QED BY <2>1, <2>2, <2>3, <2>4, UpdateStep
<1>4. CASE ReadTask(q)
  <2>1. CASE Proceeds(old) /\ req' = [req EXCEPT ![q] = WithRow(old, tasks[old.task])]
    <3> DEFINE r == WithRow(old, tasks[old.task])
    <3>1. old.task \in Tasks /\ tasks[old.task] \in Row
      BY <1>0, <1>4, <2>1 DEF ReadTask, Asked, Proceeds, TypeInv, TypeOK, OrNull
    <3>2. /\ r \in RequestType
          /\ r.op = old.op /\ r.task = old.task /\ r.user = old.user /\ r.target = old.target
          /\ r.pc = IF old.op = "assign" THEN "user" ELSE "write"
          /\ r.room = tasks[old.task].room
          /\ old.op \in {"start", "pass", "fail"} => r.at = now
      BY <1>0, <3>1, WithRowFields DEF TypeInv, TypeOK
    <3> HIDE DEF r
    <3>3. Asked(r) /\ Found(r)
      BY <1>0, <1>4, <3>1, <3>2, <2>1 DEF Asked, Found, ReadTask, Proceeds, TypeInv, TypeOK, Row
    <3> QED BY <1>4, <2>1, <3>2, <3>3, AwaitStep DEF ReadTask, r
  <2> QED BY <1>1, <1>4, <2>1 DEF ReadTask
<1>5. CASE AssignReadUser(q)
  <2>1. req[q].user \in Housekeepers => Asked(Moved("write"))
    BY <1>0, <1>5 DEF Asked, AssignReadUser, RequestType
  <2> QED BY <1>1, <1>5, <2>1, MoveStep DEF AssignReadUser, TypeInv, TypeOK
\* The five updates of a row: each keeps the row's room and goes on to pc.
<1>6. ASSUME NEW row, NEW pc \in {"audit", "room"}, old.op \in TaskOps, old.pc = "write",
             pc = "room" => old.op = "pass",
             UpdateTask(q, row), Await(q, pc),
             tasks[old.task] \in Row => row \in Row /\ row.room = tasks[old.task].room
      PROVE  TypeInv'
  <2>1. old.task \in Tasks /\ tasks[old.task] \in Row /\ old.room = tasks[old.task].room
        /\ old.room \in Rooms
    BY <1>0, <1>6 DEF Asked, Found, TypeInv, TypeOK, OrNull
  <2>2. Asked(Moved(pc))
    BY <1>0, <1>6 DEF Asked, RequestType
  <2> QED BY <1>6, <2>1, <2>2, UpdateStep
<1>7. CASE AssignWrite(q)
  BY <1>0, <1>6, <1>7, UpdatedRows DEF AssignWrite
<1>8. CASE StartWrite(q)
  BY <1>0, <1>6, <1>8, UpdatedRows DEF StartWrite
<1>9. CASE SubmitWrite(q)
  BY <1>0, <1>6, <1>9, UpdatedRows DEF SubmitWrite
<1>10. CASE InspectWrite(q)
  BY <1>0, <1>6, <1>10, UpdatedRows DEF InspectWrite
<1>11. CASE CancelWrite(q)
  BY <1>0, <1>6, <1>11, UpdatedRows DEF CancelWrite
<1>12. CASE PromoteReadRoom(q)
  <2>1. Asked(Moved("promote")) /\ Asked(Moved("audit"))
    BY <1>0, <1>12 DEF Asked, PromoteReadRoom, RequestType
  <2> QED BY <1>12, <2>1, MoveStep DEF PromoteReadRoom, TypeInv, TypeOK
<1>13. CASE PromoteWrite(q)
  <2>1. Asked(Moved("audit")) /\ old.pc # "read" /\ Await(q, "audit")
    BY <1>0, <1>13 DEF Asked, PromoteWrite, RequestType
  <2>2. rooms' \in [Rooms -> RoomStatuses] /\ UNCHANGED <<tasks, audit, now>>
    BY <1>13 DEF PromoteWrite, TypeInv, TypeOK, RoomStatuses
  <2> QED BY <2>1, <2>2, MoveStep
<1>14. CASE RoomStatusRead(q)
  <2>1. req[q].room \in Rooms => Asked(Moved("write"))
    BY <1>0, <1>14 DEF Asked, RoomStatusRead, RequestType
  <2> QED BY <1>1, <1>14, <2>1, MoveStep DEF RoomStatusRead, TypeInv, TypeOK
<1>15. CASE RoomStatusWrite(q)
  <2>1. Asked(Moved("audit")) /\ old.op \notin TaskOps /\ Await(q, "audit")
    BY <1>0, <1>15 DEF Asked, RoomStatusWrite, RequestType
  <2>2. rooms' \in [Rooms -> RoomStatuses] /\ UNCHANGED <<tasks, audit, now>>
    BY <1>0, <1>15 DEF RoomStatusWrite, TypeInv, TypeOK, Asked
  <2> QED BY <2>1, <2>2, MoveStep
<1>16. CASE AppendAudit(q)
  <2>1. old.op \in Ops /\ Subject(old) \in Tasks \cup Rooms
    BY <1>0, <1>16 DEF AppendAudit, Asked, Subject, RequestType, Ops
  <2>2. audit' \subseteq Ops \X (Tasks \cup Rooms)
    BY <1>16, <2>1 DEF AppendAudit, TypeInv, TypeOK
  <2> QED BY <1>16, <2>2, AnswerStep DEF AppendAudit
<1> QED
  BY <1>2, <1>3, <1>4, <1>5, <1>7, <1>8, <1>9, <1>10, <1>11, <1>12, <1>13, <1>14, <1>15, <1>16
  DEF Step

LEMMA FreshReceive ==
    ASSUME TypeInv, FreshInv, NEW q \in Slots, Receive(q)
    PROVE  FreshInv'
<1> DEFINE All == CreateRequests \cup AssignRequests \cup StartRequests \cup SubmitRequests
                  \cup InspectRequests \cup CancelRequests \cup RoomStatusRequests
<1>1. PICK new \in All : req' = [req EXCEPT ![q] = new] /\ (new.op = "create" => IsFresh(new.task))
  BY DEF Receive, Accept
<1>2. tasks' = tasks
  BY DEF Receive, Accept
<1> HIDE DEF All
<1>3. \A p \in Slots : req'[p] = IF p = q THEN new ELSE req[p]
  BY <1>1 DEF TypeInv, TypeOK
<1> QED BY <1>1, <1>2, <1>3 DEF FreshInv, IsFresh

\* A step in which the request of q goes on with its own operation and id, or ends
LEMMA FreshKept ==
    ASSUME FreshInv, NEW q \in Slots, NEW r, req \in [Slots -> RequestType],
           req' = [req EXCEPT ![q] = r],
           \/ r.op # "create"
           \/ /\ r.op = req[q].op /\ r.task = req[q].task
              /\ r.pc # "audit" => (req[q].pc # "audit" /\ tasks'[r.task] = tasks[r.task]),
           \A t \in Tasks : t # req[q].task => tasks'[t] = tasks[t],
           req[q].op # "create" => tasks' = tasks \/ tasks[req[q].task] # Null,
           \A p \in Slots : req[p].op = "create" => req[p].task \in Tasks
    PROVE  FreshInv'
<1>1. \A p \in Slots : req'[p] = IF p = q THEN r ELSE req[p]
  OBVIOUS
<1>2. ASSUME NEW p \in Slots, req'[p].op = "create", req'[p].pc # "audit"
      PROVE  tasks'[req'[p].task] = Null
  BY <1>1, <1>2 DEF FreshInv
<1>3. ASSUME NEW p \in Slots, NEW o \in Slots, req'[p].op = "create", req'[o].op = "create",
             req'[p].task = req'[o].task
      PROVE  p = o
  BY <1>1, <1>3 DEF FreshInv
<1> QED BY <1>2, <1>3 DEF FreshInv

LEMMA FreshStep ==
    ASSUME TypeInv, FreshInv, NEW q \in Slots, Step(q) \/ Fail(q)
    PROVE  FreshInv'
<1> USE DEF AtCall, TaskOps, Target
<1>0. /\ req \in [Slots -> RequestType] /\ tasks \in [Tasks -> OrNull(Row)]
      /\ \A p \in Slots : Asked(req[p]) /\ Found(req[p])
      /\ \A p \in Slots : req[p].op = "create" => req[p].task \in Tasks
  BY DEF TypeInv, TypeOK, Asked
<1>1. ASSUME Answer(q), UNCHANGED tasks PROVE FreshInv'
  <2>1. Idle.op # "create"
    BY DEF Idle, Request
  <2> QED BY <1>0, <1>1, <2>1, FreshKept DEF Answer
<1>2. ASSUME NEW pc \in PCs, Await(q, pc), UNCHANGED tasks, req[q].pc # "audit" PROVE FreshInv'
  <2> DEFINE r == [req[q] EXCEPT !.pc = pc]
  <2>1. r.op = req[q].op /\ r.task = req[q].task /\ req' = [req EXCEPT ![q] = r]
    BY <1>0, <1>2 DEF RequestType, Await
  <2> HIDE DEF r
  <2> QED BY <1>0, <1>2, <2>1, FreshKept
<1>3. ASSUME NEW row, NEW pc \in {"audit", "room"}, req[q].pc = "write", Await(q, pc),
             UpdateTask(q, row), req[q].op \in TaskOps \/ (req[q].op = "create" /\ pc = "audit")
      PROVE  FreshInv'
  <2> DEFINE r == [req[q] EXCEPT !.pc = pc]
  <2>1. r.op = req[q].op /\ r.task = req[q].task /\ r.pc = pc /\ req' = [req EXCEPT ![q] = r]
    BY <1>0, <1>3 DEF RequestType, Await
  <2>2. req[q].op # "create" => tasks[req[q].task] # Null
    BY <1>0, <1>3 DEF Found
  <2>3. \A t \in Tasks : t # req[q].task => tasks'[t] = tasks[t]
    BY <1>0, <1>3 DEF UpdateTask
  <2> HIDE DEF r
  <2> QED BY <1>0, <1>3, <2>1, <2>2, <2>3, FreshKept
<1>4. CASE ReadTask(q) /\ ~Answer(q)
  <2> DEFINE r == WithRow(req[q], tasks[req[q].task])
  <2>1. req[q] \in RequestType /\ tasks[req[q].task] \in Row /\ now \in Time
    BY <1>0, <1>4 DEF ReadTask, Proceeds, Asked, OrNull, TypeInv, TypeOK
  <2>2. r.op = req[q].op
    BY <2>1, WithRowFields
  <2>3. r.op # "create" /\ req' = [req EXCEPT ![q] = r] /\ tasks' = tasks
    BY <1>4, <2>2 DEF ReadTask
  <2> HIDE DEF r
  <2> QED BY <1>0, <2>3, FreshKept
<1>5. CASE CreateReadRoom(q) \/ AssignReadUser(q) \/ PromoteReadRoom(q) \/ PromoteWrite(q)
           \/ RoomStatusRead(q) \/ RoomStatusWrite(q)
  BY <1>1, <1>2, <1>5 DEF CreateReadRoom, AssignReadUser, PromoteReadRoom, PromoteWrite,
     RoomStatusRead, RoomStatusWrite, PCs
<1>6. CASE CreateWrite(q) \/ AssignWrite(q) \/ StartWrite(q) \/ SubmitWrite(q) \/ InspectWrite(q)
           \/ CancelWrite(q)
  <2>1. CASE CreateWrite(q)
    BY <1>3, <2>1 DEF CreateWrite
  <2>2. CASE AssignWrite(q)
    BY <1>3, <2>2 DEF AssignWrite
  <2>3. CASE StartWrite(q)
    BY <1>3, <2>3 DEF StartWrite
  <2>4. CASE SubmitWrite(q)
    BY <1>3, <2>4 DEF SubmitWrite
  <2>5. CASE InspectWrite(q)
    BY <1>3, <2>5 DEF InspectWrite
  <2>6. CASE CancelWrite(q)
    BY <1>3, <2>6 DEF CancelWrite
  <2> QED BY <1>6, <2>1, <2>2, <2>3, <2>4, <2>5, <2>6
<1>7. CASE AppendAudit(q) \/ Fail(q) \/ (ReadTask(q) /\ Answer(q))
  BY <1>1, <1>7 DEF AppendAudit, Fail, ReadTask
<1> QED BY <1>4, <1>5, <1>6, <1>7 DEF Step

LEMMA TypeNext ==
    TypeInv /\ FreshInv /\ [Next]_vars => (TypeInv /\ FreshInv)'
<1> SUFFICES ASSUME TypeInv, FreshInv, [Next]_vars PROVE (TypeInv /\ FreshInv)'
  OBVIOUS
<1>1. CASE Tick
  <2>1. now' \in Time
    BY <1>1 DEF Tick, TypeInv, TypeOK, Time
  <2> QED BY <1>1, <2>1 DEF Tick, TypeInv, TypeOK, FreshInv, Found
<1>2. CASE UNCHANGED vars
  BY <1>2 DEF vars, TypeInv, TypeOK, FreshInv, Found
<1>3. ASSUME NEW q \in Slots, Receive(q) PROVE (TypeInv /\ FreshInv)'
  BY <1>3, TypeReceive, FreshReceive
<1>4. ASSUME NEW q \in Slots, Step(q) PROVE (TypeInv /\ FreshInv)'
  BY <1>4, TypeStep, FreshStep
<1>5. ASSUME NEW q \in Slots, Fail(q) PROVE (TypeInv /\ FreshInv)'
  <2>1. TypeInv'
    BY <1>5, AnswerStep DEF Fail, TypeInv, TypeOK
  <2> QED BY <1>5, <2>1, FreshStep
<1> QED BY <1>1, <1>2, <1>3, <1>4, <1>5 DEF Next

\* The tables and the requests keep their shape, and a handler that has read a row
\* finds it still there when it writes: nothing of housekeeping.service.ts removes
\* rows or moves them to another room, however the handlers interleave.
THEOREM TypeCorrect == Spec => []TypeOK
<1>1. Init => TypeInv /\ FreshInv
  BY TypeInit DEF Init, FreshInv, Idle, Request
<1>2. TypeInv => TypeOK
  BY DEF TypeInv
<1> QED BY <1>1, <1>2, TypeNext, PTL DEF Spec

-----------------------------------------------------------------------------
(* What is recorded stays recorded *)

LEMMA UpdatesKeep ==
    ASSUME NEW row \in Row, NEW r \in RequestType, Asked(r), r.pc = "write"
    PROVE  /\ r.op = "assign" => KeepsRecord(row, Assigned(row, r))
           /\ r.op = "start" => KeepsRecord(row, Started(row, r))
           /\ KeepsRecord(row, Submitted(row, r))
           /\ r.op \in {"pass", "fail"} => KeepsRecord(row, Inspected(row, r))
           /\ KeepsRecord(row, Cancelled(row))
<1> USE DEF KeepsRecord
<1>1. \A x \in Row : x # Null
  OBVIOUS
<1>2. ASSUME r.op = "assign" PROVE KeepsRecord(row, Assigned(row, r))
  <2>1. r.user # Null
    BY <1>2 DEF Asked, Users
  <2>2. Assigned(row, r) # Null
    BY <1>1, <1>2, UpdatedRows
  <2> QED BY <2>1, <2>2 DEF Assigned, Row
<1>3. ASSUME r.op = "start" PROVE KeepsRecord(row, Started(row, r))
  <2>1. r.at # Null
    BY <1>3 DEF Asked, Time
  <2>2. Started(row, r) # Null
    BY <1>1, <1>3, UpdatedRows
  <2> QED BY <2>1, <2>2 DEF Started, Row
<1>4. KeepsRecord(row, Submitted(row, r))
  BY <1>1, UpdatedRows DEF Submitted, Row
<1>5. ASSUME r.op \in {"pass", "fail"} PROVE KeepsRecord(row, Inspected(row, r))
  <2>1. r.user # Null /\ r.at # Null
    BY <1>5 DEF Asked, Time, Users
  <2>2. Inspected(row, r) # Null
    BY <1>1, <1>5, UpdatedRows
  <2> QED BY <2>1, <2>2 DEF Inspected, Row
<1>6. KeepsRecord(row, Cancelled(row))
  BY <1>1, UpdatedRows DEF Cancelled, Row
<1> QED BY <1>2, <1>3, <1>4, <1>5, <1>6

\* A row keeps what it recorded through every step.
LEMMA KeepNext ==
    ASSUME TypeInv, FreshInv, [Next]_vars, NEW t \in Tasks, tasks[t] # Null
    PROVE  KeepsRecord(tasks[t], tasks'[t])
<1>1. tasks[t] \in Row /\ tasks \in [Tasks -> OrNull(Row)]
  BY DEF TypeInv, TypeOK, OrNull
<1>2. CASE tasks' = tasks
  BY <1>2 DEF KeepsRecord
<1>3. ASSUME NEW q \in Slots, NEW row, UpdateTask(q, row),
             req[q].task = t => KeepsRecord(tasks[t], row)
      PROVE  KeepsRecord(tasks[t], tasks'[t])
  <2>1. tasks'[t] = IF t = req[q].task THEN row ELSE tasks[t]
    BY <1>1, <1>3 DEF UpdateTask
  <2> QED BY <1>3, <2>1 DEF KeepsRecord
<1>4. ASSUME NEW q \in Slots, Step(q), tasks' # tasks PROVE KeepsRecord(tasks[t], tasks'[t])
  <2>0. req[q] \in RequestType /\ Asked(req[q])
    BY DEF TypeInv, TypeOK
  <2> DEFINE old == tasks[req[q].task]
  <2>1. CASE CreateWrite(q)
    <3>1. req[q].task # t
      BY <2>1 DEF CreateWrite, AtCall, FreshInv
    <3> QED BY <1>3, <2>1, <3>1 DEF CreateWrite
  <2>2. CASE AssignWrite(q)
    BY <1>1, <1>3, <2>0, <2>2, UpdatesKeep DEF AssignWrite, AtCall
  <2>3. CASE StartWrite(q)
    BY <1>1, <1>3, <2>0, <2>3, UpdatesKeep DEF StartWrite, AtCall
  <2>4. CASE SubmitWrite(q)
    BY <1>1, <1>3, <2>0, <2>4, UpdatesKeep DEF SubmitWrite, AtCall
  <2>5. CASE InspectWrite(q)
    BY <1>1, <1>3, <2>0, <2>5, UpdatesKeep DEF InspectWrite
  <2>6. CASE CancelWrite(q)
    BY <1>1, <1>3, <2>0, <2>6, UpdatesKeep DEF CancelWrite, AtCall
  <2> QED
    BY <1>4, <2>1, <2>2, <2>3, <2>4, <2>5, <2>6
    DEF Step, CreateReadRoom, ReadTask, AssignReadUser, PromoteReadRoom, PromoteWrite,
        RoomStatusRead, RoomStatusWrite, AppendAudit
<1>5. ASSUME NEW q \in Slots, Receive(q) \/ Fail(q) PROVE tasks' = tasks
  BY <1>5 DEF Receive, Accept, Fail
<1> QED BY <1>2, <1>4, <1>5 DEF Next, vars, Tick

\* No handler, however stale what it read, clears the assignee, a date or the
\* inspector of a task, moves it to another room or removes it.
THEOREM RecordsAreKept == Spec => RecordsKept
<1>1. Init => TypeInv /\ FreshInv
  BY TypeInit DEF Init, FreshInv, Idle, Request
<1>2. TypeInv /\ FreshInv /\ [Next]_vars
        => [\A t \in Tasks : tasks[t] # Null => KeepsRecord(tasks[t], tasks'[t])]_vars
  BY KeepNext
<1> QED BY <1>1, <1>2, TypeNext, PTL DEF Spec, RecordsKept

-----------------------------------------------------------------------------
(* What the status of a task and the audit log prove about its row *)

RowInv(row) ==
    /\ row.status \in {"ASSIGNED", "IN_PROGRESS", "INSPECTION", "COMPLETED"}
          => row.assignedTo \in Housekeepers
    /\ row.status = "PENDING" => row = NewTask(row.room, row.notes)
    /\ row.status = "COMPLETED" => /\ row.inspectedBy \in Supervisors
                                   /\ row.completedAt \in Time
                                   /\ row.completedAt = row.inspectedAt

\* What a request proves about its row.  The status it read may be stale, but a
\* task that was ever past PENDING has an assignee for good.
Witnessed(r) ==
    /\ r.op \in {"start", "submit", "pass", "fail"} /\ r.pc = "write"
          => tasks[r.task].assignedTo \in Housekeepers
    /\ r.op = "pass" /\ r.pc \in {"room", "promote"} => Evidence("pass", tasks[r.task])
    /\ r.op \in TaskOps \cup {"create"} /\ r.pc = "audit"
          => tasks[r.task] # Null /\ Evidence(r.op, tasks[r.task])

WorkInv ==
    /\ \A t \in Tasks : tasks[t] # Null => RowInv(tasks[t])
    /\ \A q \in Slots : Witnessed(req[q])
    /\ AuditJustified

LEMMA WorkInvImplies ==
    TypeInv /\ WorkInv
        => AssigneeKnown /\ PendingUntouched /\ InspectionRecorded /\ PromotionBacked /\ AuditJustified
<1> SUFFICES ASSUME TypeInv, WorkInv
             PROVE  /\ AssigneeKnown /\ PendingUntouched /\ InspectionRecorded
                    /\ PromotionBacked /\ AuditJustified
  OBVIOUS
<1>1. AssigneeKnown
  BY DEF AssigneeKnown, Statuses, WorkInv, RowInv
<1>2. PendingUntouched
  BY DEF PendingUntouched, Statuses, WorkInv, RowInv
<1>3. InspectionRecorded
  BY DEF InspectionRecorded, Statuses, WorkInv, RowInv
<1>4. PromotionBacked
  <2> SUFFICES ASSUME NEW q \in Slots, req[q].op = "pass", req[q].pc \in {"room", "promote"}
               PROVE  LET row == tasks[req[q].task]
                      IN  row # Null /\ row.room = req[q].room /\ row.completedAt # Null
    BY DEF PromotionBacked
  <2>1. Found(req[q]) /\ Witnessed(req[q])
    BY DEF TypeInv, WorkInv
  <2> QED BY <2>1 DEF Found, Witnessed, Evidence, TaskOps, Target
<1> QED BY <1>1, <1>2, <1>3, <1>4 DEF WorkInv

\* Evidence outlives every step that keeps the record.
LEMMA EvidenceKept ==
    ASSUME NEW old \in Row, NEW new \in Row, KeepsRecord(old, new), NEW op \in TaskOps \cup {"create"},
           Evidence(op, old)
    PROVE  Evidence(op, new)
  BY DEF KeepsRecord, Evidence, TaskOps, Target

\* It is enough to look at the changed row and the changed request.
LEMMA WorkKept ==
    ASSUME TypeInv, TypeInv', WorkInv, NEW q \in Slots,
           \A t \in Tasks : tasks[t] # Null => KeepsRecord(tasks[t], tasks'[t]),
           \A t \in Tasks : tasks'[t] # Null => RowInv(tasks'[t]),
           \A p \in Slots : p # q => req'[p] = req[p],
           Witnessed(req[q])',
           \A op \in TaskOps \cup {"create"}, t \in Tasks :
              <<op, t>> \in audit' /\ <<op, t>> \notin audit
                 => tasks[t] # Null /\ Evidence(op, tasks[t])
    PROVE  WorkInv'
<1>1. ASSUME NEW t \in Tasks, tasks[t] # Null
      PROVE  /\ tasks[t] \in Row /\ tasks'[t] \in Row /\ KeepsRecord(tasks[t], tasks'[t])
             /\ tasks[t].assignedTo \in Housekeepers => tasks'[t].assignedTo \in Housekeepers
  <2>1. tasks[t] \in Row /\ tasks'[t] \in Row /\ KeepsRecord(tasks[t], tasks'[t])
    BY <1>1 DEF TypeInv, TypeOK, OrNull, KeepsRecord
  <2>2. tasks[t].assignedTo \in Housekeepers => tasks[t].assignedTo # Null
    BY DEF Users
  <2>3. tasks'[t].assignedTo \in OrNull(Housekeepers)
    BY <2>1 DEF Row
  <2> QED BY <2>1, <2>2, <2>3 DEF KeepsRecord, OrNull
<1>2. ASSUME NEW p \in Slots PROVE Witnessed(req[p])'
  <2>1. CASE p = q
    BY <2>1
  <2>2. CASE p # q
    <3> DEFINE r == req[p]
    <3>1. req'[p] = r /\ Witnessed(r) /\ Asked(r) /\ Found(r)
      BY <2>2 DEF WorkInv, TypeInv
    <3> HIDE DEF r
    <3>2. r.op \in {"start", "submit", "pass", "fail"} /\ r.pc = "write"
             => tasks'[r.task].assignedTo \in Housekeepers
      BY <3>1, <1>1 DEF Witnessed, Found, Asked, TaskOps, Target
    <3>3. r.op = "pass" /\ r.pc \in {"room", "promote"} => Evidence("pass", tasks'[r.task])
      BY <3>1, <1>1, EvidenceKept DEF Witnessed, Found, Asked, TaskOps, Target
    <3>4. r.op \in TaskOps \cup {"create"} /\ r.pc = "audit"
             => tasks'[r.task] # Null /\ Evidence(r.op, tasks'[r.task])
      BY <3>1, <1>1, EvidenceKept DEF Witnessed, Asked
    <3> QED BY <3>1, <3>2, <3>3, <3>4 DEF Witnessed, Evidence
  <2> QED BY <2>1, <2>2
<1>3. AuditJustified'
  <2> SUFFICES ASSUME NEW op \in TaskOps \cup {"create"}, NEW t \in Tasks, <<op, t>> \in audit'
               PROVE  tasks'[t] # Null /\ Evidence(op, tasks'[t])
    BY DEF AuditJustified, Evidence, TaskOps
  <2>1. tasks[t] # Null /\ Evidence(op, tasks[t])
    BY DEF WorkInv, AuditJustified
  <2> QED BY <2>1, <1>1, EvidenceKept
<1> QED BY <1>2, <1>3 DEF WorkInv, RowInv

\* What each update proves about the row it leaves
LEMMA UpdatesProve ==
    ASSUME NEW row \in Row, RowInv(row), NEW r \in RequestType, Asked(r), r.pc = "write",
           r.op \in {"start", "submit", "pass", "fail"} => row.assignedTo \in Housekeepers
    PROVE  /\ r.op = "assign" => RowInv(Assigned(row, r)) /\ Evidence("assign", Assigned(row, r))
           /\ r.op = "start" => RowInv(Started(row, r)) /\ Evidence("start", Started(row, r))
           /\ r.op = "submit" => RowInv(Submitted(row, r)) /\ Evidence("submit", Submitted(row, r))
           /\ r.op \in {"pass", "fail"}
                 => RowInv(Inspected(row, r)) /\ Evidence(r.op, Inspected(row, r))
           /\ r.op = "cancel" => RowInv(Cancelled(row)) /\ Evidence("cancel", Cancelled(row))
<1>1. ASSUME r.op = "assign"
      PROVE  RowInv(Assigned(row, r)) /\ Evidence("assign", Assigned(row, r))
  <2>1. r.user \in Housekeepers /\ r.user # Null
    BY <1>1 DEF Asked, Users
  <2> QED BY <2>1 DEF RowInv, Evidence, Assigned, Row
<1>2. ASSUME r.op = "start" PROVE RowInv(Started(row, r)) /\ Evidence("start", Started(row, r))
  <2>1. r.at # Null
    BY <1>2 DEF Asked, Time
  <2> QED BY <1>2, <2>1 DEF RowInv, Evidence, Started, Row
<1>3. ASSUME r.op = "submit" PROVE RowInv(Submitted(row, r)) /\ Evidence("submit", Submitted(row, r))
  BY <1>3 DEF RowInv, Evidence, Submitted, Row
<1>4. ASSUME r.op = "pass" PROVE RowInv(Inspected(row, r)) /\ Evidence(r.op, Inspected(row, r))
  <2>1. r.user \in Supervisors /\ r.at \in Time /\ r.user # Null /\ r.at # Null
    BY <1>4 DEF Asked, Users, Time
  <2> QED BY <1>4, <2>1 DEF RowInv, Evidence, Inspected, Row, Target
<1>5. ASSUME r.op = "fail" PROVE RowInv(Inspected(row, r)) /\ Evidence(r.op, Inspected(row, r))
  <2>1. r.user # Null /\ r.at # Null
    BY <1>5 DEF Asked, Users, Time
  <2> QED BY <1>5, <2>1 DEF RowInv, Evidence, Inspected, Row, Target
<1>6. RowInv(Cancelled(row)) /\ Evidence("cancel", Cancelled(row))
  BY DEF RowInv, Evidence, Cancelled, Row
<1> QED BY <1>1, <1>2, <1>3, <1>4, <1>5, <1>6

LEMMA WorkStep ==
    ASSUME TypeInv, FreshInv, WorkInv, TypeInv', NEW q \in Slots, Receive(q) \/ Step(q) \/ Fail(q)
    PROVE  WorkInv'
<1> DEFINE old == req[q]
<1> USE DEF AtCall
<1>0. /\ old \in RequestType /\ Asked(old) /\ Found(old) /\ Witnessed(old)
      /\ tasks \in [Tasks -> OrNull(Row)] /\ req \in [Slots -> RequestType]
      /\ \A t \in Tasks : tasks[t] # Null => RowInv(tasks[t]) /\ tasks[t] \in Row
  BY DEF TypeInv, TypeOK, WorkInv, OrNull
<1>1. \A t \in Tasks : tasks[t] # Null => KeepsRecord(tasks[t], tasks'[t])
  BY KeepNext DEF Next
\* Steps that leave the table of tasks alone
<1>2. ASSUME NEW r, req' = [req EXCEPT ![q] = r], Witnessed(r), tasks' = tasks,
             audit' \subseteq audit \cup {<<old.op, Subject(old)>>},
             audit' = audit \/ old.pc = "audit"
      PROVE  WorkInv'
  <2>1. Witnessed(req[q])'
    BY <1>0, <1>2 DEF Witnessed
  <2>2. ASSUME NEW op \in TaskOps \cup {"create"}, NEW t \in Tasks,
               <<op, t>> \in audit', <<op, t>> \notin audit
        PROVE  tasks[t] # Null /\ Evidence(op, tasks[t])
    <3>1. op = old.op /\ t = old.task /\ old.pc = "audit"
      BY <1>2, <2>2 DEF Subject, TaskOps, Target
    <3> QED BY <1>0, <2>2, <3>1 DEF Witnessed
  <2>3. \A p \in Slots : p # q => req'[p] = req[p]
    BY <1>0, <1>2
  <2> QED BY <1>0, <1>1, <1>2, <2>1, <2>2, <2>3, WorkKept
<1>3. ASSUME Answer(q), tasks' = tasks, audit' \subseteq audit \cup {<<old.op, Subject(old)>>},
             audit' = audit \/ old.pc = "audit"
      PROVE  WorkInv'
  <2>1. Witnessed(Idle)
    BY DEF Witnessed, Idle, Request
  <2> QED BY <1>2, <1>3, <2>1 DEF Answer
<1>4. CASE Receive(q)
  <2> DEFINE All == CreateRequests \cup AssignRequests \cup StartRequests \cup SubmitRequests
                    \cup InspectRequests \cup CancelRequests \cup RoomStatusRequests
  <2>1. PICK new \in All : req' = [req EXCEPT ![q] = new]
    BY <1>4 DEF Receive, Accept
  <2>2. new.pc = "read"
    BY <2>1 DEF CreateRequests, AssignRequests, StartRequests, SubmitRequests, InspectRequests,
       CancelRequests, RoomStatusRequests, Request
  <2>3. tasks' = tasks /\ audit' = audit
    BY <1>4 DEF Receive, Accept
  <2> HIDE DEF All
  <2> QED BY <1>2, <2>1, <2>2, <2>3 DEF Witnessed
<1>5. ASSUME NEW pc \in PCs, Await(q, pc), tasks' = tasks, audit' = audit,
             Witnessed([old EXCEPT !.pc = pc])
      PROVE  WorkInv'
  <2> DEFINE r == [old EXCEPT !.pc = pc]
  <2>1. req' = [req EXCEPT ![q] = r] /\ Witnessed(r)
    BY <1>5 DEF Await
  <2> HIDE DEF r
  <2> QED BY <1>2, <1>5, <2>1
<1>6. CASE ReadTask(q)
  <2>1. CASE Proceeds(old) /\ req' = [req EXCEPT ![q] = WithRow(old, tasks[old.task])]
    <3> DEFINE r == WithRow(old, tasks[old.task])
               row == tasks[old.task]
    <3>1. old.op \in TaskOps /\ old.task \in Tasks /\ row \in Row /\ RowInv(row) /\ now \in Time
          /\ (old.op # "assign" => TaskCanTransition(row.status, Target[old.op]))
      BY <1>0, <1>6, <2>1 DEF ReadTask, Asked, Proceeds, TypeInv, TypeOK
    <3>2. r.op = old.op /\ r.task = old.task /\ r.pc \in {"user", "write"}
      BY <1>0, <3>1, WithRowFields
    <3>3. old.op \in {"start", "submit", "pass", "fail"}
             => row.status \in {"ASSIGNED", "IN_PROGRESS", "INSPECTION"}
      BY <3>1 DEF Target, TaskCanTransition, TaskTransitions, Row, TaskStatuses
    <3> HIDE DEF r
    <3>4. Witnessed(r)
      BY <3>1, <3>2, <3>3 DEF Witnessed, RowInv
    <3>5. req' = [req EXCEPT ![q] = r] /\ tasks' = tasks /\ audit' = audit
      BY <1>6, <2>1 DEF ReadTask, r
    <3> QED BY <1>2, <3>4, <3>5
  <2> QED BY <1>3, <1>6, <2>1 DEF ReadTask
\* Steps that write a row
<1>7. ASSUME NEW row \in Row, NEW pc \in {"audit", "room"}, Await(q, pc), UpdateTask(q, row),
             RowInv(row), Evidence(old.op, row), pc = "room" => old.op = "pass",
             old.op \in TaskOps \cup {"create"}
      PROVE  WorkInv'
  <2>1. old.task \in Tasks /\ tasks' = [tasks EXCEPT ![old.task] = row] /\ audit' = audit
    BY <1>0, <1>7 DEF UpdateTask, Asked
  <2>2. \A t \in Tasks : tasks'[t] = IF t = old.task THEN row ELSE tasks[t]
    BY <1>0, <2>1
  <2> DEFINE r == [old EXCEPT !.pc = pc]
  <2>3. r.op = old.op /\ r.pc = pc /\ r.task = old.task /\ req' = [req EXCEPT ![q] = r]
    BY <1>0, <1>7 DEF Await, RequestType
  <2> HIDE DEF r
  <2>4. req'[q] = r /\ \A p \in Slots : p # q => req'[p] = req[p]
    BY <1>0, <2>3
  <2>5. Witnessed(req[q])'
    BY <1>7, <2>1, <2>2, <2>3, <2>4 DEF Witnessed, Evidence
  <2> QED BY <1>0, <1>1, <1>7, <2>1, <2>2, <2>4, <2>5, WorkKept
<1>8. CASE CreateWrite(q)
  <2> DEFINE row == NewTask(old.room, old.notes)
  <2>1. row \in Row /\ RowInv(row) /\ Evidence("create", row)
    BY <1>0, <1>8 DEF CreateWrite, Asked, NewTask, Row, TaskStatuses, OrNull, RequestType, RowInv, Evidence
  <2>2. UpdateTask(q, row) /\ Await(q, "audit") /\ old.op = "create"
    BY <1>8 DEF CreateWrite
  <2> HIDE DEF row
  <2> QED BY <1>7, <2>1, <2>2
<1>9. ASSUME old.op \in TaskOps, old.pc = "write"
      PROVE  /\ tasks[old.task] \in Row /\ RowInv(tasks[old.task])
             /\ old.op \in {"start", "submit", "pass", "fail"}
                   => tasks[old.task].assignedTo \in Housekeepers
  BY <1>0, <1>9 DEF Asked, Found, Witnessed
<1>10. CASE AssignWrite(q)
  <2>1. old.op \in TaskOps
    BY <1>10 DEF AssignWrite, TaskOps, Target
  <2> QED BY <1>0, <1>7, <1>9, <1>10, <2>1, UpdatedRows, UpdatesProve DEF AssignWrite
<1>11. CASE StartWrite(q)
  <2>1. old.op \in TaskOps
    BY <1>11 DEF StartWrite, TaskOps, Target
  <2> QED BY <1>0, <1>7, <1>9, <1>11, <2>1, UpdatedRows, UpdatesProve DEF StartWrite
<1>12. CASE SubmitWrite(q)
  <2>1. old.op \in TaskOps
    BY <1>12 DEF SubmitWrite, TaskOps, Target
  <2> QED BY <1>0, <1>7, <1>9, <1>12, <2>1, UpdatedRows, UpdatesProve DEF SubmitWrite
<1>13. CASE InspectWrite(q)
  <2>1. old.op \in TaskOps
    BY <1>13 DEF InspectWrite, TaskOps, Target
  <2> QED BY <1>0, <1>7, <1>9, <1>13, <2>1, UpdatedRows, UpdatesProve DEF InspectWrite
<1>14. CASE CancelWrite(q)
  <2>1. old.op \in TaskOps
    BY <1>14 DEF CancelWrite, TaskOps, Target
  <2> QED BY <1>0, <1>7, <1>9, <1>14, <2>1, UpdatedRows, UpdatesProve DEF CancelWrite
\* Steps that only read, or touch a room
<1>15. CASE CreateReadRoom(q)
  <2>1. Witnessed([old EXCEPT !.pc = "write"])
    BY <1>0, <1>15 DEF Witnessed, CreateReadRoom, RequestType
  <2> QED BY <1>3, <1>5, <1>15, <2>1 DEF CreateReadRoom, PCs
<1>16. CASE AssignReadUser(q)
  <2>1. Witnessed([old EXCEPT !.pc = "write"])
    BY <1>0, <1>16 DEF Witnessed, AssignReadUser, RequestType
  <2> QED BY <1>3, <1>5, <1>16, <2>1 DEF AssignReadUser, PCs
<1>17. CASE PromoteReadRoom(q)
  <2>1. Witnessed([old EXCEPT !.pc = "promote"]) /\ Witnessed([old EXCEPT !.pc = "audit"])
    BY <1>0, <1>17 DEF Witnessed, PromoteReadRoom, RequestType, Found, TaskOps, Target
  <2> QED BY <1>5, <1>17, <2>1 DEF PromoteReadRoom, PCs
<1>18. CASE PromoteWrite(q)
  <2>1. Witnessed([old EXCEPT !.pc = "audit"])
    BY <1>0, <1>18 DEF Witnessed, PromoteWrite, RequestType, Found, TaskOps, Target
  <2> QED BY <1>5, <1>18, <2>1 DEF PromoteWrite, PCs
<1>19. CASE RoomStatusRead(q)
  <2>1. Witnessed([old EXCEPT !.pc = "write"])
    BY <1>0, <1>19 DEF Witnessed, RoomStatusRead, RequestType
  <2> QED BY <1>3, <1>5, <1>19, <2>1 DEF RoomStatusRead, PCs
<1>20. CASE RoomStatusWrite(q)
  <2>1. Witnessed([old EXCEPT !.pc = "audit"])
    BY <1>0, <1>20 DEF Witnessed, RoomStatusWrite, RequestType, TaskOps, Target
  <2> QED BY <1>5, <1>20, <2>1 DEF RoomStatusWrite, PCs
<1>21. CASE AppendAudit(q) \/ Fail(q)
  BY <1>3, <1>21 DEF AppendAudit, Fail
<1> QED
  BY <1>4, <1>6, <1>8, <1>10, <1>11, <1>12, <1>13, <1>14, <1>15, <1>16, <1>17, <1>18, <1>19, <1>20,
     <1>21
  DEF Step

LEMMA WorkInvariant == Spec => [](TypeInv /\ WorkInv)
<1>1. Init => TypeInv /\ FreshInv /\ WorkInv
  BY TypeInit DEF Init, FreshInv, WorkInv, AuditJustified, Witnessed, Idle, Request
<1>2. TypeInv /\ FreshInv /\ WorkInv /\ [Next]_vars => WorkInv'
  <2> SUFFICES ASSUME TypeInv, FreshInv, WorkInv, [Next]_vars PROVE WorkInv'
    OBVIOUS
  <2>1. TypeInv'
    BY TypeNext
  <2>2. CASE Tick \/ UNCHANGED vars
    <3>1. tasks' = tasks /\ req' = req /\ audit' = audit
      BY <2>2 DEF Tick, vars
    <3> QED BY <3>1 DEF WorkInv, RowInv, Witnessed, AuditJustified, Evidence
  <2> QED BY <2>1, <2>2, WorkStep DEF Next
<1> QED BY <1>1, <1>2, TypeNext, PTL DEF Spec

\* A task past PENDING and not cancelled has a HOUSEKEEPING user as its assignee,
\* although every handler decides on a status that may be stale when it writes.
THEOREM AssigneeAlwaysKnown == Spec => []AssigneeKnown
BY WorkInvariant, WorkInvImplies, PTL

\* A PENDING task is as createTask left it: nobody's work is put back to PENDING,
\* although assignTask pivots through it.
THEOREM PendingAlwaysUntouched == Spec => []PendingUntouched
BY WorkInvariant, WorkInvImplies, PTL

\* A COMPLETED task names its inspector and one date of inspection and completion,
\* whichever inspections of it were in flight.
THEOREM InspectionAlwaysRecorded == Spec => []InspectionRecorded
BY WorkInvariant, WorkInvImplies, PTL

\* inspectTask touches a room only for a task of that room whose pass was committed.
THEOREM PromotionAlwaysBacked == Spec => []PromotionBacked
BY WorkInvariant, WorkInvImplies, PTL

\* The audit log reports only what the rows show to have happened.
THEOREM AuditAlwaysJustified == Spec => []AuditJustified
BY WorkInvariant, WorkInvImplies, PTL

-----------------------------------------------------------------------------
(* Handlers of one row that keep apart: tasks walk their table *)

LEMMA ApartAlways == ApartSpec => []Apart
<1>1. Init => Apart
  BY DEF Init, Apart, ReliesOnTask, ReliesOnRoom, AtCall, Idle, Request, TaskOps, Target
<1>2. Apart /\ [Next /\ Apart']_vars => Apart'
  BY DEF vars, Apart, ReliesOnTask, ReliesOnRoom, AtCall
<1> QED BY <1>1, <1>2, PTL DEF ApartSpec

LEMMA ApartIsSpec == ApartSpec => Spec
<1>1. [Next /\ Apart']_vars => [Next]_vars
  OBVIOUS
<1> QED BY <1>1, PTL DEF ApartSpec, Spec

\* One request at a time is a way of keeping apart.
Serial == \A p, q \in Slots : p = q

THEOREM SerialIsApart ==
    ASSUME Serial
    PROVE  Spec => ApartSpec
<1>1. [Next]_vars => [Next /\ Apart']_vars
  BY DEF Serial, Apart
<1> QED BY <1>1, PTL DEF ApartSpec, Spec

\* While a handler relies on a row, no other handler writes it.
LEMMA OthersKeepOff ==
    ASSUME TypeInv, FreshInv, Apart, NEW q \in Slots, Receive(q) \/ Step(q) \/ Fail(q),
           NEW p \in Slots, p # q, NEW t \in Tasks, ReliesOnTask(p, t)
    PROVE  tasks'[t] = tasks[t]
<1> SUFFICES ASSUME tasks' # tasks PROVE tasks'[t] = tasks[t]
  OBVIOUS
<1>1. tasks \in [Tasks -> OrNull(Row)] /\ tasks[t] # Null
  BY DEF TypeInv, TypeOK, Found, ReliesOnTask
<1>2. ASSUME NEW row, UpdateTask(q, row), req[q].task # t PROVE tasks'[t] = tasks[t]
  BY <1>1, <1>2 DEF UpdateTask
<1>3. CASE CreateWrite(q)
  <2>1. tasks[req[q].task] = Null
    BY <1>3 DEF CreateWrite, AtCall, FreshInv
  <2> QED BY <1>1, <1>2, <1>3, <2>1 DEF CreateWrite
<1>4. CASE AssignWrite(q) \/ StartWrite(q) \/ SubmitWrite(q) \/ InspectWrite(q) \/ CancelWrite(q)
  <2>1. req[q].op \in TaskOps /\ req[q].pc = "write"
    BY <1>4 DEF AssignWrite, StartWrite, SubmitWrite, InspectWrite, CancelWrite, AtCall, TaskOps, Target
  <2>2. req[q].task # t
    BY <2>1 DEF Apart, ReliesOnTask
  <2> QED
    BY <1>2, <1>4, <2>2 DEF AssignWrite, StartWrite, SubmitWrite, InspectWrite, CancelWrite
<1> QED
  BY <1>3, <1>4 DEF Step, Receive, Accept, Fail, CreateReadRoom, ReadTask, AssignReadUser,
     PromoteReadRoom, PromoteWrite, RoomStatusRead, RoomStatusWrite, AppendAudit

\* The status the handler validated is the one the row still has.
Current(r) ==
    r.op \in TaskOps =>
        /\ r.pc = "user" => r.seen = tasks[r.task].status
        /\ r.pc = "write" =>
              IF r.op = "assign" THEN AssignableFrom(tasks[r.task].status)
              ELSE TaskCanTransition(tasks[r.task].status, Target[r.op])

CurrentInv == \A q \in Slots : Current(req[q])

LEMMA CurrentStep ==
    ASSUME TypeInv, FreshInv, Apart, CurrentInv, NEW q \in Slots,
           Receive(q) \/ Step(q) \/ Fail(q)
    PROVE  CurrentInv'
<1> DEFINE old == req[q]
<1> USE DEF AtCall
<1>0. old \in RequestType /\ Asked(old) /\ Found(old) /\ TypeOK
  BY DEF TypeInv, TypeOK
<1>a. ASSUME NEW p \in Slots, p # q, req'[p] = req[p] PROVE Current(req[p])'
  <2>1. Current(req[p]) /\ Asked(req[p])
    BY DEF CurrentInv, TypeInv
  <2>2. CASE req[p].op \in TaskOps /\ req[p].pc \in {"user", "write"}
    <3>1. PICK t \in Tasks : t = req[p].task
      BY <2>1, <2>2 DEF Asked
    <3>2. tasks'[t] = tasks[t]
      BY <1>a, <2>2, <3>1, OthersKeepOff DEF ReliesOnTask
    <3> QED BY <1>a, <2>1, <3>1, <3>2 DEF Current
  <2> QED BY <1>a, <2>2 DEF Current
<1>b. ASSUME NEW r, req' = [req EXCEPT ![q] = r], Current(r)'
      PROVE  CurrentInv'
  <2>1. req'[q] = r /\ \A p \in Slots : p # q => req'[p] = req[p]
    BY <1>0, <1>b DEF TypeOK
  <2>2. Current(req[q])'
    BY <1>b, <2>1 DEF Current
  <2> QED BY <1>a, <2>1, <2>2 DEF CurrentInv
<1>1. ASSUME NEW r, req' = [req EXCEPT ![q] = r], r.op \notin TaskOps \/ r.pc \notin {"user", "write"}
      PROVE  CurrentInv'
  BY <1>1, <1>b DEF Current
<1>2. ASSUME NEW pc \in PCs, Await(q, pc), pc # "write" \/ old.op \notin TaskOps, pc # "user" PROVE CurrentInv'
  <2> DEFINE r == [old EXCEPT !.pc = pc]
  <2>1. r.op = old.op /\ r.pc = pc /\ req' = [req EXCEPT ![q] = r]
    BY <1>0, <1>2 DEF Await, RequestType
  <2> HIDE DEF r
  <2> QED BY <1>1, <1>2, <2>1
<1>3. ASSUME Answer(q) PROVE CurrentInv'
  <2>1. Idle.op \notin TaskOps
    BY DEF Idle, Request, TaskOps, Target
  <2> QED BY <1>1, <1>3, <2>1 DEF Answer
<1>4. CASE Receive(q)
  <2> DEFINE All == CreateRequests \cup AssignRequests \cup StartRequests \cup SubmitRequests
                    \cup InspectRequests \cup CancelRequests \cup RoomStatusRequests
  <2>1. PICK new \in All : req' = [req EXCEPT ![q] = new]
    BY <1>4 DEF Receive, Accept
  <2>2. new.pc = "read"
    BY <2>1 DEF CreateRequests, AssignRequests, StartRequests, SubmitRequests, InspectRequests,
       CancelRequests, RoomStatusRequests, Request
  <2> HIDE DEF All
  <2> QED BY <1>1, <2>1, <2>2
<1>5. CASE ReadTask(q)
  <2>1. CASE Proceeds(old) /\ req' = [req EXCEPT ![q] = WithRow(old, tasks[old.task])]
    <3> DEFINE row == tasks[old.task]
    <3>0. PICK r : r = WithRow(old, row)
      OBVIOUS
    <3>1. old.task \in Tasks /\ row \in Row /\ now \in Time /\ tasks' = tasks
          /\ (old.op # "assign" => TaskCanTransition(row.status, Target[old.op]))
      BY <1>0, <1>5, <2>1 DEF ReadTask, Asked, Proceeds, TypeOK, OrNull
    <3>2. r.op = old.op /\ r.task = old.task /\ r.pc = IF old.op = "assign" THEN "user" ELSE "write"
      BY <1>0, <3>0, <3>1, WithRowFields
    <3>3. old.op = "assign" => r.seen = row.status
      BY <1>0, <3>0 DEF WithRow, RequestType
    <3>4. Current(r)'
      BY <3>1, <3>2, <3>3 DEF Current
    <3>5. req' = [req EXCEPT ![q] = r]
      BY <2>1, <3>0
    <3> QED BY <1>b, <3>4, <3>5
  <2> QED BY <1>3, <1>5, <2>1 DEF ReadTask
<1>6. CASE AssignReadUser(q)
  <2>1. CASE Await(q, "write") /\ AssignableFrom(old.seen)
    <3>0. PICK r : r = [old EXCEPT !.pc = "write"]
      OBVIOUS
    <3>1. r.op = "assign" /\ r.pc = "write" /\ r.task = old.task /\ req' = [req EXCEPT ![q] = r]
      BY <1>0, <1>6, <2>1, <3>0 DEF Await, RequestType, AssignReadUser
    <3>2. old.seen = tasks[old.task].status
      BY <1>6 DEF AssignReadUser, CurrentInv, Current, TaskOps, Target
    <3>3. tasks' = tasks
      BY <1>6 DEF AssignReadUser
    <3>4. Current(r)'
      BY <2>1, <3>1, <3>2, <3>3 DEF Current
    <3> QED BY <1>b, <3>1, <3>4
  <2> QED BY <1>3, <1>6, <2>1 DEF AssignReadUser
<1>7. CASE AssignWrite(q) \/ StartWrite(q) \/ SubmitWrite(q) \/ CancelWrite(q) \/ CreateWrite(q)
           \/ PromoteWrite(q) \/ RoomStatusWrite(q)
  BY <1>2, <1>7 DEF AssignWrite, StartWrite, SubmitWrite, CancelWrite, CreateWrite,
     PromoteWrite, RoomStatusWrite, PCs
<1>8. CASE InspectWrite(q) \/ PromoteReadRoom(q)
  BY <1>2, <1>8 DEF InspectWrite, PromoteReadRoom, PCs
<1>9. CASE CreateReadRoom(q) \/ RoomStatusRead(q)
  BY <1>2, <1>3, <1>9 DEF CreateReadRoom, RoomStatusRead, PCs, TaskOps, Target
<1>10. CASE AppendAudit(q) \/ Fail(q)
  BY <1>3, <1>10 DEF AppendAudit, Fail
<1> QED BY <1>4, <1>5, <1>6, <1>7, <1>8, <1>9, <1>10 DEF Step

LEMMA LegalStep ==
    ASSUME TypeInv, FreshInv, CurrentInv, [Next]_vars, NEW t \in Tasks, tasks[t] # Null,
           tasks'[t].status # tasks[t].status
    PROVE  TaskCanTransition(tasks[t].status, tasks'[t].status)
<1>1. PICK q \in Slots : Step(q) /\ tasks' # tasks
  BY DEF Next, vars, Tick, Receive, Accept, Fail
<1>2. /\ req[q] \in RequestType /\ Asked(req[q]) /\ Found(req[q])
      /\ tasks \in [Tasks -> OrNull(Row)] /\ tasks[t] \in Row
  BY DEF TypeInv, TypeOK, OrNull
<1>3. ASSUME NEW row, UpdateTask(q, row) PROVE req[q].task = t /\ tasks'[t] = row
  BY <1>2, <1>3 DEF UpdateTask
<1> USE DEF AtCall, TaskOps, Target
<1>4. CASE CreateWrite(q)
  <2>1. tasks[req[q].task] = Null
    BY <1>4 DEF CreateWrite, FreshInv
  <2> QED BY <1>3, <1>4, <2>1 DEF CreateWrite
<1>5. CASE AssignWrite(q)
  <2>1. req[q].task = t /\ tasks'[t] = Assigned(tasks[t], req[q])
    BY <1>3, <1>5 DEF AssignWrite
  <2>2. tasks'[t].status = "ASSIGNED"
    BY <1>2, <2>1 DEF Assigned, Row
  <2>3. AssignableFrom(tasks[t].status)
    BY <1>5, <2>1 DEF AssignWrite, CurrentInv, Current
  <2> QED BY <1>5, <2>2, <2>3 DEF AssignWrite, AssignableFrom
<1>6. CASE StartWrite(q)
  <2>1. req[q].task = t /\ tasks'[t] = Started(tasks[t], req[q])
    BY <1>3, <1>6 DEF StartWrite
  <2>2. tasks'[t].status = "IN_PROGRESS"
    BY <1>2, <2>1 DEF Started, Row
  <2>3. TaskCanTransition(tasks[t].status, Target[req[q].op])
    BY <1>6, <2>1 DEF StartWrite, CurrentInv, Current
  <2> QED BY <1>6, <2>2, <2>3 DEF StartWrite
<1>7. CASE SubmitWrite(q)
  <2>1. req[q].task = t /\ tasks'[t] = Submitted(tasks[t], req[q])
    BY <1>3, <1>7 DEF SubmitWrite
  <2>2. tasks'[t].status = "INSPECTION"
    BY <1>2, <2>1 DEF Submitted, Row
  <2>3. TaskCanTransition(tasks[t].status, Target[req[q].op])
    BY <1>7, <2>1 DEF SubmitWrite, CurrentInv, Current
  <2> QED BY <1>7, <2>2, <2>3 DEF SubmitWrite
<1>8. CASE InspectWrite(q)
  <2>1. req[q].task = t /\ tasks'[t] = Inspected(tasks[t], req[q])
    BY <1>3, <1>8 DEF InspectWrite
  <2>2. tasks'[t].status = Target[req[q].op]
    BY <1>2, <2>1 DEF Inspected, Row
  <2>3. TaskCanTransition(tasks[t].status, Target[req[q].op])
    BY <1>8, <2>1 DEF InspectWrite, CurrentInv, Current
  <2> QED BY <1>8, <2>2, <2>3 DEF InspectWrite
<1>9. CASE CancelWrite(q)
  <2>1. req[q].task = t /\ tasks'[t] = Cancelled(tasks[t])
    BY <1>3, <1>9 DEF CancelWrite
  <2>2. tasks'[t].status = "CANCELLED"
    BY <1>2, <2>1 DEF Cancelled, Row
  <2>3. TaskCanTransition(tasks[t].status, Target[req[q].op])
    BY <1>9, <2>1 DEF CancelWrite, CurrentInv, Current
  <2> QED BY <1>9, <2>2, <2>3 DEF CancelWrite
<1> QED
  BY <1>1, <1>4, <1>5, <1>6, <1>7, <1>8, <1>9
  DEF Step, CreateReadRoom, ReadTask, AssignReadUser, PromoteReadRoom, PromoteWrite,
      RoomStatusRead, RoomStatusWrite, AppendAudit

LEMMA CurrentInit == Init => CurrentInv
  BY DEF Init, CurrentInv, Current, Idle, Request, TaskOps, Target

LEMMA CurrentNext ==
    ASSUME TypeInv, FreshInv, Apart, CurrentInv, [Next]_vars
    PROVE  CurrentInv'
<1>1. CASE Tick \/ UNCHANGED vars
  BY <1>1 DEF Tick, vars, CurrentInv, Current
<1> QED BY <1>1, CurrentStep DEF Next

LEMMA CurrentInvariant == ApartSpec => [](TypeInv /\ FreshInv /\ CurrentInv)
<1>1. Init => TypeInv /\ FreshInv /\ CurrentInv
  BY TypeInit, CurrentInit DEF Init, FreshInv, Idle, Request
<1>2. TypeInv /\ FreshInv /\ Apart /\ CurrentInv /\ [Next]_vars => CurrentInv'
  BY CurrentNext
<1>3. [Next /\ Apart']_vars => [Next]_vars
  OBVIOUS
<1> QED BY <1>1, <1>2, <1>3, ApartAlways, TypeNext, PTL DEF ApartSpec

\* Where handlers of one task keep apart, housekeeping.service.ts moves a task only
\* along the table of task-status.state-machine.ts, whatever else is in flight and
\* wherever requests fail.
THEOREM ApartStepsLegal == ApartSpec => TaskStepsLegal
<1>1. TypeInv /\ FreshInv /\ CurrentInv /\ [Next]_vars
        => [\A t \in Tasks : tasks[t] # Null /\ tasks'[t].status # tasks[t].status
              => TaskCanTransition(tasks[t].status, tasks'[t].status)]_vars
  BY LegalStep
<1> QED BY <1>1, CurrentInvariant, ApartIsSpec, PTL DEF Spec, TaskStepsLegal

\* Served one request at a time, tasks walk their table.
THEOREM SerialStepsLegal ==
    ASSUME Serial
    PROVE  Spec => TaskStepsLegal
  BY SerialIsApart, ApartStepsLegal, PTL

LEMMA CompletedNext ==
    ASSUME TypeInv, FreshInv, CurrentInv, [Next]_vars, NEW t \in Tasks, "COMPLETED" \in Statuses(t)
    PROVE  tasks'[t].status = "COMPLETED"
<1> SUFFICES ASSUME tasks'[t].status # "COMPLETED" PROVE FALSE
  OBVIOUS
<1>1. tasks[t] # Null /\ tasks[t].status = "COMPLETED"
  BY DEF Statuses
<1>2. TaskCanTransition(tasks[t].status, tasks'[t].status)
  BY <1>1, LegalStep
<1> QED BY <1>1, <1>2 DEF TaskCanTransition, TaskTransitions

\* Where handlers of one task keep apart, COMPLETED is final: that is all the code
\* lacks of what task-status.state-machine.ts:20 says.
THEOREM ApartCompletedIsTerminal == ApartSpec => CompletedIsTerminal
<1>1. TypeInv /\ FreshInv /\ CurrentInv /\ [Next]_vars
        => [\A t \in Tasks : "COMPLETED" \in Statuses(t) => tasks'[t].status = "COMPLETED"]_vars
  BY CompletedNext
<1> QED BY <1>1, CurrentInvariant, ApartIsSpec, PTL DEF Spec, CompletedIsTerminal

-----------------------------------------------------------------------------
(* Handlers of one row that keep apart: dates fit, and notes are as they were asked *)

Dated(row) ==
    /\ (row.completedAt # Null) = (row.status = "COMPLETED")
    /\ row.startedAt # Null => row.startedAt <= now
    /\ row.startedAt # Null /\ row.completedAt # Null => row.startedAt <= row.completedAt

\* The date a handler is about to write is no later than now, and an inspection's
\* is no earlier than the start of the work.
Stamped(r) ==
    r.op \in {"start", "pass", "fail"} /\ r.pc = "write"
        => /\ r.at <= now
           /\ r.op # "start" /\ tasks[r.task].startedAt # Null => tasks[r.task].startedAt <= r.at

\* The notes it falls back on are the row's.
Noted(r) ==
    r.op \in {"submit", "pass", "fail"} /\ r.pc = "write" => r.kept = tasks[r.task].notes

DatedInv ==
    /\ \A t \in Tasks : tasks[t] # Null => Dated(tasks[t])
    /\ \A q \in Slots : Stamped(req[q]) /\ Noted(req[q])

LEMMA CompletedIsLast ==
    ASSUME NEW s \in TaskStatuses
    PROVE  /\ \A to \in TaskStatuses : TaskCanTransition(s, to) => s # "COMPLETED"
           /\ AssignableFrom(s) => s # "COMPLETED"
  BY DEF TaskCanTransition, TaskTransitions, AssignableFrom

\* Each update of a row that is not COMPLETED leaves its dates in order.
LEMMA UpdatesDate ==
    ASSUME NEW row \in Row, NEW r \in RequestType, Asked(r), r.pc = "write", now \in Time,
           Dated(row), row.status # "COMPLETED",
           r.op \in {"start", "pass", "fail"} => r.at <= now,
           r.op \in {"pass", "fail"} /\ row.startedAt # Null => row.startedAt <= r.at
    PROVE  /\ Dated(Assigned(row, r)) /\ Dated(Submitted(row, r)) /\ Dated(Cancelled(row))
           /\ r.op = "start" => Dated(Started(row, r))
           /\ r.op \in {"pass", "fail"} => Dated(Inspected(row, r))
<1>1. Dated(Assigned(row, r)) /\ Dated(Submitted(row, r)) /\ Dated(Cancelled(row))
  BY DEF Dated, Assigned, Submitted, Cancelled, Row
<1>2. ASSUME r.op = "start" PROVE Dated(Started(row, r))
  BY <1>2 DEF Dated, Started, Row
<1>3. ASSUME r.op \in {"pass", "fail"} PROVE Dated(Inspected(row, r))
  <2>1. r.at \in Nat /\ r.at # Null
    BY <1>3 DEF Asked, Time
  <2>2. PICK new : new = Inspected(row, r)
    OBVIOUS
  <2>3. /\ new.startedAt = row.startedAt
        /\ new.status = IF r.op = "pass" THEN "COMPLETED" ELSE "IN_PROGRESS"
        /\ new.completedAt = IF r.op = "pass" THEN r.at ELSE row.completedAt
    BY <1>3, <2>2 DEF Inspected, Row, Target
  <2>4. row.completedAt = Null
    BY DEF Dated
  <2>5. Dated(new)
    BY <1>3, <2>1, <2>3, <2>4 DEF Dated
  <2> QED BY <2>2, <2>5
<1> QED BY <1>1, <1>2, <1>3

LEMMA DatedStep ==
    ASSUME TypeInv, FreshInv, Apart, CurrentInv, DatedInv, NEW q \in Slots,
           Receive(q) \/ Step(q) \/ Fail(q)
    PROVE  DatedInv'
<1> DEFINE old == req[q]
<1> USE DEF AtCall
<1>0. /\ old \in RequestType /\ Asked(old) /\ Found(old) /\ TypeOK /\ Stamped(old) /\ now \in Time
      /\ tasks \in [Tasks -> OrNull(Row)]
  BY DEF TypeInv, TypeOK, DatedInv
<1>a. ASSUME NEW p \in Slots, p # q, req'[p] = req[p] PROVE (Stamped(req[p]) /\ Noted(req[p]))'
  <2>1. Stamped(req[p]) /\ Noted(req[p]) /\ Asked(req[p])
    BY DEF DatedInv, TypeInv
  <2>2. now' = now
    BY DEF Receive, Accept, Step, Fail, UpdateTask, CreateReadRoom, CreateWrite, ReadTask, AssignReadUser,
       AssignWrite, StartWrite, SubmitWrite, InspectWrite, CancelWrite, PromoteReadRoom, PromoteWrite,
       RoomStatusRead, RoomStatusWrite, AppendAudit
  <2>3. CASE req[p].op \in {"start", "submit", "pass", "fail"} /\ req[p].pc = "write"
    <3>1. PICK t \in Tasks : t = req[p].task
      BY <2>1, <2>3 DEF Asked, TaskOps, Target
    <3>2. tasks'[t] = tasks[t]
      BY <1>a, <2>3, <3>1, OthersKeepOff DEF ReliesOnTask, TaskOps, Target
    <3> QED BY <1>a, <2>1, <2>2, <3>1, <3>2 DEF Stamped, Noted
  <2> QED BY <1>a, <2>3 DEF Stamped, Noted
<1>b. ASSUME NEW r, req' = [req EXCEPT ![q] = r], (Stamped(r) /\ Noted(r))'
      PROVE  \A p \in Slots : (Stamped(req[p]) /\ Noted(req[p]))'
  <2>1. req'[q] = r /\ \A p \in Slots : p # q => req'[p] = req[p]
    BY <1>0, <1>b DEF TypeOK
  <2>2. (Stamped(req[q]) /\ Noted(req[q]))'
    BY <1>b, <2>1 DEF Stamped, Noted
  <2> QED BY <1>a, <2>1, <2>2
<1>1. ASSUME NEW r, req' = [req EXCEPT ![q] = r], r.op \notin {"start", "submit", "pass", "fail"} \/ r.pc # "write"
      PROVE  \A p \in Slots : (Stamped(req[p]) /\ Noted(req[p]))'
  BY <1>1, <1>b DEF Stamped, Noted
<1>2. ASSUME NEW pc \in PCs, Await(q, pc), pc # "write" \/ old.op \notin {"start", "submit", "pass", "fail"}
      PROVE  \A p \in Slots : (Stamped(req[p]) /\ Noted(req[p]))'
  <2> DEFINE r == [old EXCEPT !.pc = pc]
  <2>1. r.op = old.op /\ r.pc = pc /\ req' = [req EXCEPT ![q] = r]
    BY <1>0, <1>2 DEF Await, RequestType
  <2> HIDE DEF r
  <2> QED BY <1>1, <1>2, <2>1
<1>3. ASSUME Answer(q) PROVE \A p \in Slots : (Stamped(req[p]) /\ Noted(req[p]))'
  <2>1. Idle.pc # "write"
    BY DEF Idle, Request
  <2> QED BY <1>1, <1>3, <2>1 DEF Answer
<1>4. ASSUME tasks' = tasks, now' = now PROVE \A t \in Tasks : tasks'[t] # Null => Dated(tasks[t])'
  BY <1>4 DEF DatedInv, Dated
<1>5. ASSUME NEW row, UpdateTask(q, row), old.task \in Tasks,
             Dated(row)
      PROVE  \A t \in Tasks : tasks'[t] # Null => Dated(tasks[t])'
  <2>1. now' = now /\ tasks' = [tasks EXCEPT ![old.task] = row]
    BY <1>5 DEF UpdateTask
  <2>2. \A t \in Tasks : tasks'[t] = IF t = old.task THEN row ELSE tasks[t]
    BY <1>0, <1>5, <2>1
  <2> QED BY <1>5, <2>1, <2>2 DEF DatedInv, Dated
<1>6. CASE Receive(q)
  <2> DEFINE All == CreateRequests \cup AssignRequests \cup StartRequests \cup SubmitRequests
                    \cup InspectRequests \cup CancelRequests \cup RoomStatusRequests
  <2>1. PICK new \in All : req' = [req EXCEPT ![q] = new]
    BY <1>6 DEF Receive, Accept
  <2>2. new.pc = "read"
    BY <2>1 DEF CreateRequests, AssignRequests, StartRequests, SubmitRequests, InspectRequests,
       CancelRequests, RoomStatusRequests, Request
  <2> HIDE DEF All
  <2>3. tasks' = tasks /\ now' = now
    BY <1>6 DEF Receive, Accept
  <2>4. \A p \in Slots : (Stamped(req[p]) /\ Noted(req[p]))'
    BY <1>1, <2>1, <2>2
  <2> QED BY <1>4, <2>3, <2>4 DEF DatedInv
<1>7. CASE ReadTask(q)
  <2>0. tasks' = tasks /\ now' = now
    BY <1>7 DEF ReadTask
  <2>1. CASE Proceeds(old) /\ req' = [req EXCEPT ![q] = WithRow(old, tasks[old.task])]
    <3> DEFINE row == tasks[old.task]
    <3>0. PICK r : r = WithRow(old, row)
      OBVIOUS
    <3>1. old.task \in Tasks /\ row \in Row
      BY <1>0, <1>7, <2>1 DEF ReadTask, Asked, Proceeds, OrNull
    <3>2. r.op = old.op /\ r.task = old.task
          /\ (old.op \in {"start", "pass", "fail"} => r.at = now)
          /\ (old.op \in {"submit", "pass", "fail"} => r.kept = row.notes)
      BY <1>0, <3>0, <3>1, WithRowFields
    <3>3. row.startedAt # Null => row.startedAt <= now
      BY <3>1 DEF DatedInv, Dated, Row
    <3>4. (Stamped(r) /\ Noted(r))'
      BY <1>0, <2>0, <3>2, <3>3 DEF Stamped, Noted, Time
    <3>5. req' = [req EXCEPT ![q] = r]
      BY <2>1, <3>0
    <3>6. \A p \in Slots : (Stamped(req[p]) /\ Noted(req[p]))'
      BY <1>b, <3>4, <3>5
    <3> QED BY <1>4, <2>0, <3>6 DEF DatedInv
  <2> QED BY <1>3, <1>4, <1>7, <2>0, <2>1 DEF ReadTask, DatedInv
<1>8. CASE CreateWrite(q)
  <2>1. Dated(NewTask(old.room, old.notes))
    BY DEF Dated, NewTask
  <2>2. old.task \in Tasks
    BY <1>0, <1>8 DEF CreateWrite, Asked
  <2> QED BY <1>2, <1>5, <1>8, <2>1, <2>2 DEF CreateWrite, PCs, DatedInv
<1>9. CASE AssignWrite(q) \/ StartWrite(q) \/ SubmitWrite(q) \/ InspectWrite(q) \/ CancelWrite(q)
  <2> DEFINE row == tasks[old.task]
  <2>1. old.op \in TaskOps /\ old.pc = "write"
    BY <1>9 DEF AssignWrite, StartWrite, SubmitWrite, InspectWrite, CancelWrite, TaskOps, Target
  <2>2. old.task \in Tasks /\ row # Null
    BY <1>0, <2>1 DEF Asked, Found
  <2>3. row \in Row /\ Dated(row) /\ row.status \in TaskStatuses
    BY <1>0, <2>2 DEF OrNull, DatedInv, Row
  <2>4. Target[old.op] \in TaskStatuses
    BY <2>1 DEF TaskOps, Target, TaskStatuses
  <2>5. row.status # "COMPLETED"
    BY <2>1, <2>3, <2>4, CompletedIsLast DEF CurrentInv, Current
  <2>6. /\ old.op \in {"start", "pass", "fail"} => old.at <= now
        /\ old.op \in {"pass", "fail"} /\ row.startedAt # Null => row.startedAt <= old.at
    BY <1>0, <2>1 DEF Stamped
  <2>7. /\ Dated(Assigned(row, old)) /\ Dated(Submitted(row, old)) /\ Dated(Cancelled(row))
        /\ old.op = "start" => Dated(Started(row, old))
        /\ old.op \in {"pass", "fail"} => Dated(Inspected(row, old))
    BY <1>0, <2>1, <2>3, <2>5, <2>6, UpdatesDate
  <2>8. \A t \in Tasks : tasks'[t] # Null => Dated(tasks[t])'
    BY <1>5, <1>9, <2>2, <2>7 DEF AssignWrite, StartWrite, SubmitWrite, InspectWrite, CancelWrite
  <2>9. \A p \in Slots : (Stamped(req[p]) /\ Noted(req[p]))'
    BY <1>2, <1>9 DEF AssignWrite, StartWrite, SubmitWrite, InspectWrite, CancelWrite, PCs
  <2> QED BY <2>8, <2>9 DEF DatedInv
<1>10. CASE AssignReadUser(q)
  BY <1>2, <1>3, <1>4, <1>10 DEF AssignReadUser, PCs, DatedInv
<1>11. CASE PromoteReadRoom(q) \/ PromoteWrite(q)
  BY <1>2, <1>4, <1>11 DEF PromoteReadRoom, PromoteWrite, PCs, DatedInv
<1>12. CASE CreateReadRoom(q)
  BY <1>2, <1>3, <1>4, <1>12 DEF CreateReadRoom, PCs, DatedInv
<1>13. CASE RoomStatusRead(q) \/ RoomStatusWrite(q)
  BY <1>2, <1>3, <1>4, <1>13 DEF RoomStatusRead, RoomStatusWrite, PCs, DatedInv
<1>14. CASE AppendAudit(q) \/ Fail(q)
  BY <1>3, <1>4, <1>14 DEF AppendAudit, Fail, DatedInv
<1> QED BY <1>6, <1>7, <1>8, <1>9, <1>10, <1>11, <1>12, <1>13, <1>14 DEF Step

LEMMA DatedTick ==
    ASSUME TypeInv, DatedInv, Tick
    PROVE  DatedInv'
<1>1. tasks' = tasks /\ req' = req /\ now' = now + 1 /\ now \in Nat
  BY DEF Tick, TypeInv, TypeOK, Time
<1>2. ASSUME NEW t \in Tasks, tasks[t] # Null PROVE Dated(tasks[t])'
  <2>1. tasks[t] \in Row /\ Dated(tasks[t])
    BY <1>2 DEF TypeInv, TypeOK, OrNull, DatedInv
  <2>2. tasks[t].startedAt # Null => tasks[t].startedAt \in Nat
    BY <2>1 DEF Row, OrNull, Time
  <2> QED BY <1>1, <2>1, <2>2 DEF Dated
<1>3. ASSUME NEW q \in Slots PROVE (Stamped(req[q]) /\ Noted(req[q]))'
  <2>1. Stamped(req[q]) /\ Noted(req[q]) /\ Asked(req[q])
    BY DEF TypeInv, DatedInv
  <2>2. req[q].op \in {"start", "pass", "fail"} /\ req[q].pc = "write" => req[q].at \in Nat
    BY <2>1 DEF Asked, Time
  <2> QED BY <1>1, <2>1, <2>2 DEF Stamped, Noted
<1> QED BY <1>1, <1>2, <1>3 DEF DatedInv

LEMMA NotesStep ==
    ASSUME TypeInv, FreshInv, DatedInv, [Next]_vars, NEW t \in Tasks, tasks[t] # Null,
           tasks'[t].notes # tasks[t].notes
    PROVE  \E q \in Slots : /\ req[q].task = t /\ req[q].pc = "write"
                            /\ req[q].notes # Null /\ tasks'[t].notes = req[q].notes
<1>1. PICK q \in Slots : Step(q) /\ tasks' # tasks
  BY DEF Next, vars, Tick, Receive, Accept, Fail
<1>2. /\ req[q] \in RequestType /\ Noted(req[q]) /\ tasks \in [Tasks -> OrNull(Row)]
      /\ tasks[t] \in Row
  BY DEF TypeInv, TypeOK, OrNull, DatedInv
<1>3. ASSUME NEW row, UpdateTask(q, row) PROVE req[q].task = t /\ tasks'[t] = row
  BY <1>2, <1>3 DEF UpdateTask
<1> USE DEF AtCall, TaskOps, Target
<1>4. CASE CreateWrite(q)
  <2>1. tasks[req[q].task] = Null
    BY <1>4 DEF CreateWrite, FreshInv
  <2> QED BY <1>3, <1>4, <2>1 DEF CreateWrite
<1>5. CASE AssignWrite(q) \/ StartWrite(q) \/ CancelWrite(q)
  <2>1. \/ tasks'[t] = Assigned(tasks[t], req[q])
        \/ tasks'[t] = Started(tasks[t], req[q])
        \/ tasks'[t] = Cancelled(tasks[t])
    BY <1>3, <1>5 DEF AssignWrite, StartWrite, CancelWrite
  <2> QED BY <1>2, <2>1 DEF Assigned, Started, Cancelled, Row
<1>6. CASE SubmitWrite(q)
  <2>1. req[q].task = t /\ tasks'[t] = Submitted(tasks[t], req[q])
    BY <1>3, <1>6 DEF SubmitWrite
  <2>2. tasks'[t].notes = Coalesce(req[q].notes, req[q].kept)
    BY <1>2, <2>1 DEF Submitted, Row
  <2> QED BY <1>2, <1>6, <2>1, <2>2 DEF SubmitWrite, Noted, Coalesce
<1>7. CASE InspectWrite(q)
  <2>1. req[q].task = t /\ tasks'[t] = Inspected(tasks[t], req[q])
    BY <1>3, <1>7 DEF InspectWrite
  <2>2. tasks'[t].notes = Coalesce(req[q].notes, req[q].kept)
    BY <1>2, <2>1 DEF Inspected, Row
  <2> QED BY <1>2, <1>7, <2>1, <2>2 DEF InspectWrite, Noted, Coalesce
<1> QED
  BY <1>1, <1>4, <1>5, <1>6, <1>7
  DEF Step, CreateReadRoom, ReadTask, AssignReadUser, PromoteReadRoom, PromoteWrite,
      RoomStatusRead, RoomStatusWrite, AppendAudit

LEMMA DatedInit == Init => DatedInv
  BY DEF Init, DatedInv, Stamped, Noted, Idle, Request

LEMMA DatedNext ==
    ASSUME TypeInv, FreshInv, Apart, CurrentInv, DatedInv, [Next]_vars
    PROVE  DatedInv'
<1>1. CASE Tick
  BY <1>1, DatedTick
<1>2. CASE UNCHANGED vars
  BY <1>2 DEF vars, DatedInv, Dated, Stamped, Noted
<1>3. CASE \E q \in Slots : Receive(q) \/ Step(q) \/ Fail(q)
  BY <1>3, DatedStep
<1> QED BY <1>1, <1>2, <1>3 DEF Next

LEMMA DatedInvariant == ApartSpec => [](TypeInv /\ FreshInv /\ DatedInv)
<1>1. TypeInv /\ FreshInv /\ Apart /\ CurrentInv /\ DatedInv /\ [Next]_vars => DatedInv'
  BY DatedNext
<1> QED BY <1>1, DatedInit, ApartAlways, CurrentInvariant, ApartIsSpec, PTL DEF Spec

\* Where handlers of one task keep apart, a task has a completion date exactly while it
\* is COMPLETED, and one no earlier than its start: getMetrics averages only such.
THEOREM ApartCompletionDated == ApartSpec => []CompletionDated
<1>1. DatedInv => CompletionDated
  BY DEF DatedInv, Dated, CompletionDated
<1> QED BY <1>1, DatedInvariant, PTL

\* Served one request at a time, dates fit.
THEOREM SerialCompletionDated ==
    ASSUME Serial
    PROVE  Spec => []CompletionDated
  BY SerialIsApart, ApartCompletionDated, PTL

=============================================================================
