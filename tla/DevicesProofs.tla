--------------------------- MODULE DevicesProofs ---------------------------
(***************************************************************************)
(* What holds of Devices for every registry, whatever handlers are in      *)
(* flight, wherever they fail and whatever the broker delivers.            *)
(***************************************************************************)
EXTENDS DevicesOverlaps, TLAPS

\* What a handler knows about its own request at each call
Asked(r) ==
    /\ r.op = "none" <=> r.pc = "idle"
    /\ r.op \in Ops \ {"scan"} => r.device \in Devices
    /\ r.op = "heartbeat" => /\ r.pc \in {"read", "create", "update"}
                             /\ r.at \in Time
                             /\ r.pc = "update" => r.lastError \in OrNull(Faults)
    /\ r.op = "error" => r.pc \in {"read", "update"} /\ r.lastError \in Faults
    /\ r.op = "scan" => r.pc \in {"read", "update"}
    /\ r.op = "create" => r.room \in OrNull(Rooms) /\ r.lastError \in OrNull(Faults)
    /\ r.op \in {"assign", "unassign"} => r.room \in Rooms
    /\ r.op = "command" /\ r.pc # "read" => r.property \in Properties /\ r.room \in Rooms

TypeInv == TypeOK /\ \A q \in Slots : Asked(req[q])

USE NullAssumption, HomeAssumption, ClockAssumption

LEMMA TypeInit == Init => TypeInv
  BY DEF Init, TypeInv, TypeOK, Asked, Idle, Request, RequestType, OrNull, Ops, PCs, Time

\* A step of one handler keeps the invariant if its request stays in order and the
\* tables keep their types.
LEMMA RequestStep ==
    ASSUME TypeInv, NEW q \in Slots, NEW r \in RequestType, Asked(r),
           req' = [req EXCEPT ![q] = r],
           devices' \in [Devices -> OrNull(Row)],
           sent' \subseteq [device: Devices, property: Properties, room: Rooms],
           issued' \subseteq Devices,
           UNCHANGED <<link, now>>
    PROVE  TypeInv'
<1>1. TypeOK'
  BY DEF TypeInv, TypeOK
<1>2. ASSUME NEW p \in Slots PROVE Asked(req'[p])
  BY DEF TypeInv, TypeOK
<1> QED BY <1>1, <1>2 DEF TypeInv, Asked

LEMMA IdleInOrder == Idle \in RequestType /\ Asked(Idle)
  BY DEF Idle, Request, RequestType, OrNull, Asked, Ops

LEMMA AnswerStep ==
    ASSUME TypeInv, NEW q \in Slots, Answer(q),
           devices' \in [Devices -> OrNull(Row)], issued' \subseteq Devices,
           UNCHANGED <<sent, link, now>>
    PROVE  TypeInv'
  BY IdleInOrder, RequestStep DEF Answer, TypeInv, TypeOK

\* The handler goes on, or answers.
LEMMA AwaitStep ==
    ASSUME TypeInv, NEW q \in Slots, NEW pc \in PCs \cup {"idle"}, Await(q, pc),
           pc # "idle" => Asked([req[q] EXCEPT !.pc = pc]),
           devices' \in [Devices -> OrNull(Row)],
           sent' \subseteq [device: Devices, property: Properties, room: Rooms],
           UNCHANGED <<issued, link, now>>
    PROVE  TypeInv'
<1> DEFINE r == IF pc = "idle" THEN Idle ELSE [req[q] EXCEPT !.pc = pc]
<1>1. req[q] \in RequestType
  BY DEF TypeInv, TypeOK
<1>2. r \in RequestType /\ Asked(r)
  BY <1>1, IdleInOrder DEF RequestType
<1>3. req' = [req EXCEPT ![q] = r]
  BY DEF Await
<1> HIDE DEF r
<1> QED BY <1>2, <1>3, RequestStep DEF TypeInv, TypeOK

\* Prisma's create and update of one row
LEMMA InsertStep ==
    ASSUME TypeInv, NEW q \in Slots, NEW pc \in PCs \cup {"idle"}, NEW row,
           row.property \in Properties => row \in Row,
           req[q].device \in Devices,
           pc # "idle" => Asked([req[q] EXCEPT !.pc = pc]),
           InsertDevice(q, row, pc)
    PROVE  TypeInv'
<1>1. CASE Answer(q) /\ UNCHANGED devices
  BY <1>1, AnswerStep DEF InsertDevice, TypeInv, TypeOK
<1>2. CASE /\ row.property \in Properties /\ Await(q, pc)
           /\ devices' = [devices EXCEPT ![req[q].device] = row]
  <2>1. devices' \in [Devices -> OrNull(Row)]
    BY <1>2 DEF TypeInv, TypeOK, OrNull
  <2> QED BY <1>2, <2>1, AwaitStep DEF InsertDevice, TypeInv, TypeOK
<1> QED BY <1>1, <1>2 DEF InsertDevice

LEMMA UpdateStep ==
    ASSUME TypeInv, NEW q \in Slots, NEW pc \in PCs \cup {"idle"}, NEW row,
           req[q].device \in Devices,
           devices[req[q].device] \in Row => row \in OrNull(Row),
           pc # "idle" => Asked([req[q] EXCEPT !.pc = pc]),
           UpdateDevice(q, row, pc)
    PROVE  TypeInv'
<1>1. CASE Answer(q) /\ UNCHANGED devices
  BY <1>1, AnswerStep DEF UpdateDevice, TypeInv, TypeOK
<1>2. CASE /\ Found(q) /\ Await(q, pc)
           /\ devices' = [devices EXCEPT ![req[q].device] = row]
  <2>1. devices' \in [Devices -> OrNull(Row)]
    BY <1>2 DEF TypeInv, TypeOK, OrNull, Found
  <2> QED BY <1>2, <2>1, AwaitStep DEF UpdateDevice, TypeInv, TypeOK
<1> QED BY <1>1, <1>2 DEF UpdateDevice

\* The rows the handlers write are rows.
LEMMA WrittenRows ==
    ASSUME NEW row \in Row, NEW r \in RequestType, Asked(r)
    PROVE  /\ r.op = "heartbeat" /\ r.pc = "update" => Heard(row, r) \in Row
           /\ r.op = "error" => Faulty(row, r) \in Row
           /\ r.op = "update" => Edited(row, r) \in Row
           /\ r.op = "assign" => Placed(row, r.room) \in Row
           /\ [row EXCEPT !.room = Null] \in Row
           /\ [row EXCEPT !.status = "OFFLINE"] \in Row
<1>1. ASSUME r.op = "heartbeat", r.pc = "update" PROVE Heard(row, r) \in Row
  BY <1>1 DEF Asked, Heard, Row, OrNull, DeviceStatuses
<1>2. ASSUME r.op = "error" PROVE Faulty(row, r) \in Row
  BY <1>2 DEF Asked, Faulty, Row, OrNull, DeviceStatuses
<1>3. ASSUME r.op = "update" PROVE Edited(row, r) \in Row
  <2>1. /\ Given(r.status, row.status) \in DeviceStatuses
        /\ Given(r.room, row.room) \in OrNull(Rooms)
        /\ Given(r.lastError, row.lastError) \in OrNull(Faults)
    BY <1>3 DEF Asked, Given, Row, OrNull, RequestType
  <2> QED BY <2>1 DEF Edited, Row
<1>4. ASSUME r.op = "assign" PROVE Placed(row, r.room) \in Row
  BY <1>4 DEF Asked, Placed, Row, OrNull
<1>5. [row EXCEPT !.room = Null] \in Row /\ [row EXCEPT !.status = "OFFLINE"] \in Row
  BY DEF Row, OrNull, DeviceStatuses
<1> QED BY <1>1, <1>2, <1>3, <1>4, <1>5

LEMMA NewRows ==
    ASSUME NEW status \in {"ONLINE", "UNPROVISIONED"}, NEW p, NEW r \in OrNull(Rooms),
           NEW t \in OrNull(Time), NEW e \in OrNull(Faults)
    PROVE  LET row == NewDevice(status, p, r, t, e) IN
           /\ row.property = p
           /\ p \in Properties => row \in Row
  BY DEF NewDevice, Row, OrNull, DeviceStatuses

-----------------------------------------------------------------------------
LEMMA TypeAccept ==
    ASSUME TypeInv, NEW q \in Slots, Hear(q) \/ Receive(q)
    PROVE  TypeInv'
<1> DEFINE All == HeartbeatEvents \cup ErrorEvents \cup ScanRequests \cup CreateRequests
                  \cup UpdateRequests \cup DeviceRequests \cup RoomRequests
<1>1. PICK new \in All : req' = [req EXCEPT ![q] = new]
  BY DEF Hear, Receive, Accept
<1>2. UNCHANGED <<devices, sent, issued, link, now>>
  BY DEF Hear, Receive, Accept
<1>3. new \in RequestType /\ Asked(new)
  <2>1. CASE new \in HeartbeatEvents
    <3>1. 1..now \subseteq Time
      BY DEF TypeInv, TypeOK, Time
    <3>2. PICK d \in Devices, p \in OrNull(Properties), t \in 1..now :
             new = HeartbeatEvent(d, p, t)
      BY <2>1 DEF HeartbeatEvents
    <3>3. new = [op |-> "heartbeat", pc |-> "read", device |-> d, property |-> p, room |-> Null,
                 status |-> Keep, lastError |-> Keep, at |-> t, found |-> {}]
      BY <3>2 DEF Request, HeartbeatEvent
    <3> QED BY <3>1, <3>3 DEF RequestType, Asked, OrNull, Ops, PCs
  <2>2. CASE new \in ErrorEvents
    <3>1. PICK d \in Devices, f \in Faults : new = ErrorEvent(d, f)
      BY <2>2 DEF ErrorEvents
    <3>2. new = [op |-> "error", pc |-> "read", device |-> d, property |-> Null, room |-> Null,
                 status |-> Keep, lastError |-> f, at |-> Null, found |-> {}]
      BY <3>1 DEF Request, ErrorEvent
    <3> QED BY <3>2 DEF RequestType, Asked, OrNull, Ops, PCs
  <2>3. CASE new \in ScanRequests \cup DeviceRequests \cup RoomRequests
    BY <2>3 DEF ScanRequests, DeviceRequests, RoomRequests, Request, RequestType,
       Asked, OrNull, Ops, PCs
  <2>5. CASE new \in CreateRequests
    <3>1. PICK d \in Devices, p \in OrNull(Properties), r \in OrNull(Rooms), e \in OrNull(Faults) :
             new = CreateRequest(d, p, r, e)
      BY <2>5 DEF CreateRequests
    <3>2. new = [op |-> "create", pc |-> "create", device |-> d, property |-> p, room |-> r,
                 status |-> Keep, lastError |-> e, at |-> Null, found |-> {}]
      BY <3>1 DEF Request, CreateRequest
    <3> QED BY <3>2 DEF RequestType, Asked, OrNull, Ops, PCs
  <2>4. CASE new \in UpdateRequests
    <3>1. PICK d \in Devices, e \in Edits : new = UpdateRequest(d, e)
      BY <2>4 DEF UpdateRequests
    <3>2. new = [op |-> "update", pc |-> "read", device |-> d, property |-> Null, room |-> e.room,
                 status |-> e.status, lastError |-> e.lastError, at |-> Null, found |-> {}]
      BY <3>1 DEF Request, UpdateRequest
    <3>3. /\ e.status \in DeviceStatuses \cup {Keep} /\ e.room \in OrNull(Rooms) \cup {Keep}
          /\ e.lastError \in OrNull(Faults) \cup {Keep}
      BY EditAssumption DEF Edit
    <3> QED BY <3>2, <3>3 DEF RequestType, Asked, OrNull, Ops, PCs
  <2> QED BY <2>1, <2>2, <2>3, <2>4, <2>5
<1> HIDE DEF All
<1> QED BY <1>1, <1>2, <1>3, RequestStep DEF TypeInv, TypeOK

LEMMA TypeStep ==
    ASSUME TypeInv, NEW q \in Slots, Step(q)
    PROVE  TypeInv'
<1> DEFINE old == req[q]
           Moved(pc) == [old EXCEPT !.pc = pc]
<1> USE DEF AtCall, Ops, PCs
<1>0. old \in RequestType /\ Asked(old)
  BY DEF TypeInv, TypeOK
<1>1. old.op # "scan" /\ old.op # "none" => old.device \in Devices
  BY <1>0 DEF Asked, RequestType
<1>2. ASSUME UNCHANGED <<devices, sent, issued, link, now>>,
             \/ Answer(q)
             \/ \E pc \in {"create", "update", "publish", "audit"} : Await(q, pc) /\ Asked(Moved(pc))
      PROVE  TypeInv'
  BY <1>2, AnswerStep, AwaitStep DEF TypeInv, TypeOK
<1>3. ASSUME UNCHANGED <<devices, sent, issued, link, now>>, NEW pc \in {"create", "update"},
             Await(q, pc) \/ Await(q, "idle"), Asked(Moved(pc))
      PROVE  TypeInv'
  BY <1>2, <1>3 DEF Await, Answer
<1>4. CASE HeartbeatRead(q)
  <2>1. CASE Found(q)
    <3> DEFINE r == [old EXCEPT !.pc = "update", !.lastError = devices[old.device].lastError]
    <3>1. devices[old.device] \in Row
      BY <1>1, <1>4, <2>1 DEF HeartbeatRead, Found, TypeInv, TypeOK, OrNull
    <3>2. r \in RequestType /\ Asked(r)
      BY <1>0, <1>4, <3>1 DEF HeartbeatRead, RequestType, Asked, Row, OrNull
    <3>3. req' = [req EXCEPT ![q] = r] /\ UNCHANGED <<devices, sent, issued, link, now>>
      BY <1>4, <2>1 DEF HeartbeatRead
    <3> HIDE DEF r
    <3> QED BY <3>2, <3>3, RequestStep DEF TypeInv, TypeOK
  <2>2. CASE ~Found(q)
    <3>1. Asked(Moved("create"))
      BY <1>0, <1>4 DEF HeartbeatRead, Asked, RequestType
    <3>2. Await(q, "create")
      BY <1>4, <2>2 DEF HeartbeatRead, Await
    <3> QED BY <1>2, <1>4, <3>1, <3>2 DEF HeartbeatRead
  <2> QED BY <2>1, <2>2
<1>5. CASE HeartbeatCreate(q)
  <2>1. old.at \in OrNull(Time) /\ old.device \in Devices
    BY <1>0, <1>1, <1>5 DEF HeartbeatCreate, Asked, OrNull
  <2> QED BY <1>5, <2>1, NewRows, InsertStep DEF HeartbeatCreate, OrNull
<1>6. CASE HeartbeatUpdate(q)
  <2>1. devices[old.device] \in Row => Heard(devices[old.device], old) \in OrNull(Row)
    BY <1>0, <1>6, WrittenRows DEF HeartbeatUpdate, OrNull
  <2> QED BY <1>1, <1>6, <2>1, UpdateStep DEF HeartbeatUpdate
<1>7. CASE ErrorRead(q)
  <2>1. Asked(Moved("update"))
    BY <1>0, <1>7 DEF ErrorRead, Asked, RequestType
  <2> QED BY <1>3, <1>7, <2>1 DEF ErrorRead
<1>8. CASE ErrorUpdate(q)
  <2>1. devices[old.device] \in Row => Faulty(devices[old.device], old) \in OrNull(Row)
    BY <1>0, <1>8, WrittenRows DEF ErrorUpdate, OrNull
  <2> QED BY <1>1, <1>8, <2>1, UpdateStep DEF ErrorUpdate
<1>9. CASE ScanRead(q)
  <2> DEFINE stale == {d \in Devices : devices[d] # Null /\ devices[d].status = "ONLINE"
                                       /\ IsStale(devices[d])}
             r == [old EXCEPT !.pc = "update", !.found = stale]
  <2>1. r \in RequestType /\ Asked(r)
    BY <1>0, <1>9 DEF ScanRead, RequestType, Asked
  <2>2. req' = [req EXCEPT ![q] = r] \/ Answer(q)
    BY <1>9 DEF ScanRead, Answer
  <2>3. UNCHANGED <<devices, sent, issued, link, now>>
    BY <1>9 DEF ScanRead
  <2> HIDE DEF r
  <2> QED BY <2>1, <2>2, <2>3, RequestStep, AnswerStep DEF TypeInv, TypeOK
<1>10. CASE ScanUpdate(q)
  <2>1. devices' \in [Devices -> OrNull(Row)]
    <3>1. ASSUME NEW d \in Devices PROVE devices'[d] \in OrNull(Row)
      BY <1>10, WrittenRows, <1>0 DEF ScanUpdate, TypeInv, TypeOK, OrNull
    <3> QED BY <1>10, <3>1 DEF ScanUpdate
  <2> QED BY <1>10, <2>1, AnswerStep DEF ScanUpdate, TypeInv, TypeOK
<1>11. CASE CreateDevice(q)
  <2>1. /\ Asked(Moved("audit")) /\ old.room \in OrNull(Rooms) /\ old.device \in Devices
        /\ old.lastError \in OrNull(Faults)
    BY <1>0, <1>1, <1>11 DEF CreateDevice, Asked, RequestType
  <2>2. CASE Answer(q) /\ UNCHANGED <<devices, sent, issued, link, now>>
    BY <1>2, <2>2
  <2>3. CASE InsertDevice(q, NewDevice("UNPROVISIONED", old.property, old.room, Null,
                                       old.lastError), "audit")
    BY <2>1, <2>3, NewRows, InsertStep DEF OrNull
  <2> QED BY <1>11, <2>2, <2>3 DEF CreateDevice
<1>12. CASE FindDevice(q)
  <2>1. Asked(Moved("update"))
    BY <1>0, <1>12 DEF FindDevice, Asked, RequestType
  <2> QED BY <1>3, <1>12, <2>1 DEF FindDevice
<1>13. CASE EditDevice(q)
  <2>1. Asked(Moved("audit"))
    BY <1>0, <1>13 DEF EditDevice, Asked, RequestType
  <2>2. devices[old.device] \in Row => Edited(devices[old.device], old) \in OrNull(Row)
    BY <1>0, <1>13, WrittenRows DEF EditDevice, OrNull
  <2> QED BY <1>1, <1>13, <2>1, <2>2, UpdateStep DEF EditDevice
<1>14. CASE DeleteDevice(q)
  <2>1. Asked(Moved("audit"))
    BY <1>0, <1>14 DEF DeleteDevice, Asked, RequestType
  <2> QED BY <1>1, <1>14, <2>1, UpdateStep DEF DeleteDevice, OrNull
<1>15. CASE AssignRead(q)
  <2>1. Asked(Moved("update")) /\ Asked(Moved("create"))
    BY <1>0, <1>15 DEF AssignRead, Asked, RequestType
  <2> QED BY <1>2, <1>15, <2>1 DEF AssignRead
<1>16. CASE AssignCreate(q)
  <2>1. Asked(Moved("update")) /\ Home[old.room] \in Properties
    BY <1>0, <1>16 DEF AssignCreate, Asked, RequestType
  <2> QED BY <1>1, <1>16, <2>1, NewRows, InsertStep DEF AssignCreate, OrNull
<1>17. CASE AssignUpdate(q)
  <2>1. Asked(Moved("audit"))
    BY <1>0, <1>17 DEF AssignUpdate, Asked, RequestType
  <2>2. devices[old.device] \in Row => Placed(devices[old.device], old.room) \in OrNull(Row)
    BY <1>0, <1>17, WrittenRows DEF AssignUpdate, OrNull
  <2> QED BY <1>1, <1>17, <2>1, <2>2, UpdateStep DEF AssignUpdate
<1>18. CASE UnassignUpdate(q)
  <2>1. Asked(Moved("audit"))
    BY <1>0, <1>18 DEF UnassignUpdate, Asked, RequestType
  <2>2. devices[old.device] \in Row => [devices[old.device] EXCEPT !.room = Null] \in OrNull(Row)
    BY <1>0, WrittenRows DEF OrNull
  <2> QED BY <1>1, <1>18, <2>1, <2>2, UpdateStep DEF UnassignUpdate
<1>19. CASE CommandRead(q)
  <2> DEFINE row == devices[old.device]
             r == [old EXCEPT !.pc = "publish", !.property = row.property, !.room = row.room]
  <2>1. CASE row # Null /\ row.room # Null
    <3>1. row \in Row
      BY <1>1, <1>19, <2>1 DEF CommandRead, TypeInv, TypeOK, OrNull
    <3>2. r \in RequestType /\ Asked(r)
      BY <1>0, <1>19, <2>1, <3>1 DEF CommandRead, RequestType, Asked, Row, OrNull
    <3>3. req' = [req EXCEPT ![q] = r] /\ UNCHANGED <<devices, sent, issued, link, now>>
      BY <1>19, <2>1 DEF CommandRead
    <3> HIDE DEF r
    <3> QED BY <3>2, <3>3, RequestStep DEF TypeInv, TypeOK
  <2> QED BY <1>2, <1>19, <2>1 DEF CommandRead
<1>20. CASE Publish(q)
  <2>1. Asked(Moved("audit")) /\ old.property \in Properties /\ old.room \in Rooms
    BY <1>0, <1>20 DEF Publish, Asked, RequestType
  <2>2. sent' \subseteq [device: Devices, property: Properties, room: Rooms]
    BY <1>1, <1>20, <2>1 DEF Publish, Command, TypeInv, TypeOK
  <2> QED BY <1>20, <2>1, <2>2, AwaitStep DEF Publish, TypeInv, TypeOK
<1>21. CASE AppendAudit(q)
  <2>1. issued' \subseteq Devices
    BY <1>1, <1>21 DEF AppendAudit, TypeInv, TypeOK
  <2> QED BY <1>21, <2>1, AnswerStep DEF AppendAudit, TypeInv, TypeOK
<1> QED BY <1>4, <1>5, <1>6, <1>7, <1>8, <1>9, <1>10, <1>11, <1>12, <1>13, <1>14, <1>15, <1>16,
          <1>17, <1>18, <1>19, <1>20, <1>21 DEF Step

LEMMA TypeNext == TypeInv /\ [Next]_vars => TypeInv'
<1> SUFFICES ASSUME TypeInv, [Next]_vars PROVE TypeInv'
  OBVIOUS
<1>1. CASE UNCHANGED vars
  BY <1>1 DEF vars, TypeInv, TypeOK, Asked
<1>2. CASE Tick \/ Connect \/ Close
  <2>1. UNCHANGED <<devices, req, sent, issued>> /\ link' \in {"none", "down", "up"} /\ now' \in Time
    BY <1>2 DEF Tick, Connect, Close, TypeInv, TypeOK, Time
  <2> QED BY <2>1 DEF TypeInv, TypeOK, Asked
<1>3. ASSUME NEW q \in Slots, Fail(q) PROVE TypeInv'
  BY <1>3, AnswerStep DEF Fail, TypeInv, TypeOK
<1> QED BY <1>1, <1>2, <1>3, TypeAccept, TypeStep DEF Next

\* The registry, the handlers in flight and the commands keep their types, and each
\* handler knows at each call what it was asked (devices.service.ts:31-360).
THEOREM TypeAlways == Spec => []TypeInv
  BY TypeInit, TypeNext, PTL DEF Spec

\* The part of it the runs check (schema.prisma:238-256)
THEOREM TypeCorrect == Spec => []TypeOK
<1>1. TypeInv => TypeOK
  BY DEF TypeInv
<1> QED BY <1>1, TypeAlways, PTL

-----------------------------------------------------------------------------
\* Every way a step may change a row
Registered(new, r) ==
    /\ r.pc = "create"
    /\ \E p \in Properties :
        \/ \E t \in Time : new = NewDevice("ONLINE", p, Null, t, Null)
        \/ new = NewDevice("UNPROVISIONED", p, Null, Null, Null)
        \/ /\ r.op = "create" /\ r.room \in OrNull(Rooms) /\ r.lastError \in OrNull(Faults)
           /\ new = NewDevice("UNPROVISIONED", p, r.room, Null, r.lastError)
           /\ r.room # Null => Home[r.room] = p

Rewritten(old, new, r) ==
    \/ r.op = "heartbeat" /\ r.pc = "update" /\ new = Heard(old, r)
    \/ r.op = "error" /\ new = Faulty(old, r)
    \/ r.op = "scan" /\ new = [old EXCEPT !.status = "OFFLINE"]
    \/ r.op = "update" /\ new = Edited(old, r)
    \/ r.op = "assign" /\ new = Placed(old, r.room)
    \/ r.op = "unassign" /\ new = [old EXCEPT !.room = Null]

LEMMA InsertedRow ==
    ASSUME TypeInv, NEW q \in Slots, NEW pc, NEW row, InsertDevice(q, row, pc), NEW d \in Devices,
           devices'[d] # devices[d]
    PROVE  devices[d] = Null /\ devices'[d] = row /\ row.property \in Properties /\ req[q].device = d
  BY DEF InsertDevice, Found, TypeInv, TypeOK

LEMMA UpdatedRow ==
    ASSUME TypeInv, NEW q \in Slots, NEW pc, NEW row, UpdateDevice(q, row, pc), NEW d \in Devices,
           devices'[d] # devices[d]
    PROVE  devices[d] # Null /\ devices'[d] = row /\ req[q].device = d
  BY DEF UpdateDevice, Found, TypeInv, TypeOK

LEMMA RowsChange ==
    ASSUME TypeInv, NEW q \in Slots, Step(q), NEW d \in Devices, devices'[d] # devices[d]
    PROVE  \/ devices[d] = Null /\ Registered(devices'[d], req[q]) /\ req[q].device = d
           \/ devices[d] # Null /\ devices'[d] = Null
           \/ devices[d] # Null /\ Rewritten(devices[d], devices'[d], req[q])
<1> DEFINE old == req[q]
<1> USE DEF AtCall
<1>0. old \in RequestType /\ Asked(old)
  BY DEF TypeInv, TypeOK
<1>1. CASE HeartbeatCreate(q)
  <2>1. old.at \in Time
    BY <1>0, <1>1 DEF HeartbeatCreate, Asked
  <2>2. /\ devices[d] = Null /\ devices'[d] = NewDevice("ONLINE", old.property, Null, old.at, Null)
        /\ old.property \in Properties /\ old.pc = "create" /\ old.device = d
    BY <1>1, InsertedRow DEF HeartbeatCreate, NewDevice
  <2> QED BY <2>1, <2>2 DEF Registered
<1>2. CASE CreateDevice(q)
  <2>1. old.room \in OrNull(Rooms) /\ old.lastError \in OrNull(Faults)
    BY <1>0, <1>2 DEF CreateDevice, Asked
  <2> DEFINE new == NewDevice("UNPROVISIONED", old.property, old.room, Null, old.lastError)
  <2>2. /\ InsertDevice(q, new, "audit") /\ old.op = "create" /\ old.pc = "create"
        /\ old.room # Null => Home[old.room] = old.property
    BY <1>2 DEF CreateDevice
  <2>3. /\ devices[d] = Null /\ devices'[d] = new
        /\ old.property \in Properties /\ old.device = d
    BY <2>2, InsertedRow DEF NewDevice
  <2> QED BY <2>1, <2>2, <2>3 DEF Registered
<1>3. CASE AssignCreate(q)
  <2>1. /\ devices[d] = Null /\ Home[old.room] \in Properties
        /\ devices'[d] = NewDevice("UNPROVISIONED", Home[old.room], Null, Null, Null)
        /\ old.pc = "create" /\ old.device = d
    BY <1>3, InsertedRow DEF AssignCreate, NewDevice
  <2> QED BY <2>1 DEF Registered, OrNull
<1>4. CASE HeartbeatUpdate(q)
  BY <1>4, UpdatedRow DEF HeartbeatUpdate, Rewritten
<1>5. CASE ErrorUpdate(q)
  BY <1>5, UpdatedRow DEF ErrorUpdate, Rewritten
<1>6. CASE ScanUpdate(q)
  BY <1>6 DEF ScanUpdate, Rewritten
<1>7. CASE EditDevice(q)
  BY <1>7, UpdatedRow DEF EditDevice, Rewritten
<1>8. CASE DeleteDevice(q)
  BY <1>8, UpdatedRow DEF DeleteDevice
<1>9. CASE AssignUpdate(q)
  BY <1>9, UpdatedRow DEF AssignUpdate, Rewritten
<1>10. CASE UnassignUpdate(q)
  BY <1>10, UpdatedRow DEF UnassignUpdate, Rewritten
<1>11. devices' = devices \/ \/ HeartbeatCreate(q) \/ CreateDevice(q) \/ AssignCreate(q)
                             \/ HeartbeatUpdate(q) \/ ErrorUpdate(q) \/ ScanUpdate(q)
                             \/ EditDevice(q) \/ DeleteDevice(q) \/ AssignUpdate(q)
                             \/ UnassignUpdate(q)
  BY DEF Step, HeartbeatRead, ErrorRead, ScanRead, FindDevice, AssignRead, CommandRead, Publish,
     AppendAudit
<1> QED BY <1>1, <1>2, <1>3, <1>4, <1>5, <1>6, <1>7, <1>8, <1>9, <1>10, <1>11

LEMMA OnlyStepsWrite ==
    ASSUME [Next]_vars
    PROVE  devices' = devices \/ \E q \in Slots : Step(q)
  BY DEF Next, vars, Tick, Connect, Close, Hear, Receive, Accept, Fail

\* A device that was removed comes back only as a new one: no handler that read it
\* before brings anything back (devices.service.ts:300-323).
THEOREM RemovedComesBackNew == Spec => ComesBackNew
<1>1. ASSUME TypeInv, [Next]_vars, NEW d \in Devices, devices[d] = Null, devices'[d] # Null
      PROVE  \E q \in Slots, status \in {"ONLINE", "UNPROVISIONED"}, p \in Properties,
                r \in OrNull(Rooms), t \in OrNull(Time), e \in OrNull(Faults) :
                /\ devices'[d] = NewDevice(status, p, r, t, e)
                /\ r # Null => Home[r] = p
                /\ req[q].device = d /\ req[q].pc = "create"
                /\ e # Null => req[q].op = "create" /\ e = req[q].lastError
  <2>1. PICK q \in Slots : Registered(devices'[d], req[q]) /\ req[q].device = d
    BY <1>1, OnlyStepsWrite, RowsChange
  <2> QED BY <2>1 DEF Registered, OrNull
<1>2. TypeInv /\ [Next]_vars =>
        [\A d \in Devices : devices[d] = Null /\ devices'[d] # Null
          => \E q \in Slots, status \in {"ONLINE", "UNPROVISIONED"}, p \in Properties,
                r \in OrNull(Rooms), t \in OrNull(Time), e \in OrNull(Faults) :
                /\ devices'[d] = NewDevice(status, p, r, t, e)
                /\ r # Null => Home[r] = p
                /\ req[q].device = d /\ req[q].pc = "create"
                /\ e # Null => req[q].op = "create" /\ e = req[q].lastError]_vars
  BY <1>1
<1> QED BY <1>2, TypeAlways, PTL DEF Spec, ComesBackNew

LEMMA PlacingSteps ==
    ASSUME TypeInv, NEW q \in Slots, Step(q), NEW d \in Devices,
           devices[d] # Null, devices'[d] # Null,
           <<devices'[d].property, devices'[d].room>> # <<devices[d].property, devices[d].room>>
    PROVE  /\ req[q].op \in {"assign", "unassign", "update"}
           /\ req[q].pc = "update" /\ req[q].device = d
<1>1. devices[d] \in Row /\ devices'[d] # devices[d]
  BY DEF TypeInv, TypeOK, OrNull
<1>2. Rewritten(devices[d], devices'[d], req[q])
  BY <1>1, RowsChange
<1>3. req[q].op \in {"assign", "unassign", "update"}
  BY <1>1, <1>2 DEF Rewritten, Heard, Faulty, Row
<1>4. \/ EditDevice(q) \/ AssignUpdate(q) \/ UnassignUpdate(q)
      \/ FindDevice(q) \/ AssignRead(q) \/ AssignCreate(q) \/ AppendAudit(q)
  BY <1>3 DEF Step, AtCall, HeartbeatRead, HeartbeatCreate, HeartbeatUpdate, ErrorRead, ErrorUpdate,
     ScanRead, ScanUpdate, CreateDevice, DeleteDevice, CommandRead, Publish
<1>5. ~FindDevice(q) /\ ~AssignRead(q) /\ ~AppendAudit(q)
  BY <1>1 DEF FindDevice, AssignRead, AppendAudit
<1>6. ~AssignCreate(q)
  BY <1>1, InsertedRow DEF AssignCreate
<1> QED BY <1>1, <1>3, <1>4, <1>5, <1>6, UpdatedRow DEF EditDevice, AssignUpdate, UnassignUpdate, AtCall

\* No heartbeat and no second creation of a row moves a device: its property and room are
\* written by operators alone (devices.service.ts:49-63, properties.service.ts:386-403).
THEOREM OperatorsAlonePlace == Spec => OnlyOperatorsPlace
<1>1. TypeInv /\ [Next]_vars =>
        [\A d \in Devices :
          /\ devices[d] # Null /\ devices'[d] # Null
          /\ <<devices'[d].property, devices'[d].room>> # <<devices[d].property, devices[d].room>>
          => \E q \in Slots : /\ req[q].op \in {"assign", "unassign", "update"}
                               /\ req[q].pc = "update" /\ req[q].device = d]_vars
  BY OnlyStepsWrite, PlacingSteps
<1> QED BY <1>1, TypeAlways, PTL DEF Spec, OnlyOperatorsPlace

-----------------------------------------------------------------------------
\* The status of a row and what the gateways said
Explained(row) ==
    /\ row.status = "ONLINE" => row.lastHeartbeatAt # Null
    /\ row.status = "DEGRADED" => row.lastError # Null
    /\ row.status = "UNPROVISIONED" => row.lastHeartbeatAt = Null

\* Operators write no status, and no metadata without a fault.
OperatorsExplain == \A e \in Edits : e.status = Keep /\ e.lastError # Null

\* What updateDevice was asked for is what an operator may ask.
AskedBy(e, r) == r.status = e.status /\ r.lastError = e.lastError /\ r.room = e.room
OperatorsInv == \A q \in Slots : req[q].op = "update" => \E e \in Edits : AskedBy(e, req[q])

\* What a handler was asked it keeps, until it answers.
KeepsAsked(r, old) ==
    /\ r.op = old.op /\ r.device = old.device /\ r.status = old.status
    /\ old.op = "update" => r.lastError = old.lastError /\ r.room = old.room

LEMMA StepShape ==
    ASSUME TypeInv, NEW q \in Slots, Step(q)
    PROVE  \E r : req' = [req EXCEPT ![q] = r] /\ (r = Idle \/ KeepsAsked(r, req[q]))
<1> DEFINE old == req[q]
<1> USE DEF AtCall
<1>0. old \in RequestType
  BY DEF TypeInv, TypeOK
<1>1. CASE Answer(q)
  BY <1>1 DEF Answer
<1>2. ASSUME NEW pc, Await(q, pc)
      PROVE  \E r : req' = [req EXCEPT ![q] = r] /\ (r = Idle \/ KeepsAsked(r, old))
  <2>1. KeepsAsked([old EXCEPT !.pc = pc], old)
    BY <1>0 DEF RequestType, KeepsAsked
  <2> QED BY <1>2, <2>1 DEF Await
<1>3. CASE HeartbeatRead(q)
  <2> DEFINE r1 == [old EXCEPT !.pc = "update", !.lastError = devices[old.device].lastError]
             r2 == [old EXCEPT !.pc = "create"]
  <2>1. KeepsAsked(r1, old) /\ KeepsAsked(r2, old)
    BY <1>0, <1>3 DEF HeartbeatRead, RequestType, KeepsAsked
  <2>2. req' = [req EXCEPT ![q] = r1] \/ req' = [req EXCEPT ![q] = r2]
    BY <1>3 DEF HeartbeatRead
  <2> HIDE DEF r1, r2
  <2> QED BY <2>1, <2>2
<1>4. CASE ScanRead(q)
  <2> DEFINE stale == {d \in Devices : devices[d] # Null /\ devices[d].status = "ONLINE"
                                       /\ IsStale(devices[d])}
             r == [old EXCEPT !.pc = "update", !.found = stale]
  <2>1. KeepsAsked(r, old)
    BY <1>0 DEF RequestType, KeepsAsked
  <2>2. req' = [req EXCEPT ![q] = r] \/ Answer(q)
    BY <1>4 DEF ScanRead, Answer
  <2> HIDE DEF r
  <2> QED BY <1>1, <2>1, <2>2
<1>5. CASE CommandRead(q)
  <2> DEFINE row == devices[old.device]
             r == [old EXCEPT !.pc = "publish", !.property = row.property, !.room = row.room]
  <2>1. KeepsAsked(r, old)
    BY <1>0, <1>5 DEF CommandRead, RequestType, KeepsAsked
  <2>2. req' = [req EXCEPT ![q] = r] \/ Answer(q)
    BY <1>5 DEF CommandRead
  <2> HIDE DEF r
  <2> QED BY <1>1, <2>1, <2>2
<1>6. \/ HeartbeatRead(q) \/ ScanRead(q) \/ CommandRead(q) \/ Answer(q)
      \/ \E pc : Await(q, pc)
  BY DEF Step, HeartbeatCreate, HeartbeatUpdate, ErrorRead, ErrorUpdate, ScanUpdate,
     CreateDevice, FindDevice, EditDevice, DeleteDevice, AssignRead, AssignCreate, AssignUpdate,
     UnassignUpdate, Publish, AppendAudit, InsertDevice, UpdateDevice
<1> QED BY <1>1, <1>2, <1>3, <1>4, <1>5, <1>6

LEMMA EventOps ==
    /\ \A d, p, t : HeartbeatEvent(d, p, t).op = "heartbeat"
    /\ \A d, f : ErrorEvent(d, f).op = "error"
    /\ \A d, p, r, e : CreateRequest(d, p, r, e).op = "create"
  BY DEF HeartbeatEvent, ErrorEvent, CreateRequest, Request

LEMMA OperatorsNext ==
    ASSUME TypeInv, OperatorsInv, [Next]_vars
    PROVE  OperatorsInv'
<1> USE DEF OperatorsInv
<1>1. CASE req' = req
  BY <1>1
<1>2. ASSUME NEW q \in Slots, NEW r, req' = [req EXCEPT ![q] = r],
             r.op = "update" => \E e \in Edits : AskedBy(e, r)
      PROVE  OperatorsInv'
  BY <1>2 DEF TypeInv, TypeOK
<1>3. ASSUME NEW q \in Slots, Hear(q) \/ Receive(q) PROVE OperatorsInv'
  <2> DEFINE All == HeartbeatEvents \cup ErrorEvents \cup ScanRequests \cup CreateRequests
                    \cup UpdateRequests \cup DeviceRequests \cup RoomRequests
  <2>1. PICK new \in All : req' = [req EXCEPT ![q] = new]
    BY <1>3 DEF Hear, Receive, Accept
  <2>2. CASE new \in UpdateRequests
    <3>1. PICK d \in Devices, e \in Edits : new = UpdateRequest(d, e)
      BY <2>2 DEF UpdateRequests
    <3>2. AskedBy(e, new)
      BY <3>1 DEF UpdateRequest, Request, AskedBy
    <3> QED BY <1>2, <2>1, <3>2
  <2>3. CASE new \notin UpdateRequests
    <3>1. ASSUME new \in HeartbeatEvents
          PROVE  new.op # "update"
      BY <3>1, EventOps DEF HeartbeatEvents
    <3>2. ASSUME new \in ErrorEvents
          PROVE  new.op # "update"
      BY <3>2, EventOps DEF ErrorEvents
    <3>3. ASSUME new \in ScanRequests \cup CreateRequests \cup DeviceRequests \cup RoomRequests
          PROVE  new.op # "update"
      BY <3>3, EventOps DEF ScanRequests, CreateRequests, DeviceRequests, RoomRequests, Request
    <3>4. new.op # "update"
      BY <2>1, <2>3, <3>1, <3>2, <3>3
    <3> HIDE DEF All
    <3> QED BY <1>2, <2>1, <3>4
  <2> QED BY <2>2, <2>3
<1>4. ASSUME NEW q \in Slots, Answer(q) PROVE OperatorsInv'
  BY <1>2, <1>4 DEF Answer, Idle, Request
<1>5. ASSUME NEW q \in Slots, Step(q) PROVE OperatorsInv'
  <2>1. PICK r : req' = [req EXCEPT ![q] = r] /\ (r = Idle \/ KeepsAsked(r, req[q]))
    BY <1>5, StepShape
  <2>2. r.op = "update" => \E e \in Edits : AskedBy(e, r)
    BY <2>1 DEF KeepsAsked, AskedBy, Idle, Request
  <2> QED BY <1>2, <2>1, <2>2
<1> QED BY <1>1, <1>3, <1>4, <1>5 DEF Next, vars, Tick, Connect, Close, Fail

LEMMA ExplainedRows ==
    ASSUME NEW old \in Row, NEW new, NEW r \in RequestType, Asked(r), Explained(old),
           r.op = "update" => r.status = Keep /\ r.lastError # Null,
           Rewritten(old, new, r)
    PROVE  Explained(new)
<1> USE DEF Explained, Row
<1>1. CASE r.op = "heartbeat" /\ new = Heard(old, r)
  <2>1. r.at # Null
    BY <1>1 DEF Asked, Time
  <2> QED BY <1>1, <2>1 DEF Heard
<1>2. CASE r.op = "error" /\ new = Faulty(old, r)
  <2>1. r.lastError # Null
    BY <1>2 DEF Asked
  <2> QED BY <1>2, <2>1 DEF Faulty
<1>3. CASE new = [old EXCEPT !.status = "OFFLINE"]
  BY <1>3
<1>4. CASE r.op = "update" /\ new = Edited(old, r)
  <2>1. /\ new.status = old.status /\ (old.lastError # Null => new.lastError # Null)
        /\ new.lastHeartbeatAt = old.lastHeartbeatAt
    BY <1>4 DEF Edited, Given
  <2> QED BY <2>1
<1>5. CASE new = Placed(old, r.room)
  BY <1>5 DEF Placed
<1>6. CASE new = [old EXCEPT !.room = Null]
  BY <1>6
<1> QED BY <1>1, <1>2, <1>3, <1>4, <1>5, <1>6 DEF Rewritten

LEMMA ExplainedNew == \A new, r : Registered(new, r) => Explained(new)
  BY DEF Registered, NewDevice, Explained, Time

\* While operators write no status and no metadata without a fault, every status is one
\* the row explains, in spite of heartbeats and faults that write back what they read
\* earlier (devices.service.ts:31-163).
THEOREM StatusAlwaysExplained == Spec => []StatusExplained
<1> DEFINE Inv == OperatorsInv /\ StatusExplained
<1>1. Init => Inv
  BY DEF Init, OperatorsInv, StatusExplained, Idle, Request
<1>2. TypeInv /\ Inv /\ [Next]_vars => Inv'
  <2> SUFFICES ASSUME TypeInv, Inv, [Next]_vars PROVE Inv'
    OBVIOUS
  <2>1. OperatorsInv'
    BY OperatorsNext
  <2>2. ASSUME OperatorsExplain, NEW d \in Devices, devices'[d] # Null
        PROVE  Explained(devices'[d])
    <3>1. devices[d] # Null => devices[d] \in Row /\ Explained(devices[d])
      BY <2>2 DEF TypeInv, TypeOK, OrNull, StatusExplained, Explained, OperatorsExplain
    <3>2. CASE devices'[d] = devices[d]
      BY <2>2, <3>1, <3>2
    <3>3. CASE devices'[d] # devices[d]
      <4>1. PICK q \in Slots : Step(q)
        BY <3>3, OnlyStepsWrite
      <4>2. \/ devices[d] = Null /\ Registered(devices'[d], req[q])
            \/ devices[d] # Null /\ Rewritten(devices[d], devices'[d], req[q])
        BY <2>2, <3>3, <4>1, RowsChange
      <4>3. req[q] \in RequestType /\ Asked(req[q])
        BY DEF TypeInv, TypeOK
      <4>4. req[q].op = "update" => req[q].status = Keep /\ req[q].lastError # Null
        BY <2>2 DEF OperatorsInv, OperatorsExplain, AskedBy
      <4> QED BY <3>1, <4>2, <4>3, <4>4, ExplainedRows, ExplainedNew
    <3> QED BY <3>2, <3>3
  <2>3. StatusExplained'
    BY <2>2 DEF StatusExplained, Explained, OperatorsExplain
  <2> QED BY <2>1, <2>3
<1>3. Inv => StatusExplained
  OBVIOUS
<1> QED
  <2> HIDE DEF Inv
  <2> QED BY <1>1, <1>2, <1>3, TypeAlways, PTL DEF Spec

-----------------------------------------------------------------------------
\* A command whose publish returned was sent, if there is a client.
Published == \A q \in Slots : req[q].op = "command" /\ req[q].pc = "audit" /\ link # "none"
                => \E c \in sent : c.device = req[q].device

LEMMA PublishedNext ==
    ASSUME TypeInv, Published, [Next]_vars
    PROVE  Published'
<1> USE DEF Published
<1>1. sent \subseteq sent' /\ (link' # "none" => link # "none")
  BY DEF Next, vars, Tick, Connect, Close, Hear, Receive, Accept, Fail, Step, HeartbeatRead,
     HeartbeatCreate, HeartbeatUpdate, ErrorRead, ErrorUpdate, ScanRead, ScanUpdate, CreateDevice,
     FindDevice, EditDevice, DeleteDevice, AssignRead, AssignCreate, AssignUpdate, UnassignUpdate,
     CommandRead, Publish, AppendAudit, InsertDevice, UpdateDevice
<1>2. ASSUME NEW p \in Slots, req'[p] = req[p], req'[p].op = "command", req'[p].pc = "audit",
             link' # "none"
      PROVE  \E c \in sent' : c.device = req'[p].device
  BY <1>1, <1>2
<1>3. ASSUME NEW q \in Slots, NEW r, req' = [req EXCEPT ![q] = r],
             r.op = "command" /\ r.pc = "audit" /\ link' # "none"
                => \E c \in sent' : c.device = r.device
      PROVE  Published'
  BY <1>2, <1>3 DEF TypeInv, TypeOK
<1>4. CASE req' = req
  BY <1>2, <1>4
<1>5. ASSUME NEW q \in Slots, Hear(q) \/ Receive(q) PROVE Published'
  <2>1. PICK new : req' = [req EXCEPT ![q] = new] /\ new.pc # "audit"
    <3>1. \A d, p, t, f, e : /\ HeartbeatEvent(d, p, t).pc = "read" /\ ErrorEvent(d, f).pc = "read"
                             /\ UpdateRequest(d, e).pc = "read"
                             /\ CreateRequest(d, e, t, f).pc = "create"
      BY DEF HeartbeatEvent, ErrorEvent, UpdateRequest, CreateRequest, Request
    <3> QED BY <1>5, <3>1 DEF Hear, Receive, Accept, HeartbeatEvents, ErrorEvents, ScanRequests,
               CreateRequests, UpdateRequests, DeviceRequests, RoomRequests, Request
  <2> QED BY <1>3, <2>1
<1>6. ASSUME NEW q \in Slots, Answer(q) PROVE Published'
  BY <1>3, <1>6 DEF Answer, Idle, Request
<1>7. ASSUME NEW q \in Slots, Step(q) PROVE Published'
  <2>1. PICK r : req' = [req EXCEPT ![q] = r] /\ (r = Idle \/ KeepsAsked(r, req[q]))
    BY <1>7, StepShape
  <2>2. CASE Publish(q)
    <3>1. link' = link /\ link # "down" /\ (link = "up" => sent' = sent \cup {Command(req[q])})
      BY <2>2 DEF Publish
    <3>2. Command(req[q]).device = req[q].device
      BY DEF Command
    <3>3. ASSUME link' # "none" PROVE \E c \in sent' : c.device = req[q].device
      <4>1. link = "up"
        BY <3>1, <3>3 DEF TypeInv, TypeOK
      <4>2. Command(req[q]) \in sent'
        BY <3>1, <4>1
      <4> QED BY <3>2, <4>2
    <3> QED BY <1>3, <2>1, <3>3 DEF KeepsAsked, Idle, Request
  <2>3. CASE CommandRead(q)
    <3>1. CASE Answer(q)
      BY <1>6, <3>1
    <3>2. CASE ~Answer(q)
      <4>1. PICK p, m : req' = [req EXCEPT ![q] = [@ EXCEPT !.pc = "publish", !.property = p,
                                                          !.room = m]]
        BY <2>3, <3>2 DEF CommandRead
      <4>2. req[q] \in RequestType
        BY DEF TypeInv, TypeOK
      <4>3. [req[q] EXCEPT !.pc = "publish", !.property = p, !.room = m].pc = "publish"
        BY <4>2 DEF RequestType
      <4> QED BY <1>3, <4>1, <4>3
    <3> QED BY <3>1, <3>2
  <2>4. CASE Answer(q)
    BY <1>6, <2>4
  <2>5. CASE req[q].op # "command"
    BY <1>3, <2>1, <2>5 DEF KeepsAsked, Idle, Request
  <2>6. Publish(q) \/ CommandRead(q) \/ Answer(q) \/ req[q].op # "command"
    BY <1>7 DEF Step, AtCall, HeartbeatRead, HeartbeatCreate, HeartbeatUpdate, ErrorRead, ErrorUpdate,
       ScanRead, ScanUpdate, CreateDevice, FindDevice, EditDevice, DeleteDevice, AssignRead,
       AssignCreate, AssignUpdate, UnassignUpdate, AppendAudit
  <2> QED BY <2>2, <2>3, <2>4, <2>5, <2>6
<1> QED BY <1>4, <1>5, <1>6, <1>7 DEF Next, vars, Tick, Connect, Close, Fail

\* A command named in the audit log was given to the broker, unless the service has
\* no client, wherever handlers fail and the connection is lost
\* (devices.service.ts:327-359, mqtt.service.ts:153-182).
THEOREM IssuedAlwaysSent == Spec => []IssuedWasSent
<1> DEFINE Inv == Published /\ IssuedWasSent
<1>1. Init => Inv
  BY DEF Init, Published, IssuedWasSent, Idle, Request
<1>2. TypeInv /\ Inv /\ [Next]_vars => Inv'
  <2> SUFFICES ASSUME TypeInv, Inv, [Next]_vars PROVE Inv'
    OBVIOUS
  <2>1. Published'
    BY PublishedNext
  <2>2. /\ sent \subseteq sent' /\ (link' # "none" => link # "none")
        /\ issued' # issued => \E q \in Slots : /\ AppendAudit(q) /\ req[q].op = "command"
                                                /\ issued' = issued \cup {req[q].device}
    BY DEF Next, vars, Tick, Connect, Close, Hear, Receive, Accept, Fail, Step, HeartbeatRead,
       HeartbeatCreate, HeartbeatUpdate, ErrorRead, ErrorUpdate, ScanRead, ScanUpdate, CreateDevice,
       FindDevice, EditDevice, DeleteDevice, AssignRead, AssignCreate, AssignUpdate, UnassignUpdate,
       CommandRead, Publish, AppendAudit, InsertDevice, UpdateDevice
  <2>3. IssuedWasSent'
    BY <2>2 DEF IssuedWasSent, Published, AppendAudit
  <2> QED BY <2>1, <2>3
<1>3. Inv => IssuedWasSent
  OBVIOUS
<1> QED
  <2> HIDE DEF Inv
  <2> QED BY <1>1, <1>2, <1>3, TypeAlways, PTL DEF Spec

-----------------------------------------------------------------------------
\* A row, or a command read from one, whose room is a room of its property
InPlace(row) == row.room # Null => Home[row.room] = row.property

\* Operators take devices out of rooms at most.
OperatorsOnlyEvict == \A e \in Edits : e.room \in {Null, Keep}

PlaceInv ==
    /\ \A d \in Devices : devices[d] # Null => InPlace(devices[d])
    /\ \A q \in Slots : req[q].op = "command" /\ req[q].pc = "publish" => InPlace(req[q])
    /\ \A c \in sent : Home[c.room] = c.property

LEMMA PlacedRows ==
    ASSUME NEW old \in Row, NEW new, NEW r \in RequestType, Asked(r), InPlace(old),
           r.op = "update" => r.room \in {Null, Keep},
           Rewritten(old, new, r)
    PROVE  InPlace(new)
<1> USE DEF InPlace, Row
<1>1. CASE new = Heard(old, r)
  BY <1>1 DEF Heard
<1>2. CASE new = Faulty(old, r)
  BY <1>2 DEF Faulty
<1>3. CASE new = [old EXCEPT !.status = "OFFLINE"]
  BY <1>3
<1>4. CASE r.op = "update" /\ new = Edited(old, r)
  <2>1. new.property = old.property /\ new.room \in {old.room, Null}
    BY <1>4 DEF Edited, Given
  <2> QED BY <2>1
<1>5. CASE new = Placed(old, r.room)
  BY <1>5 DEF Placed
<1>6. CASE new = [old EXCEPT !.room = Null]
  BY <1>6
<1> QED BY <1>1, <1>2, <1>3, <1>4, <1>5, <1>6 DEF Rewritten

LEMMA PlacedNew == \A new, r : Registered(new, r) => InPlace(new)
  BY DEF Registered, NewDevice, InPlace

\* A command that waits to be published was read just before, or waited already.
LEMMA CommandsWait ==
    ASSUME TypeInv, [Next]_vars, NEW q \in Slots,
           req'[q].op = "command", req'[q].pc = "publish", req'[q] # req[q]
    PROVE  \E d \in Devices : /\ devices[d] # Null /\ devices[d].room # Null
                             /\ req'[q].room = devices[d].room
                             /\ req'[q].property = devices[d].property
<1>0. req[q] \in RequestType /\ Asked(req[q])
  BY DEF TypeInv, TypeOK
<1>1. ASSUME NEW p \in Slots, NEW r, req' = [req EXCEPT ![p] = r]
      PROVE  p = q /\ req'[q] = r
  BY <1>1 DEF TypeInv, TypeOK
<1>2. ASSUME NEW p \in Slots, Hear(p) \/ Receive(p) PROVE FALSE
  <2>1. PICK new : req' = [req EXCEPT ![p] = new] /\ new.pc # "publish"
    <3>1. \A d, e, k, t, f : /\ HeartbeatEvent(d, k, t).pc = "read" /\ ErrorEvent(d, f).pc = "read"
                             /\ UpdateRequest(d, e).pc = "read"
                             /\ CreateRequest(d, e, t, f).pc = "create"
      BY DEF HeartbeatEvent, ErrorEvent, UpdateRequest, CreateRequest, Request
    <3> QED BY <1>2, <3>1 DEF Hear, Receive, Accept, HeartbeatEvents, ErrorEvents, ScanRequests,
               CreateRequests, UpdateRequests, DeviceRequests, RoomRequests, Request
  <2> QED BY <1>1, <2>1
<1>3. ASSUME NEW p \in Slots, Answer(p) PROVE FALSE
  BY <1>1, <1>3 DEF Answer, Idle, Request
<1>4. ASSUME NEW p \in Slots, Step(p), ~Answer(p) PROVE p = q /\ CommandRead(q)
  <2>1. PICK r : req' = [req EXCEPT ![p] = r] /\ (r = Idle \/ KeepsAsked(r, req[p]))
    BY <1>4, StepShape
  <2>2. p = q /\ req[q].op = "command"
    BY <1>1, <2>1 DEF KeepsAsked, Idle, Request
  <2>3. ~Publish(q)
    <3>1. SUFFICES ASSUME Publish(q) PROVE FALSE
      OBVIOUS
    <3>2. req' = [req EXCEPT ![q] = [@ EXCEPT !.pc = "audit"]]
      BY <3>1 DEF Publish, Await
    <3> QED BY <1>0, <1>1, <3>2 DEF RequestType
  <2> QED BY <1>4, <2>2, <2>3 DEF Step, AtCall, HeartbeatRead, HeartbeatCreate, HeartbeatUpdate,
             ErrorRead, ErrorUpdate, ScanRead, ScanUpdate, CreateDevice, FindDevice, EditDevice,
             DeleteDevice, AssignRead, AssignCreate, AssignUpdate, UnassignUpdate, AppendAudit
<1>5. PICK p \in Slots : Step(p) /\ ~Answer(p)
  BY <1>2, <1>3 DEF Next, vars, Tick, Connect, Close, Fail
<1>6. CommandRead(q) /\ ~Answer(q)
  BY <1>4, <1>5
<1> DEFINE row == devices[req[q].device]
           r == [req[q] EXCEPT !.pc = "publish", !.property = row.property, !.room = row.room]
<1>7. req' = [req EXCEPT ![q] = r] /\ row # Null /\ row.room # Null
  BY <1>6 DEF CommandRead
<1>8. r.room = row.room /\ r.property = row.property
  BY <1>0 DEF RequestType
<1>9. req[q].device \in Devices
  BY <1>0, <1>6 DEF Asked, CommandRead, AtCall, Ops
<1> HIDE DEF r
<1> QED BY <1>1, <1>7, <1>8, <1>9

LEMMA PlaceNext ==
    ASSUME OperatorsOnlyEvict, TypeInv, OperatorsInv, PlaceInv, [Next]_vars
    PROVE  PlaceInv'
<1>1. ASSUME NEW d \in Devices, devices'[d] # Null PROVE InPlace(devices'[d])
  <2>1. devices[d] # Null => devices[d] \in Row /\ InPlace(devices[d])
    BY DEF TypeInv, TypeOK, OrNull, PlaceInv
  <2>2. CASE devices'[d] = devices[d]
    BY <1>1, <2>1, <2>2
  <2>3. CASE devices'[d] # devices[d]
    <3>1. PICK q \in Slots : Step(q)
      BY <2>3, OnlyStepsWrite
    <3>2. \/ devices[d] = Null /\ Registered(devices'[d], req[q])
          \/ devices[d] # Null /\ Rewritten(devices[d], devices'[d], req[q])
      BY <1>1, <2>3, <3>1, RowsChange
    <3>3. req[q] \in RequestType /\ Asked(req[q])
      BY DEF TypeInv, TypeOK
    <3>4. req[q].op = "update" => req[q].room \in {Null, Keep}
      BY DEF OperatorsInv, OperatorsOnlyEvict, AskedBy
    <3> QED BY <2>1, <3>2, <3>3, <3>4, PlacedRows, PlacedNew
  <2> QED BY <2>2, <2>3
<1>2. ASSUME NEW q \in Slots, req'[q].op = "command", req'[q].pc = "publish" PROVE InPlace(req'[q])
  <2>1. CASE req'[q] = req[q]
    BY <1>2, <2>1 DEF PlaceInv
  <2>2. CASE req'[q] # req[q]
    BY <1>2, <2>2, CommandsWait DEF PlaceInv, InPlace
  <2> QED BY <2>1, <2>2
<1>3. ASSUME NEW c \in sent' PROVE Home[c.room] = c.property
  <2>1. sent' = sent \/ \E q \in Slots : Publish(q) /\ sent' = sent \cup {Command(req[q])}
    BY DEF Next, vars, Tick, Connect, Close, Hear, Receive, Accept, Fail, Step, HeartbeatRead,
       HeartbeatCreate, HeartbeatUpdate, ErrorRead, ErrorUpdate, ScanRead, ScanUpdate, CreateDevice,
       FindDevice, EditDevice, DeleteDevice, AssignRead, AssignCreate, AssignUpdate, UnassignUpdate,
       CommandRead, Publish, AppendAudit, InsertDevice, UpdateDevice
  <2>2. ASSUME NEW q \in Slots, Publish(q), c = Command(req[q]) PROVE Home[c.room] = c.property
    <3>1. req[q] \in RequestType /\ Asked(req[q]) /\ req[q].op = "command" /\ req[q].pc = "publish"
      BY <2>2 DEF TypeInv, TypeOK, Publish, AtCall
    <3>2. InPlace(req[q]) /\ req[q].room # Null
      BY <3>1 DEF PlaceInv, Asked
    <3> QED BY <2>2, <3>2 DEF Command, InPlace
  <2> QED BY <2>1, <2>2 DEF PlaceInv
<1> QED BY <1>1, <1>2, <1>3 DEF PlaceInv

\* While operators take devices out of rooms at most, the topic of every command
\* names a room and the property that room is in, although devices are moved and
\* removed between the read and the publish (devices.service.ts:327-338).
THEOREM CommandsAlwaysReach == Spec => []CommandsReachTheRoom
<1> DEFINE Inv == OperatorsInv /\ (OperatorsOnlyEvict => PlaceInv)
<1>1. Init => Inv
  BY DEF Init, OperatorsInv, PlaceInv, Idle, Request
<1>2. TypeInv /\ Inv /\ [Next]_vars => Inv'
  BY OperatorsNext, PlaceNext
<1>3. Inv => CommandsReachTheRoom
  BY DEF CommandsReachTheRoom, OperatorsOnlyEvict, PlaceInv
<1> QED
  <2> HIDE DEF Inv
  <2> QED BY <1>1, <1>2, <1>3, TypeAlways, PTL DEF Spec

-----------------------------------------------------------------------------
(* Where scans and heartbeats of one device keep apart, only stale devices go OFFLINE. *)

\* What a scan found is stale until it is done with it.
StaleInv == \A q \in Slots, d \in Devices :
                Scanning(q, d) /\ devices[d] # Null => IsStale(devices[d])

LEMMA HistoryIsSpec == HistorySpec => Spec
<1>1. [HistoryNext]_historyVars => [Next]_vars
  BY DEF HistoryNext, historyVars, vars
<1> QED BY <1>1, PTL DEF HistorySpec, HistoryInit, Spec

LEMMA ApartInit == Init => Apart
<1>1. ASSUME Init, NEW q \in Slots PROVE req[q].op # "scan"
  BY <1>1 DEF Init, Idle, Request
<1> QED BY <1>1 DEF Apart, Scanning, AtCall

\* The history says nothing of an overlap only while there has been none.
LEMMA OverlapNext ==
    ASSUME [HistoryNext]_historyVars, overlapped \in BOOLEAN, overlapped \/ Apart, ~overlapped'
    PROVE  ~overlapped /\ Apart /\ Apart'
<1>1. CASE HistoryNext
  BY <1>1 DEF HistoryNext
<1>2. CASE UNCHANGED historyVars
  BY <1>2 DEF historyVars, vars, Apart, Scanning, Hearing, AtCall
<1> QED BY <1>1, <1>2

\* The last heartbeat of a device is written by heartbeats alone.
LEMMA BeatsChange ==
    ASSUME TypeInv, NEW q \in Slots, Step(q), NEW d \in Devices,
           devices'[d] # devices[d], devices'[d] # Null, ~Hearing(q, d)
    PROVE  \/ devices'[d].lastHeartbeatAt = Null
           \/ devices[d] # Null /\ devices'[d].lastHeartbeatAt = devices[d].lastHeartbeatAt
<1>0. devices[d] # Null => devices[d] \in Row
  BY DEF TypeInv, TypeOK, OrNull
<1>1. CASE HeartbeatUpdate(q)
  BY <1>1, UpdatedRow DEF HeartbeatUpdate, Hearing
<1>2. CASE HeartbeatCreate(q)
  <2>1. req[q].device = d
    BY <1>2 DEF HeartbeatCreate, InsertDevice, TypeInv, TypeOK
  <2> QED BY <1>2, <2>1 DEF HeartbeatCreate, Hearing
<1>3. CASE CreateDevice(q) \/ AssignCreate(q)
  BY <1>3, InsertedRow DEF CreateDevice, AssignCreate, NewDevice
<1>4. CASE \/ ErrorUpdate(q) \/ ScanUpdate(q) \/ EditDevice(q) \/ DeleteDevice(q)
           \/ AssignUpdate(q) \/ UnassignUpdate(q)
  <2>1. devices[d] # Null
    BY <1>4, UpdatedRow
    DEF ErrorUpdate, ScanUpdate, EditDevice, DeleteDevice, AssignUpdate, UnassignUpdate
  <2>2. Rewritten(devices[d], devices'[d], req[q])
    BY <2>1, RowsChange
  <2>3. req[q].op # "heartbeat"
    BY <1>4 DEF ErrorUpdate, ScanUpdate, EditDevice, DeleteDevice, AssignUpdate, UnassignUpdate, AtCall
  <2> QED BY <1>0, <2>1, <2>2, <2>3 DEF Rewritten, Faulty, Edited, Placed, Row
<1> QED
  BY <1>1, <1>2, <1>3, <1>4 DEF Step, HeartbeatRead, ErrorRead, ScanRead, FindDevice, AssignRead,
     CommandRead, Publish, AppendAudit

\* A scan begins with devices that are stale when it reads them.
LEMMA ScanStarts ==
    ASSUME TypeInv, [Next]_vars, NEW q \in Slots, NEW d \in Devices,
           req'[q].op = "scan", req'[q].pc = "update", d \in req'[q].found, ~Scanning(q, d)
    PROVE  IsStale(devices[d]) /\ devices' = devices /\ now' = now
<1>0. /\ req[q] \in RequestType /\ Asked(req[q]) /\ req \in [Slots -> RequestType]
      /\ req'[q] # req[q]
  BY DEF TypeInv, TypeOK, Scanning, AtCall
<1>1. PICK s \in Slots : Hear(s) \/ Receive(s) \/ Step(s) \/ Fail(s)
  BY <1>0 DEF Next, vars, Tick, Connect, Close
<1>2. ASSUME NEW r, req' = [req EXCEPT ![s] = r] PROVE s = q /\ r = req'[q]
  BY <1>0, <1>2
<1>3. ~Answer(s)
  BY <1>2 DEF Answer, Idle, Request
<1>4. ASSUME NEW pc, Await(s, pc)
      PROVE  req[s].op = "scan" /\ req[s].pc = "read"
  <2>1. PICK r : r = (IF pc = "idle" THEN Idle ELSE [req[s] EXCEPT !.pc = pc])
    OBVIOUS
  <2>2. s = q /\ r = req'[q]
    BY <1>2, <1>4, <2>1 DEF Await
  <2>3. Idle.op = "none"
    BY DEF Idle, Request
  <2>4. req[q].op = "scan" /\ req[q].found = req'[q].found
    BY <1>0, <2>1, <2>2, <2>3 DEF RequestType
  <2> QED BY <1>0, <2>2, <2>4 DEF Asked, Scanning, AtCall
<1>5. ~Hear(s) /\ ~Receive(s)
  <2>1. SUFFICES ASSUME Hear(s) \/ Receive(s) PROVE FALSE
    OBVIOUS
  <2> DEFINE All == HeartbeatEvents \cup ErrorEvents \cup ScanRequests \cup CreateRequests
                    \cup UpdateRequests \cup DeviceRequests \cup RoomRequests
  <2>2. PICK new \in All : req' = [req EXCEPT ![s] = new]
    BY <2>1 DEF Hear, Receive, Accept
  <2>3. new.op = "scan" /\ new.pc = "update"
    BY <1>2, <2>2
  <2>4. new \notin HeartbeatEvents /\ new \notin ErrorEvents
    BY <2>3, EventOps DEF HeartbeatEvents, ErrorEvents
  <2>5. new \notin UpdateRequests
    <3>1. ASSUME NEW e, NEW f PROVE UpdateRequest(e, f).op = "update"
      BY DEF UpdateRequest, Request
    <3> QED BY <2>3, <3>1 DEF UpdateRequests
  <2> QED
    BY <2>2, <2>3, <2>4, <2>5, EventOps
    DEF ScanRequests, CreateRequests, DeviceRequests, RoomRequests, Request
<1>6. CASE ScanRead(s)
  <2>1. PICK stale : /\ stale = {e \in Devices : /\ devices[e] # Null /\ devices[e].status = "ONLINE"
                                                 /\ IsStale(devices[e])}
                     /\ req' = [req EXCEPT ![s] = [req[s] EXCEPT !.pc = "update", !.found = stale]]
    BY <1>3, <1>6 DEF ScanRead, Answer
  <2>2. req'[q].found = stale
    BY <1>0, <1>2, <2>1 DEF RequestType
  <2> QED BY <1>6, <2>1, <2>2 DEF ScanRead
<1>7. CASE HeartbeatRead(s) \/ CommandRead(s)
  <2>1. PICK r : req' = [req EXCEPT ![s] = r] /\ r.op = req[s].op /\ req[s].op # "scan"
    BY <1>0, <1>3, <1>7 DEF HeartbeatRead, CommandRead, AtCall, RequestType
  <2> QED BY <1>2, <2>1
<1>8. CASE \/ HeartbeatCreate(s) \/ HeartbeatUpdate(s) \/ ErrorRead(s) \/ ErrorUpdate(s)
           \/ ScanUpdate(s) \/ CreateDevice(s) \/ FindDevice(s) \/ EditDevice(s) \/ DeleteDevice(s)
           \/ AssignRead(s) \/ AssignCreate(s) \/ AssignUpdate(s) \/ UnassignUpdate(s)
           \/ Publish(s) \/ AppendAudit(s)
  <2>1. PICK pc : Await(s, pc)
    BY <1>3, <1>8
    DEF HeartbeatCreate, HeartbeatUpdate, ErrorRead, ErrorUpdate, ScanUpdate, CreateDevice,
        FindDevice, EditDevice, DeleteDevice, AssignRead, AssignCreate, AssignUpdate,
        UnassignUpdate, Publish, AppendAudit, InsertDevice, UpdateDevice
  <2>2. req[s].op = "scan" /\ req[s].pc = "read"
    BY <1>4, <2>1
  <2> QED
    BY <1>8, <2>2
    DEF HeartbeatCreate, HeartbeatUpdate, ErrorRead, ErrorUpdate, ScanUpdate, CreateDevice,
        FindDevice, EditDevice, DeleteDevice, AssignRead, AssignCreate, AssignUpdate,
        UnassignUpdate, Publish, AppendAudit, AtCall
<1> QED BY <1>1, <1>3, <1>5, <1>6, <1>7, <1>8 DEF Step, Fail

\* What is stale stays so until it is heard of.
LEMMA StaysStale ==
    ASSUME TypeInv, [Next]_vars, NEW row, NEW new, row.lastHeartbeatAt \in OrNull(Time), IsStale(row),
           new.lastHeartbeatAt = Null \/ new.lastHeartbeatAt = row.lastHeartbeatAt
    PROVE  IsStale(new)'
<1>1. now \in Nat /\ (now' = now \/ now' = now + 1)
  <2>1. ASSUME NEW q \in Slots, Step(q) PROVE now' = now
    BY <2>1 DEF Step, HeartbeatRead, HeartbeatCreate, HeartbeatUpdate, ErrorRead, ErrorUpdate,
       ScanRead, ScanUpdate, CreateDevice, FindDevice, EditDevice, DeleteDevice, AssignRead,
       AssignCreate, AssignUpdate, UnassignUpdate, CommandRead, Publish, AppendAudit, InsertDevice,
       UpdateDevice
  <2>2. now' = now \/ Tick
    BY <2>1 DEF Next, vars, Connect, Close, Hear, Receive, Accept, Fail
  <2> QED BY <2>2 DEF Tick, TypeInv, TypeOK, Time
<1> QED BY <1>1 DEF IsStale, OrNull, Time

LEMMA StaleNext ==
    ASSUME TypeInv, Apart, StaleInv, [Next]_vars
    PROVE  StaleInv'
<1>1. SUFFICES ASSUME NEW q \in Slots, NEW d \in Devices, Scanning(q, d)', devices'[d] # Null
               PROVE  IsStale(devices[d])'
  BY DEF StaleInv
<1>2. req'[q].op = "scan" /\ req'[q].pc = "update" /\ d \in req'[q].found
  BY <1>1 DEF Scanning, AtCall
<1>3. PICK row, new : row = devices[d] /\ new = devices'[d]
  OBVIOUS
<1>4. row # Null => row.lastHeartbeatAt \in OrNull(Time)
  BY <1>3 DEF TypeInv, TypeOK, OrNull, Row
<1>5. CASE ~Scanning(q, d)
  <2>1. IsStale(row) /\ devices' = devices
    BY <1>2, <1>3, <1>5, ScanStarts
  <2> QED BY <1>1, <1>3, <1>4, <2>1, StaysStale DEF IsStale
<1>6. CASE Scanning(q, d) /\ new = row
  <2>1. IsStale(row) /\ row # Null
    BY <1>1, <1>3, <1>6 DEF StaleInv
  <2> QED BY <1>3, <1>4, <1>6, <2>1, StaysStale DEF IsStale
<1>7. CASE Scanning(q, d) /\ new # row
  <2>1. PICK s \in Slots : Step(s)
    BY <1>3, <1>7, OnlyStepsWrite
  <2>2. ~Hearing(s, d)
    BY <1>7 DEF Apart
  <2>3. new.lastHeartbeatAt = Null \/ (row # Null /\ new.lastHeartbeatAt = row.lastHeartbeatAt)
    BY <1>1, <1>3, <1>7, <2>1, <2>2, BeatsChange
  <2>4. row # Null => IsStale(row)
    BY <1>3, <1>7 DEF StaleInv
  <2>5. CASE new.lastHeartbeatAt = Null
    BY <1>3, <2>5 DEF IsStale
  <2>6. CASE row # Null /\ new.lastHeartbeatAt = row.lastHeartbeatAt
    BY <1>3, <1>4, <2>4, <2>6, StaysStale DEF IsStale
  <2> QED BY <2>3, <2>5, <2>6
<1> QED BY <1>5, <1>6, <1>7

LEMMA OfflineNext ==
    ASSUME OperatorsLeaveOn, TypeInv, OperatorsInv, StaleInv, [Next]_vars, NEW d \in Devices,
           devices[d] # Null, devices[d].status = "ONLINE",
           devices'[d] # Null, devices'[d].status = "OFFLINE"
    PROVE  IsStale(devices[d])
<1>1. devices[d] \in Row /\ devices'[d] # devices[d]
  BY DEF TypeInv, TypeOK, OrNull
<1>2. PICK q \in Slots : Step(q)
  BY <1>1, OnlyStepsWrite
<1>3. Rewritten(devices[d], devices'[d], req[q])
  BY <1>1, <1>2, RowsChange
<1>4. CASE ScanUpdate(q)
  <2>1. Scanning(q, d)
    BY <1>1, <1>4 DEF ScanUpdate, Scanning
  <2> QED BY <2>1 DEF StaleInv
<1>5. CASE ~ScanUpdate(q)
  <2>1. req[q].op # "scan"
    BY <1>1, <1>2, <1>5 DEF Step, HeartbeatRead, HeartbeatCreate, HeartbeatUpdate, ErrorRead,
       ErrorUpdate, ScanRead, CreateDevice, FindDevice, EditDevice, DeleteDevice, AssignRead,
       AssignCreate, AssignUpdate, UnassignUpdate, CommandRead, Publish, AppendAudit, AtCall
  <2>2. req[q].op = "update" => req[q].status # "OFFLINE"
    BY DEF OperatorsInv, OperatorsLeaveOn, AskedBy
  <2> QED
    BY <1>1, <1>3, <2>1, <2>2 DEF Rewritten, Heard, Faulty, Edited, Given, Placed, Row
<1> QED BY <1>4, <1>5

\* What checkStaleDevices lacks to keep its word (devices.service.ts:130) is that no
\* heartbeat of a device it found comes between its two calls (138-158): until that has
\* happened, whatever else overlaps or fails, a device that goes OFFLINE unasked has not
\* been heard of.
THEOREM OnlyStaleBeforeOverlap == HistorySpec => OnlyStaleGoOfflineUntilOverlap
<1> DEFINE Inv == /\ overlapped \in BOOLEAN
                  /\ OperatorsInv
                  /\ overlapped \/ (Apart /\ StaleInv)
<1>1. HistoryInit => Inv
  <2>1. Init => OperatorsInv /\ StaleInv
    BY DEF Init, OperatorsInv, StaleInv, Scanning, AtCall, Idle, Request
  <2> QED BY <2>1, ApartInit DEF HistoryInit
<1>2. TypeInv /\ Inv /\ [HistoryNext]_historyVars => Inv'
  <2> SUFFICES ASSUME TypeInv, Inv, [HistoryNext]_historyVars PROVE Inv'
    OBVIOUS
  <2>1. [Next]_vars
    BY DEF HistoryNext, historyVars, vars
  <2>2. overlapped' \in BOOLEAN
    BY DEF HistoryNext, historyVars
  <2>3. OperatorsInv'
    BY <2>1, OperatorsNext
  <2>4. ASSUME ~overlapped' PROVE Apart' /\ StaleInv'
    BY <2>1, <2>4, OverlapNext, StaleNext
  <2> QED BY <2>2, <2>3, <2>4
<1>3. TypeInv /\ Inv /\ [HistoryNext]_historyVars =>
        [OperatorsLeaveOn /\ ~overlapped =>
            \A d \in Devices :
               /\ devices[d] # Null /\ devices[d].status = "ONLINE"
               /\ devices'[d] # Null /\ devices'[d].status = "OFFLINE"
               => IsStale(devices[d])]_historyVars
  <2> SUFFICES ASSUME TypeInv, Inv, [HistoryNext]_historyVars, OperatorsLeaveOn, ~overlapped,
                      NEW d \in Devices,
                      devices[d] # Null, devices[d].status = "ONLINE",
                      devices'[d] # Null, devices'[d].status = "OFFLINE"
               PROVE  IsStale(devices[d])
    OBVIOUS
  <2>1. [Next]_vars
    BY DEF HistoryNext, historyVars, vars
  <2> QED BY <2>1, OfflineNext
<1> QED
  <2> HIDE DEF Inv
  <2> QED
    BY <1>1, <1>2, <1>3, TypeAlways, HistoryIsSpec, PTL
    DEF HistorySpec, OnlyStaleGoOfflineUntilOverlap

=============================================================================
