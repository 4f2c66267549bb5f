-------------------------- MODULE HierarchyProofs --------------------------
(***************************************************************************)
(* What holds of Hierarchy for every set of properties, buildings, floors  *)
(* and rooms, whatever requests are in flight and wherever they fail.      *)
(***************************************************************************)
EXTENDS Hierarchy, TLAPS

\* What a handler knows about its own request at each call
Asked(r) ==
    /\ r.op = "none" <=> r.pc = "idle"
    /\ r.pc = "property" => r.op \in {"updateProperty", "createBuilding", "createRoom"}
    /\ r.pc = "building" => r.op \in {"updateBuilding", "createFloor", "createRoom"}
    /\ r.pc = "floor" => r.op \in {"updateFloor", "createRoom"}
    /\ r.pc = "room" => r.op = "updateRoom"
    /\ r.op \in {"createProperty", "updateProperty"} => r.label \in Codes \cup {Keep}
    /\ r.op \in {"createBuilding", "updateBuilding"} => r.label \in Names \cup {Keep}
    /\ r.op \in {"createFloor", "updateFloor", "createRoom", "updateRoom"}
          => r.label \in Numbers \cup {Keep}
    /\ r.op \in {"createProperty", "createBuilding", "createFloor", "createRoom"} => r.label # Keep
    /\ r.op = "createRoom" => /\ r.pc \in {"building", "floor"} => r.property \in Properties
                              /\ r.pc = "floor" => r.building \in Buildings
    /\ r.pc = "write" =>
          /\ r.op \in {"updateProperty", "createBuilding", "createRoom"} => r.property \in Properties
          /\ r.op \in {"updateBuilding", "createFloor", "createRoom"} => r.building \in Buildings
          /\ r.op \in {"updateFloor", "createRoom"} => r.floor \in Floors
          /\ r.op = "updateRoom" => r.room \in Rooms

\* The rows a request names are there.
Found(r) ==
    /\ r.property \in Properties => properties[r.property] # Null
    /\ r.building \in Buildings => buildings[r.building] # Null
    /\ r.floor \in Floors => floors[r.floor] # Null
    /\ r.room \in Rooms => rooms[r.room] # Null

TypeInv == TypeOK /\ \A q \in Slots : Asked(req[q]) /\ Found(req[q])

\* No row vanishes, and none changes its home.
Stays ==
    /\ \A p \in Properties : properties[p] # Null => properties'[p] # Null
    /\ \A b \in Buildings : buildings[b] # Null
          => buildings'[b] # Null /\ buildings'[b].property = buildings[b].property
    /\ \A f \in Floors : floors[f] # Null
          => floors'[f] # Null /\ floors'[f].building = floors[f].building
    /\ \A r \in Rooms : rooms[r] # Null
          => rooms'[r] # Null /\ rooms'[r].property = rooms[r].property

Typed ==
    /\ properties \in [Properties -> OrNull(Codes)]
    /\ buildings \in [Buildings -> OrNull(Building)]
    /\ floors \in [Floors -> OrNull(Floor)]
    /\ rooms \in [Rooms -> OrNull(Room)]

USE NullAssumption, UpperAssumption

LEMMA TypeInit == Init => TypeInv
  BY DEF Init, TypeInv, TypeOK, Asked, Found, Idle, Request, RequestType, OrNull, Ops, PCs

\* A step of one handler keeps the invariant if its request stays in order and the
\* tables stay typed and keep their rows.
LEMMA RequestStep ==
    ASSUME TypeInv, NEW q \in Slots, NEW r \in RequestType, Asked(r), Found(r),
           req' = [req EXCEPT ![q] = r], Typed', Stays
    PROVE  TypeInv'
<1>1. TypeOK'
  BY DEF TypeInv, TypeOK, Typed
<1>2. ASSUME NEW s, s = r \/ \E p \in Slots : s = req[p] PROVE Asked(s) /\ Found(s)'
  <2>1. Asked(s) /\ Found(s)
    BY <1>2 DEF TypeInv
  <2> QED BY <2>1 DEF Found, Stays
<1>3. \A p \in Slots : req'[p] = IF p = q THEN r ELSE req[p]
  BY DEF TypeInv, TypeOK
<1>4. \A p \in Slots : (Asked(req[p]) /\ Found(req[p]))'
  BY <1>2, <1>3 DEF Asked, Found
<1> QED BY <1>1, <1>4 DEF TypeInv

LEMMA TablesKept == ASSUME TypeInv, UNCHANGED tables PROVE Typed' /\ Stays
  BY DEF TypeInv, TypeOK, Typed, Stays, tables

LEMMA IdleInOrder == Idle \in RequestType /\ Asked(Idle) /\ Found(Idle)
  BY DEF Idle, Request, RequestType, OrNull, Asked, Found, Ops

LEMMA AnswerStep ==
    ASSUME TypeInv, NEW q \in Slots, Answer(q), Typed', Stays
    PROVE  TypeInv'
  BY IdleInOrder, RequestStep DEF Answer

LEMMA AwaitStep ==
    ASSUME TypeInv, NEW q \in Slots, NEW pc \in PCs, Await(q, pc),
           Asked([req[q] EXCEPT !.pc = pc]), Typed', Stays
    PROVE  TypeInv'
<1> DEFINE r == [req[q] EXCEPT !.pc = pc]
<1>1. req[q] \in RequestType /\ Found(req[q])
  BY DEF TypeInv, TypeOK
<1>2. r \in RequestType /\ Found(r) /\ Asked(r)
  BY <1>1 DEF RequestType, Found
<1>3. req' = [req EXCEPT ![q] = r]
  BY DEF Await
<1> HIDE DEF r
<1> QED BY <1>2, <1>3, RequestStep

-----------------------------------------------------------------------------
(* The writes: each keeps the tables typed and every row in its home.       *)

LEMMA PropertyWriteStep ==
    ASSUME TypeInv, NEW q \in Slots, NEW p \in Properties, NEW code \in Codes,
           Asked([req[q] EXCEPT !.pc = "audit"]),
           PropertyWrite(q, p, code, "audit")
    PROVE  TypeInv' /\ Stays
<1>1. Typed' /\ Stays
  BY DEF PropertyWrite, TypeInv, TypeOK, Typed, Stays, OrNull
<1>2. Answer(q) \/ Await(q, "audit")
  BY DEF PropertyWrite
<1>3. "audit" \in PCs
  BY DEF PCs
<1> QED BY <1>1, <1>2, <1>3, AnswerStep, AwaitStep

LEMMA BuildingWriteStep ==
    ASSUME TypeInv, NEW q \in Slots, NEW b \in Buildings, NEW row \in Building,
           buildings[b] # Null => buildings[b].property = row.property,
           BuildingWrite(q, b, row)
    PROVE  TypeInv' /\ Stays
<1>1. Typed' /\ Stays
  BY DEF BuildingWrite, TypeInv, TypeOK, Typed, Stays, OrNull
<1> QED BY <1>1, AnswerStep DEF BuildingWrite

LEMMA FloorWriteStep ==
    ASSUME TypeInv, NEW q \in Slots, NEW f \in Floors, NEW row \in Floor,
           floors[f] # Null => floors[f].building = row.building,
           FloorWrite(q, f, row)
    PROVE  TypeInv' /\ Stays
<1>1. Typed' /\ Stays
  BY DEF FloorWrite, TypeInv, TypeOK, Typed, Stays, OrNull
<1> QED BY <1>1, AnswerStep DEF FloorWrite

LEMMA RoomWriteStep ==
    ASSUME TypeInv, NEW q \in Slots, NEW r \in Rooms, NEW row,
           row.building \in Buildings /\ row.floor \in Floors => row \in Room,
           rooms[r] # Null => rooms[r].property = row.property,
           Asked([req[q] EXCEPT !.pc = "audit"]),
           RoomWrite(q, r, row)
    PROVE  TypeInv' /\ Stays
<1>1. Typed' /\ Stays
  BY DEF RoomWrite, TypeInv, TypeOK, Typed, Stays, OrNull
<1>2. Answer(q) \/ Await(q, "audit")
  BY DEF RoomWrite
<1>3. "audit" \in PCs
  BY DEF PCs
<1> QED BY <1>1, <1>2, <1>3, AnswerStep, AwaitStep

\* A request that moves on to another call is otherwise as it was.
LEMMA MovedOn ==
    ASSUME NEW old \in RequestType, Asked(old), old.op # "none", NEW pc \in PCs, pc \notin {"room"},
           pc = "building" => old.op = "createRoom" /\ old.property \in Properties,
           pc = "floor" => /\ old.op = "createRoom" /\ old.property \in Properties
                           /\ old.building \in Buildings,
           pc = "property" => FALSE,
           pc = "write" =>
             /\ old.op \in {"updateProperty", "createBuilding", "createRoom"}
                   => old.property \in Properties
             /\ old.op \in {"updateBuilding", "createFloor", "createRoom"}
                   => old.building \in Buildings
             /\ old.op \in {"updateFloor", "createRoom"} => old.floor \in Floors
             /\ old.op = "updateRoom" => old.room \in Rooms
    PROVE  Asked([old EXCEPT !.pc = pc])
<1> DEFINE r == [old EXCEPT !.pc = pc]
<1>1. /\ r.op = old.op /\ r.pc = pc /\ r.property = old.property /\ r.building = old.building
      /\ r.floor = old.floor /\ r.room = old.room /\ r.label = old.label
  BY DEF RequestType
<1>2. pc # "idle"
  BY DEF PCs
<1> HIDE DEF r
<1> QED BY <1>1, <1>2 DEF Asked

LEMMA ReadStep ==
    ASSUME TypeInv, NEW q \in Slots,
           ReadProperty(q) \/ ReadBuilding(q) \/ ReadFloor(q) \/ ReadRoom(q)
    PROVE  TypeInv' /\ Stays
<1>0. /\ req[q] \in RequestType /\ Asked(req[q]) /\ Found(req[q])
      /\ "building" \in PCs /\ "floor" \in PCs /\ "write" \in PCs
  BY DEF TypeInv, TypeOK, PCs
<1>1. Typed' /\ Stays
  BY TablesKept DEF ReadProperty, ReadBuilding, ReadFloor, ReadRoom
<1>2. CASE Answer(q)
  BY <1>1, <1>2, AnswerStep
<1>3. ASSUME NEW pc \in PCs, Await(q, pc), Asked([req[q] EXCEPT !.pc = pc]) PROVE TypeInv'
  BY <1>1, <1>3, AwaitStep
<1>4. CASE ReadProperty(q) /\ ~Answer(q)
  <2>1. /\ req[q].pc = "property" /\ req[q].property \in Properties
        /\ Await(q, IF req[q].op = "createRoom" THEN "building" ELSE "write")
    BY <1>4 DEF ReadProperty
  <2>2. CASE req[q].op = "createRoom"
    <3>1. Asked([req[q] EXCEPT !.pc = "building"])
      BY <1>0, <2>1, <2>2, MovedOn DEF Asked
    <3> QED BY <1>0, <1>1, <1>3, <2>1, <2>2, <3>1
  <2>3. CASE req[q].op # "createRoom"
    <3>1. Asked([req[q] EXCEPT !.pc = "write"])
      BY <1>0, <2>1, <2>3, MovedOn DEF Asked
    <3> QED BY <1>0, <1>1, <1>3, <2>1, <2>3, <3>1
  <2> QED BY <2>2, <2>3
<1>5. CASE ReadBuilding(q) /\ ~Answer(q)
  <2>1. /\ req[q].pc = "building" /\ req[q].building \in Buildings
        /\ Await(q, IF req[q].op = "createRoom" THEN "floor" ELSE "write")
    BY <1>5 DEF ReadBuilding, BuildingFits
  <2>2. CASE req[q].op = "createRoom"
    <3>1. Asked([req[q] EXCEPT !.pc = "floor"])
      BY <1>0, <2>1, <2>2, MovedOn DEF Asked
    <3> QED BY <1>0, <1>1, <1>3, <2>1, <2>2, <3>1
  <2>3. CASE req[q].op # "createRoom"
    <3>1. Asked([req[q] EXCEPT !.pc = "write"])
      BY <1>0, <2>1, <2>3, MovedOn DEF Asked
    <3> QED BY <1>0, <1>1, <1>3, <2>1, <2>3, <3>1
  <2> QED BY <2>2, <2>3
<1>6. CASE ReadFloor(q) /\ ~Answer(q)
  <2>1. req[q].pc = "floor" /\ req[q].floor \in Floors /\ Await(q, "write")
    BY <1>6 DEF ReadFloor, FloorFits
  <2>2. Asked([req[q] EXCEPT !.pc = "write"])
    BY <1>0, <2>1, MovedOn DEF Asked
  <2> QED BY <1>0, <1>1, <1>3, <2>1, <2>2
<1>7. CASE ReadRoom(q) /\ ~Answer(q)
  <2>1. req[q].pc = "room" /\ req[q].room \in Rooms /\ Await(q, "write")
    BY <1>7 DEF ReadRoom
  <2>2. Asked([req[q] EXCEPT !.pc = "write"])
    BY <1>0, <2>1, MovedOn DEF Asked
  <2> QED BY <1>0, <1>1, <1>3, <2>1, <2>2
<1> QED BY <1>1, <1>2, <1>4, <1>5, <1>6, <1>7

-----------------------------------------------------------------------------
LEMMA Spelling == \A c \in Codes : Upper[c] \in Codes
  OBVIOUS

LEMMA AuditNext ==
    ASSUME NEW old \in RequestType, Asked(old), old.pc = "write"
    PROVE  Asked([old EXCEPT !.pc = "audit"])
<1>1. "audit" \in PCs /\ old.op # "none"
  BY DEF PCs, Asked
<1> QED BY <1>1, MovedOn

LEMMA WriteStep ==
    ASSUME TypeInv, NEW q \in Slots,
           \/ CreateProperty(q) \/ UpdateProperty(q) \/ CreateBuilding(q) \/ UpdateBuilding(q)
           \/ CreateFloor(q) \/ UpdateFloor(q) \/ CreateRoom(q) \/ UpdateRoom(q)
    PROVE  TypeInv' /\ Stays
<1> USE DEF AtCall
<1>0. req[q] \in RequestType /\ Asked(req[q]) /\ Found(req[q]) /\ req[q].pc = "write"
  BY DEF TypeInv, TypeOK, CreateProperty, UpdateProperty, CreateBuilding, UpdateBuilding,
     CreateFloor, UpdateFloor, CreateRoom, UpdateRoom
<1>a. Asked([req[q] EXCEPT !.pc = "audit"])
  BY <1>0, AuditNext
<1>1. CASE CreateProperty(q)
  <2>1. PICK p \in Properties : PropertyWrite(q, p, Upper[req[q].label], "audit")
    BY <1>1 DEF CreateProperty
  <2>2. Upper[req[q].label] \in Codes
    BY <1>0, <1>1, Spelling DEF CreateProperty, Asked
  <2> QED BY <1>a, <2>1, <2>2, PropertyWriteStep
<1>2. CASE UpdateProperty(q)
  <2> DEFINE p == req[q].property
             code == EditedCode(properties[p], req[q].label)
  <2>1. p \in Properties /\ properties[p] \in Codes
    BY <1>0, <1>2 DEF UpdateProperty, Asked, Found, TypeInv, TypeOK, OrNull
  <2>2. code \in Codes
    BY <1>0, <1>2, <2>1, Spelling DEF UpdateProperty, Asked, EditedCode
  <2>3. PropertyWrite(q, p, code, "audit")
    BY <1>2 DEF UpdateProperty
  <2> HIDE DEF code
  <2> QED BY <1>a, <2>1, <2>2, <2>3, PropertyWriteStep
<1>3. CASE CreateBuilding(q)
  <2> DEFINE row == [property |-> req[q].property, name |-> req[q].label]
  <2>1. row \in Building
    BY <1>0, <1>3 DEF CreateBuilding, Asked, Building
  <2>2. PICK b \in Buildings : buildings[b] = Null /\ BuildingWrite(q, b, row)
    BY <1>3 DEF CreateBuilding
  <2> HIDE DEF row
  <2> QED BY <2>1, <2>2, BuildingWriteStep
<1>4. CASE UpdateBuilding(q)
  <2> DEFINE b == req[q].building
             row == [buildings[b] EXCEPT !.name = Given(req[q].label, @)]
  <2>1. b \in Buildings /\ buildings[b] \in Building
    BY <1>0, <1>4 DEF UpdateBuilding, Asked, Found, TypeInv, TypeOK, OrNull
  <2>2. row \in Building /\ row.property = buildings[b].property
    BY <1>0, <1>4, <2>1 DEF UpdateBuilding, Asked, Building, Given
  <2>3. BuildingWrite(q, b, row)
    BY <1>4 DEF UpdateBuilding
  <2> HIDE DEF row
  <2> QED BY <2>1, <2>2, <2>3, BuildingWriteStep
<1>5. CASE CreateFloor(q)
  <2> DEFINE row == [building |-> req[q].building, number |-> req[q].label]
  <2>1. row \in Floor
    BY <1>0, <1>5 DEF CreateFloor, Asked, Floor
  <2>2. PICK f \in Floors : floors[f] = Null /\ FloorWrite(q, f, row)
    BY <1>5 DEF CreateFloor
  <2> HIDE DEF row
  <2> QED BY <2>1, <2>2, FloorWriteStep
<1>6. CASE UpdateFloor(q)
  <2> DEFINE f == req[q].floor
             row == [floors[f] EXCEPT !.number = Given(req[q].label, @)]
  <2>1. f \in Floors /\ floors[f] \in Floor
    BY <1>0, <1>6 DEF UpdateFloor, Asked, Found, TypeInv, TypeOK, OrNull
  <2>2. row \in Floor /\ row.building = floors[f].building
    BY <1>0, <1>6, <2>1 DEF UpdateFloor, Asked, Floor, Given
  <2>3. FloorWrite(q, f, row)
    BY <1>6 DEF UpdateFloor
  <2> HIDE DEF row
  <2> QED BY <2>1, <2>2, <2>3, FloorWriteStep
<1>7. CASE CreateRoom(q)
  <2> DEFINE row == [property |-> req[q].property, building |-> req[q].building,
                     floor |-> req[q].floor, number |-> req[q].label]
  <2>1. row \in Room
    BY <1>0, <1>7 DEF CreateRoom, Asked, Room
  <2>2. PICK r \in Rooms : rooms[r] = Null /\ RoomWrite(q, r, row)
    BY <1>7 DEF CreateRoom
  <2> HIDE DEF row
  <2> QED BY <1>a, <2>1, <2>2, RoomWriteStep
<1>8. CASE UpdateRoom(q)
  <2> DEFINE r == req[q].room
             row == EditedRoom(rooms[r], req[q])
  <2>1. r \in Rooms /\ rooms[r] \in Room
    BY <1>0, <1>8 DEF UpdateRoom, Asked, Found, TypeInv, TypeOK, OrNull
  <2>2. /\ row.property = rooms[r].property
        /\ row.building \in Buildings /\ row.floor \in Floors => row \in Room
    BY <1>0, <1>8, <2>1 DEF UpdateRoom, Asked, Room, Given, EditedRoom
  <2>3. RoomWrite(q, r, row)
    BY <1>8 DEF UpdateRoom
  <2> HIDE DEF row
  <2> QED BY <1>a, <2>1, <2>2, <2>3, RoomWriteStep
<1> QED BY <1>1, <1>2, <1>3, <1>4, <1>5, <1>6, <1>7, <1>8

LEMMA ReceiveStep ==
    ASSUME TypeInv, NEW q \in Slots, Receive(q)
    PROVE  TypeInv'
<1> DEFINE All == PropertyRequests \cup BuildingRequests \cup FloorRequests
                    \cup CreateRoomRequests \cup UpdateRoomRequests
<1>1. PICK new \in All : req' = [req EXCEPT ![q] = new]
  BY DEF Receive
<1>2. Typed' /\ Stays
  BY TablesKept DEF Receive
<1>3. /\ Known(properties) = {p \in Properties : properties[p] # Null} \cup {Null}
      /\ Known(buildings) = {b \in Buildings : buildings[b] # Null} \cup {Null}
      /\ Known(floors) = {f \in Floors : floors[f] # Null} \cup {Null}
      /\ Known(rooms) = {r \in Rooms : rooms[r] # Null} \cup {Null}
  BY DEF Known, TypeInv, TypeOK
<1>4. new \in RequestType /\ Asked(new) /\ Found(new)
  <2> USE <1>3 DEF Request, RequestType, OrNull, Labels, Ops, PCs, Asked, Found
  <2>1. CASE new \in PropertyRequests
    BY <2>1 DEF PropertyRequests
  <2>2. CASE new \in BuildingRequests
    BY <2>2 DEF BuildingRequests
  <2>3. CASE new \in FloorRequests
    BY <2>3 DEF FloorRequests
  <2>4. CASE new \in CreateRoomRequests
    BY <2>4 DEF CreateRoomRequests
  <2>5. CASE new \in UpdateRoomRequests
    BY <2>5 DEF UpdateRoomRequests
  <2> QED BY <1>1, <2>1, <2>2, <2>3, <2>4, <2>5
<1> HIDE DEF All
<1> QED BY <1>1, <1>2, <1>4, RequestStep

LEMMA TypeNext == TypeInv /\ [Next]_vars => TypeInv' /\ Stays
<1> SUFFICES ASSUME TypeInv, [Next]_vars PROVE TypeInv' /\ Stays
  OBVIOUS
<1>1. CASE UNCHANGED vars
  BY <1>1 DEF vars, TypeInv, TypeOK, Asked, Found, Stays
<1>2. ASSUME NEW q \in Slots, Receive(q) PROVE TypeInv' /\ Stays
  BY <1>2, ReceiveStep, TablesKept DEF Receive
<1>3. ASSUME NEW q \in Slots, AppendAudit(q) \/ Fail(q) PROVE TypeInv' /\ Stays
  BY <1>3, AnswerStep, TablesKept DEF AppendAudit, Fail
<1>4. ASSUME NEW q \in Slots, Step(q) PROVE TypeInv' /\ Stays
  BY <1>3, <1>4, ReadStep, WriteStep DEF Step
<1> QED BY <1>1, <1>2, <1>3, <1>4 DEF Next

\* Tables and requests are typed, and the rows a request names are there whenever it uses
\* them: no handler of properties.service.ts removes one.
THEOREM TypeAlways == Spec => []TypeInv
  BY TypeInit, TypeNext, PTL DEF Spec

\* The tables and requests keep their types, and no handler reads or writes a row
\* that is not there, however requests overlap and fail (properties.service.ts).
THEOREM TypeCorrect == Spec => []TypeOK
<1>1. TypeInv => TypeOK
  BY DEF TypeInv
<1> QED BY <1>1, TypeAlways, PTL

\* No room or building changes its property, no floor its building, and no row
\* vanishes (updateBuilding, updateFloor, updateRoom).
THEOREM HomesAlwaysFixed == Spec => HomesFixed
<1>1. TypeInv /\ [Next]_vars =>
        [/\ \A b \in Buildings : buildings[b] # Null
              => buildings'[b] # Null /\ buildings'[b].property = buildings[b].property
         /\ \A f \in Floors : floors[f] # Null
              => floors'[f] # Null /\ floors'[f].building = floors[f].building
         /\ \A r \in Rooms : rooms[r] # Null
              => rooms'[r] # Null /\ rooms'[r].property = rooms[r].property]_vars
  BY TypeNext DEF Stays
<1> QED BY <1>1, TypeAlways, PTL DEF Spec, HomesFixed

-----------------------------------------------------------------------------
\* Codes are stored in upper case, where the unique index tells them apart.
CodeInv ==
    /\ \A p \in Properties : properties[p] # Null => Upper[properties[p]] = properties[p]
    /\ \A p, other \in Properties :
          properties[p] # Null /\ properties[p] = properties[other] => p = other

LEMMA CodeNext == ASSUME TypeInv, CodeInv, [Next]_vars PROVE CodeInv'
<1>1. ASSUME NEW q \in Slots, NEW p \in Properties, NEW code, Upper[code] = code,
             PropertyWrite(q, p, code, "audit")
      PROVE  CodeInv'
  <2>1. \/ properties' = properties
        \/ properties' = [properties EXCEPT ![p] = code] /\ ~CodeTaken(p, code)
    BY <1>1 DEF PropertyWrite
  <2>2. properties \in [Properties -> OrNull(Codes)]
    BY DEF TypeInv, TypeOK
  <2> QED BY <1>1, <2>1, <2>2 DEF CodeInv, CodeTaken
<1>2. ASSUME NEW q \in Slots, CreateProperty(q) PROVE CodeInv'
  <2>1. req[q].label \in Codes
    BY <1>2 DEF CreateProperty, AtCall, TypeInv, TypeOK, Asked
  <2>2. PICK p \in Properties : PropertyWrite(q, p, Upper[req[q].label], "audit")
    BY <1>2 DEF CreateProperty
  <2> QED BY <1>1, <2>1, <2>2
<1>3. ASSUME NEW q \in Slots, UpdateProperty(q) PROVE CodeInv'
  <2> DEFINE p == req[q].property
             code == EditedCode(properties[p], req[q].label)
  <2>1. /\ p \in Properties /\ properties[p] # Null
        /\ req[q].label \in Codes \cup {Keep}
    BY <1>3 DEF UpdateProperty, AtCall, TypeInv, TypeOK, Asked, Found
  <2>2. Upper[code] = code
    BY <2>1 DEF EditedCode, CodeInv
  <2>3. PropertyWrite(q, p, code, "audit")
    BY <1>3 DEF UpdateProperty
  <2> HIDE DEF code
  <2> QED BY <1>1, <2>1, <2>2, <2>3
<1>4. CASE properties' = properties
  BY <1>4 DEF CodeInv
<1>5. properties' = properties \/ \E q \in Slots : CreateProperty(q) \/ UpdateProperty(q)
  BY DEF Next, vars, tables, Receive, Step, Fail, ReadProperty, ReadBuilding, ReadFloor, ReadRoom,
     CreateBuilding, UpdateBuilding, CreateFloor, UpdateFloor, CreateRoom, UpdateRoom, AppendAudit,
     BuildingWrite, FloorWrite, RoomWrite
<1> QED BY <1>2, <1>3, <1>4, <1>5

\* No two properties ever have one code but for its case, whichever creations and
\* updates overlap (properties.service.ts:38 and 113).
THEOREM CodesAlwaysDistinct == Spec => []CodesDistinct
<1>1. Init => CodeInv
  BY DEF Init, CodeInv
<1>2. CodeInv => CodesDistinct
  BY DEF CodeInv, CodesDistinct
<1> QED BY <1>1, <1>2, CodeNext, TypeAlways, PTL DEF Spec

-----------------------------------------------------------------------------
\* What createRoom has checked by the time it makes its next call, and is still so
Checked(r) == r.op = "createRoom" =>
    /\ r.pc \in {"floor", "write"} => buildings[r.building].property = r.property
    /\ r.pc = "write" => floors[r.floor].building = r.building

CheckedInv == \A q \in Slots : Checked(req[q])

LEMMA CheckedNext == ASSUME TypeInv, CheckedInv, [Next]_vars PROVE CheckedInv'
<1>0. Stays
  BY TypeNext
<1>1. ASSUME NEW r, Checked(r), Asked(r), Found(r) PROVE Checked(r)'
  BY <1>0, <1>1 DEF Checked, Asked, Found, Stays
<1>2. ASSUME NEW q \in Slots, NEW r, req' = [req EXCEPT ![q] = r], Checked(r)'
      PROVE  CheckedInv'
  <2>1. \A p \in Slots : req'[p] = IF p = q THEN r ELSE req[p]
    BY <1>2 DEF TypeInv, TypeOK
  <2>2. \A p \in Slots : Checked(req[p]) /\ Asked(req[p]) /\ Found(req[p])
    BY DEF CheckedInv, TypeInv
  <2>3. \A s : s = r \/ (\E p \in Slots : s = req[p]) => Checked(s)'
    BY <1>1, <1>2, <2>2
  <2> QED BY <2>1, <2>3 DEF CheckedInv, Checked
<1>3. CASE req' = req
  <2>1. \A s : (\E p \in Slots : s = req[p]) => Checked(s)'
    BY <1>1 DEF CheckedInv, TypeInv
  <2> QED BY <1>3, <2>1 DEF CheckedInv, Checked
<1>4. ASSUME NEW q \in Slots, Answer(q) PROVE CheckedInv'
  BY <1>2, <1>4 DEF Answer, Checked, Idle, Request
<1>5. ASSUME NEW q \in Slots, Receive(q) PROVE CheckedInv'
  <2>1. \A new \in PropertyRequests \cup BuildingRequests \cup FloorRequests
                      \cup CreateRoomRequests \cup UpdateRoomRequests :
           new.op = "createRoom" => new.pc = "property"
    BY DEF PropertyRequests, BuildingRequests, FloorRequests, CreateRoomRequests,
       UpdateRoomRequests, Request
  <2>2. PICK new : /\ req' = [req EXCEPT ![q] = new]
                   /\ new.op = "createRoom" => new.pc = "property"
    BY <1>5, <2>1 DEF Receive
  <2> QED BY <1>2, <2>2 DEF Checked
<1>6. ASSUME NEW q \in Slots, NEW pc, Await(q, pc),
             req[q].op = "createRoom" =>
                /\ pc \in {"floor", "write"} => buildings'[req[q].building].property = req[q].property
                /\ pc = "write" => floors'[req[q].floor].building = req[q].building
      PROVE  CheckedInv'
  <2>0. PICK r : r = [req[q] EXCEPT !.pc = pc]
    OBVIOUS
  <2>1. /\ r.op = req[q].op /\ r.pc = pc /\ r.property = req[q].property
        /\ r.building = req[q].building /\ r.floor = req[q].floor
    BY <2>0 DEF TypeInv, TypeOK, RequestType
  <2>2. req' = [req EXCEPT ![q] = r]
    BY <1>6, <2>0 DEF Await
  <2>3. Checked(r)'
    BY <1>6, <2>1 DEF Checked
  <2> QED BY <1>2, <2>2, <2>3
<1>7. ASSUME NEW q \in Slots, ReadProperty(q) PROVE CheckedInv'
  BY <1>4, <1>6, <1>7 DEF ReadProperty
<1>8. ASSUME NEW q \in Slots, ReadBuilding(q) PROVE CheckedInv'
  BY <1>4, <1>6, <1>8 DEF ReadBuilding, BuildingFits, tables
<1>9. ASSUME NEW q \in Slots, ReadFloor(q) PROVE CheckedInv'
  <2>1. Checked(req[q]) /\ req[q].pc = "floor" /\ UNCHANGED <<buildings, floors>>
    BY <1>9 DEF ReadFloor, CheckedInv, tables
  <2> QED BY <1>4, <1>6, <1>9, <2>1 DEF ReadFloor, FloorFits, Checked
<1>10. ASSUME NEW q \in Slots, ReadRoom(q) PROVE CheckedInv'
  <2>1. req[q].op # "createRoom"
    BY <1>10 DEF ReadRoom, TypeInv, Asked
  <2> QED BY <1>4, <1>6, <1>10, <2>1 DEF ReadRoom
<1>11. ASSUME NEW q \in Slots,
              \/ CreateProperty(q) \/ UpdateProperty(q) \/ CreateBuilding(q) \/ UpdateBuilding(q)
              \/ CreateFloor(q) \/ UpdateFloor(q) \/ CreateRoom(q) \/ UpdateRoom(q)
       PROVE  CheckedInv'
  <2>1. Answer(q) \/ Await(q, "audit")
    BY <1>11 DEF CreateProperty, UpdateProperty, CreateBuilding, UpdateBuilding, CreateFloor,
       UpdateFloor, CreateRoom, UpdateRoom, PropertyWrite, BuildingWrite, FloorWrite, RoomWrite
  <2> QED BY <1>4, <1>6, <2>1
<1>12. ASSUME NEW q \in Slots, AppendAudit(q) \/ Fail(q) PROVE CheckedInv'
  BY <1>4, <1>12 DEF AppendAudit, Fail
<1> QED BY <1>3, <1>5, <1>7, <1>8, <1>9, <1>10, <1>11, <1>12 DEF Next, Step, vars

LEMMA PlacedStep ==
    ASSUME TypeInv, CheckedInv, [Next]_vars, NEW r \in Rooms, InPlace(r), ~InPlace(r)'
    PROVE  \E q \in Slots : /\ rooms[r] # Null
                            /\ AtCall(q, "updateRoom", "write") /\ req[q].room = r
                            /\ {req[q].building, req[q].floor} # {Keep}
<1>0. Stays
  BY TypeNext
<1>1. rooms[r] # Null => rooms[r] \in Room
  BY DEF TypeInv, TypeOK, OrNull
<1>2. ASSUME NEW row \in Room, buildings[row.building] # Null, floors[row.floor] # Null,
             buildings[row.building].property = row.property,
             floors[row.floor].building = row.building, rooms'[r] = row
      PROVE  FALSE
  BY <1>0, <1>2 DEF InPlace, Room, Stays
<1>3. rooms'[r] # rooms[r]
  <2>1. CASE rooms[r] = Null
    BY <2>1 DEF InPlace
  <2>2. CASE rooms[r] # Null
    BY <1>1, <1>2, <2>2 DEF InPlace
  <2> QED BY <2>1, <2>2
<1>4. PICK q \in Slots : CreateRoom(q) \/ UpdateRoom(q)
  BY <1>3 DEF Next, vars, tables, Receive, Step, Fail, ReadProperty, ReadBuilding, ReadFloor,
     ReadRoom, CreateProperty, UpdateProperty, CreateBuilding, UpdateBuilding, CreateFloor,
     UpdateFloor, AppendAudit, PropertyWrite, BuildingWrite, FloorWrite
<1>5. req[q] \in RequestType /\ Asked(req[q]) /\ Found(req[q]) /\ Checked(req[q])
  BY DEF TypeInv, TypeOK, CheckedInv
<1>6. CASE CreateRoom(q)
  <2> DEFINE row == [property |-> req[q].property, building |-> req[q].building,
                     floor |-> req[q].floor, number |-> req[q].label]
  <2>1. row \in Room
    BY <1>5, <1>6 DEF CreateRoom, AtCall, Asked, Room
  <2>2. /\ buildings[row.building] # Null /\ floors[row.floor] # Null
        /\ buildings[row.building].property = row.property
        /\ floors[row.floor].building = row.building
    BY <1>5, <1>6 DEF CreateRoom, AtCall, Asked, Found, Checked
  <2>3. rooms'[r] = row
    BY <1>3, <1>6 DEF CreateRoom, RoomWrite, TypeInv, TypeOK
  <2> HIDE DEF row
  <2> QED BY <1>2, <2>1, <2>2, <2>3
<1>7. CASE UpdateRoom(q)
  <2>1. /\ req[q].room = r /\ AtCall(q, "updateRoom", "write")
        /\ rooms'[r] = EditedRoom(rooms[r], req[q])
    BY <1>3, <1>7 DEF UpdateRoom, RoomWrite, TypeInv, TypeOK
  <2>2. rooms[r] # Null /\ rooms[r] \in Room
    BY <1>1, <1>5, <2>1 DEF Found
  <2>3. CASE req[q].building = Keep /\ req[q].floor = Keep
    <3> DEFINE row == EditedRoom(rooms[r], req[q])
    <3>1. /\ row.building = rooms[r].building /\ row.floor = rooms[r].floor
          /\ row.property = rooms[r].property
      BY <2>2, <2>3 DEF EditedRoom, Given, Room
    <3>2. row \in Room
      BY <1>5, <2>1, <2>2, <2>3 DEF EditedRoom, Given, Room, AtCall, Asked
    <3>3. rooms'[r] = row
      BY <2>1
    <3> HIDE DEF row
    <3> QED BY <1>2, <2>2, <3>1, <3>2, <3>3 DEF InPlace
  <2>4. CASE ~(req[q].building = Keep /\ req[q].floor = Keep)
    <3>1. {req[q].building, req[q].floor} # {Keep}
      BY <2>4
    <3> QED BY <2>1, <2>2, <3>1
  <2> QED BY <2>3, <2>4
<1> QED BY <1>4, <1>6, <1>7

\* A room is created on a floor of its building and in a building of its property,
\* and leaves its place only by an updateRoom that names another building or floor,
\* however stale what createRoom looked up (properties.service.ts:239-262, 323-331).
THEOREM RoomsPlacedUnlessMoved == Spec => PlacedUnlessMoved
<1>1. Init => CheckedInv
  BY DEF Init, CheckedInv, Checked, Idle, Request
<1>2. TypeInv /\ CheckedInv /\ [Next]_vars =>
        [\A r \in Rooms : InPlace(r) /\ ~InPlace(r)'
          => \E q \in Slots : /\ rooms[r] # Null
                             /\ AtCall(q, "updateRoom", "write") /\ req[q].room = r
                             /\ {req[q].building, req[q].floor} # {Keep}]_vars
  BY PlacedStep
<1> QED BY <1>1, <1>2, CheckedNext, TypeAlways, PTL DEF Spec, PlacedUnlessMoved

=============================================================================
