----------------------------- MODULE Hierarchy -----------------------------
(***************************************************************************)
(* The property hierarchy: the properties, buildings, floors and rooms of  *)
(* properties/properties.service.ts, as properties.controller.ts calls it. *)
(*                                                                         *)
(* As in Housekeeping every database call is an action: createRoom looks   *)
(* its property, building and floor up in three calls and inserts in a     *)
(* fourth.  Rows are made and changed, never removed.  Of a row what is    *)
(* kept is where it is and what must be unique; the status of a room is    *)
(* the subject of Housekeeping.                                            *)
(***************************************************************************)
CONSTANTS
    Properties, Buildings, Floors, Rooms,  \* ids; a row exists once it is inserted
    Codes,     \* property codes as clients type them
    Upper,     \* toUpperCase on Codes
    Names,     \* names of buildings
    Numbers,   \* numbers of floors and rooms
    Slots,     \* requests that can be in flight at once
    CanFail,   \* whether a database call may fail, or the process die
    Null,      \* no row; an id that names none
    Keep       \* a column an update leaves alone (undefined in its data)

ASSUME UpperAssumption ==
    Upper \in [Codes -> Codes] /\ \A c \in Codes : Upper[Upper[c]] = Upper[c]
ASSUME FailAssumption == CanFail \in BOOLEAN

VARIABLES
    properties,  \* the code column of the Property table
    buildings, floors, rooms,
    req          \* the request each slot is serving

tables == <<properties, buildings, floors, rooms>>
vars == <<properties, buildings, floors, rooms, req>>

-----------------------------------------------------------------------------
OrNull(S) == S \cup {Null}

Building == [property: Properties, name: Names]
Floor == [building: Buildings, number: Numbers]
Room == [property: Properties, building: Buildings, floor: Floors, number: Numbers]
Labels == Codes \cup Names \cup Numbers

ASSUME NullAssumption ==
    /\ Null \notin Properties \cup Buildings \cup Floors \cup Rooms \cup Codes
    /\ Null \notin Building \cup Floor \cup Room
    /\ Keep \notin OrNull(Labels \cup Buildings \cup Floors)

Ops == {"createProperty", "updateProperty", "createBuilding", "updateBuilding",
        "createFloor", "updateFloor", "createRoom", "updateRoom"}
PCs == {"property", "building", "floor", "room", "write", "audit"}

\* A request in flight: the ids of its path and body, and the code, name or number
\* it gives (label).
Request(op, pc, property, building, floor, room, label) ==
    [op |-> op, pc |-> pc, property |-> property, building |-> building,
     floor |-> floor, room |-> room, label |-> label]

Idle == Request("none", "idle", Null, Null, Null, Null, Keep)

RequestType ==
    [op: Ops \cup {"none"}, pc: PCs \cup {"idle"}, property: OrNull(Properties),
     building: OrNull(Buildings) \cup {Keep}, floor: OrNull(Floors) \cup {Keep},
     room: OrNull(Rooms), label: Labels \cup {Keep}]

-----------------------------------------------------------------------------
Init ==
    /\ properties = [p \in Properties |-> Null]
    /\ buildings = [b \in Buildings |-> Null]
    /\ floors = [f \in Floors |-> Null]
    /\ rooms = [r \in Rooms |-> Null]
    /\ req = [q \in Slots |-> Idle]

\* The ids a client can name: those of the rows there are, and one of none
Known(table) == {x \in DOMAIN table : table[x] # Null} \cup {Null}

PropertyRequests ==
    {Request("createProperty", "write", Null, Null, Null, Null, c) : c \in Codes}
      \cup {Request("updateProperty", "property", p, Null, Null, Null, c) :
                p \in Known(properties), c \in Codes \cup {Keep}}
BuildingRequests ==
    {Request("createBuilding", "property", p, Null, Null, Null, n) :
         p \in Known(properties), n \in Names}
      \cup {Request("updateBuilding", "building", Null, b, Null, Null, n) :
                b \in Known(buildings), n \in Names \cup {Keep}}
FloorRequests ==
    {Request("createFloor", "building", Null, b, Null, Null, n) :
         b \in Known(buildings), n \in Numbers}
      \cup {Request("updateFloor", "floor", Null, Null, f, Null, n) :
                f \in Known(floors), n \in Numbers \cup {Keep}}
CreateRoomRequests ==
    {Request("createRoom", "property", p, b, f, Null, n) :
         p \in Known(properties), b \in Known(buildings), f \in Known(floors), n \in Numbers}
UpdateRoomRequests ==
    {Request("updateRoom", "room", Null, b, f, r, n) :
         b \in Known(buildings) \cup {Keep}, f \in Known(floors) \cup {Keep},
         r \in Known(rooms), n \in Numbers \cup {Keep}}

Receive(q) ==
    /\ req[q] = Idle
    /\ \E new \in PropertyRequests \cup BuildingRequests \cup FloorRequests
                    \cup CreateRoomRequests \cup UpdateRoomRequests :
          req' = [req EXCEPT ![q] = new]
    /\ UNCHANGED tables

\* The handler moves on to its next call, or answers.
Await(q, pc) == req' = [req EXCEPT ![q] = [@ EXCEPT !.pc = pc]]
Answer(q) == req' = [req EXCEPT ![q] = Idle]

AtCall(q, op, pc) == req[q].op = op /\ req[q].pc = pc

-----------------------------------------------------------------------------
(* The lookups that come before a write.  A definition whose comment starts *)
(* with "..." is what the one after it would be with a bug; no action uses   *)
(* it.                                                                       *)

ReadProperty(q) ==
    /\ req[q].pc = "property"
    /\ IF req[q].property \in Properties
       THEN Await(q, IF req[q].op = "createRoom" THEN "building" ELSE "write")
       ELSE Answer(q)
    /\ UNCHANGED tables

\* For createRoom the building must be one of the property, and the floor one of
\* the building.
BuildingFits(r) ==
    /\ r.building \in Buildings
    /\ r.op = "createRoom" => buildings[r.building].property = r.property

ReadBuilding(q) ==
    /\ req[q].pc = "building"
    /\ IF BuildingFits(req[q])
       THEN Await(q, IF req[q].op = "createRoom" THEN "floor" ELSE "write")
       ELSE Answer(q)
    /\ UNCHANGED tables

\* ... with any floor taken
FloorExists(r) == r.floor \in Floors

FloorFits(r) ==
    /\ r.floor \in Floors
    /\ r.op = "createRoom" => floors[r.floor].building = r.building

ReadFloor(q) ==
    /\ req[q].pc = "floor"
    /\ IF FloorFits(req[q]) THEN Await(q, "write") ELSE Answer(q)
    /\ UNCHANGED tables

ReadRoom(q) ==
    /\ req[q].pc = "room"
    /\ IF req[q].room \in Rooms THEN Await(q, "write") ELSE Answer(q)
    /\ UNCHANGED tables

-----------------------------------------------------------------------------
(* Prisma's create and update, refused when a unique index has the key       *)

CodeTaken(p, code) == \E other \in Properties \ {p} : properties[other] = code
NameTaken(b, row) ==
    \E other \in Buildings \ {b} : buildings[other] = row
FloorTaken(f, row) ==
    \E other \in Floors \ {f} : floors[other] = row
RoomTaken(r, row) ==
    \E other \in Rooms \ {r} : /\ rooms[other] # Null
                               /\ rooms[other].property = row.property
                               /\ rooms[other].number = row.number

PropertyWrite(q, p, code, pc) ==
    /\ \/ ~CodeTaken(p, code) /\ properties' = [properties EXCEPT ![p] = code] /\ Await(q, pc)
       \/ CodeTaken(p, code) /\ UNCHANGED properties /\ Answer(q)
    /\ UNCHANGED <<buildings, floors, rooms>>

BuildingWrite(q, b, row) ==
    /\ Answer(q)
    /\ buildings' = IF NameTaken(b, row) THEN buildings ELSE [buildings EXCEPT ![b] = row]
    /\ UNCHANGED <<properties, floors, rooms>>

FloorWrite(q, f, row) ==
    /\ Answer(q)
    /\ floors' = IF FloorTaken(f, row) THEN floors ELSE [floors EXCEPT ![f] = row]
    /\ UNCHANGED <<properties, buildings, rooms>>

\* A building or floor that is not there breaks a foreign key.
RoomWrite(q, r, row) ==
    /\ \/ /\ ~RoomTaken(r, row) /\ row.building \in Buildings /\ row.floor \in Floors
          /\ rooms' = [rooms EXCEPT ![r] = row]
          /\ Await(q, "audit")
       \/ /\ RoomTaken(r, row) \/ row.building \notin Buildings \/ row.floor \notin Floors
          /\ Answer(q) /\ UNCHANGED rooms
    /\ UNCHANGED <<properties, buildings, floors>>

CreateProperty(q) ==
    /\ AtCall(q, "createProperty", "write")
    /\ \E p \in Properties : properties[p] = Null /\ PropertyWrite(q, p, Upper[req[q].label], "audit")

\* ... with the code left as it was typed
CodeAsTyped(old, new) == IF new = Keep THEN old ELSE new

EditedCode(old, new) == IF new = Keep THEN old ELSE Upper[new]

UpdateProperty(q) ==
    /\ AtCall(q, "updateProperty", "write")
    /\ LET p == req[q].property
       IN  PropertyWrite(q, p, EditedCode(properties[p], req[q].label), "audit")

CreateBuilding(q) ==
    /\ AtCall(q, "createBuilding", "write")
    /\ \E b \in Buildings :
          /\ buildings[b] = Null
          /\ BuildingWrite(q, b, [property |-> req[q].property, name |-> req[q].label])

Given(new, old) == IF new = Keep THEN old ELSE new

UpdateBuilding(q) ==
    /\ AtCall(q, "updateBuilding", "write")
    /\ LET b == req[q].building
       IN  BuildingWrite(q, b, [buildings[b] EXCEPT !.name = Given(req[q].label, @)])

CreateFloor(q) ==
    /\ AtCall(q, "createFloor", "write")
    /\ \E f \in Floors :
          /\ floors[f] = Null
          /\ FloorWrite(q, f, [building |-> req[q].building, number |-> req[q].label])

UpdateFloor(q) ==
    /\ AtCall(q, "updateFloor", "write")
    /\ LET f == req[q].floor
       IN  FloorWrite(q, f, [floors[f] EXCEPT !.number = Given(req[q].label, @)])

CreateRoom(q) ==
    /\ AtCall(q, "createRoom", "write")
    /\ \E r \in Rooms :
          /\ rooms[r] = Null
          /\ RoomWrite(q, r, [property |-> req[q].property, building |-> req[q].building,
                              floor |-> req[q].floor, number |-> req[q].label])

\* ... with the property taken from the building the room is moved to
MovedRoom(row, r) ==
    [row EXCEPT !.building = Given(r.building, @), !.floor = Given(r.floor, @),
                !.number = Given(r.label, @),
                !.property = IF r.building \in Known(buildings) \ {Null}
                             THEN buildings[r.building].property ELSE @]

EditedRoom(row, r) ==
    [row EXCEPT !.building = Given(r.building, @), !.floor = Given(r.floor, @),
                !.number = Given(r.label, @)]

UpdateRoom(q) ==
    /\ AtCall(q, "updateRoom", "write")
    /\ RoomWrite(q, req[q].room, EditedRoom(rooms[req[q].room], req[q]))

\* auditService.log, for properties and rooms
AppendAudit(q) ==
    /\ req[q].pc = "audit"
    /\ Answer(q)
    /\ UNCHANGED tables

\* A call rejects, its answer is lost, or the process dies.
Fail(q) ==
    /\ CanFail
    /\ req[q].pc \in PCs
    /\ Answer(q)
    /\ UNCHANGED tables

Step(q) ==
    \/ ReadProperty(q) \/ ReadBuilding(q) \/ ReadFloor(q) \/ ReadRoom(q)
    \/ CreateProperty(q) \/ UpdateProperty(q)
    \/ CreateBuilding(q) \/ UpdateBuilding(q)
    \/ CreateFloor(q) \/ UpdateFloor(q)
    \/ CreateRoom(q) \/ UpdateRoom(q)
    \/ AppendAudit(q)

Next == \E q \in Slots : Receive(q) \/ Step(q) \/ Fail(q)

Spec == Init /\ [][Next]_vars

-----------------------------------------------------------------------------
(* Properties *)

\* The tables and the requests in flight have the shape the schema and the DTOs
\* give them, and no handler reads a row that is not there (schema.prisma:167-236,
\* properties.service.ts:34-343).
TypeOK ==
    /\ properties \in [Properties -> OrNull(Codes)]
    /\ buildings \in [Buildings -> OrNull(Building)]
    /\ floors \in [Floors -> OrNull(Floor)]
    /\ rooms \in [Rooms -> OrNull(Room)]
    /\ req \in [Slots -> RequestType]

\* No two properties have one code but for its case: the unique index tells apart
\* what it stores, so every handler must store the code in upper case
\* (properties.service.ts:38 and 113, schema.prisma:170).
CodesDistinct ==
    \A p, other \in Properties :
        /\ properties[p] # Null /\ properties[other] # Null
        /\ Upper[properties[p]] = Upper[properties[other]]
        => p = other

\* A room stays in its property, a building in its property and a floor in its
\* building, and no row vanishes: what createRoom read of them is still so when it
\* inserts, and a device's room tells its property for good
\* (updateProperty, updateBuilding, updateFloor, updateRoom).
HomesFixed ==
    [][/\ \A b \in Buildings : buildings[b] # Null
             => buildings'[b] # Null /\ buildings'[b].property = buildings[b].property
       /\ \A f \in Floors : floors[f] # Null
             => floors'[f] # Null /\ floors'[f].building = floors[f].building
       /\ \A r \in Rooms : rooms[r] # Null
             => rooms'[r] # Null /\ rooms'[r].property = rooms[r].property]_vars

\* A room, once there, is on a floor of its building, which is one of its property.
InPlace(r) ==
    LET row == rooms[r]
    IN  row # Null => /\ floors[row.floor] # Null /\ floors[row.floor].building = row.building
                      /\ buildings[row.building] # Null
                      /\ buildings[row.building].property = row.property

\* A room is created in its place although createRoom checks the building and the
\* floor calls before it inserts, and it leaves its place only when an updateRoom of
\* it names another building or floor, which nobody checks
\* (properties.service.ts:239-262 against 323-331).
PlacedUnlessMoved ==
    [][\A r \in Rooms : InPlace(r) /\ ~InPlace(r)'
          => \E q \in Slots : /\ rooms[r] # Null
                             /\ AtCall(q, "updateRoom", "write") /\ req[q].room = r
                             /\ {req[q].building, req[q].floor} # {Keep}]_vars

=============================================================================
