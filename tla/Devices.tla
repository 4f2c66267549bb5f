------------------------------ MODULE Devices ------------------------------
(***************************************************************************)
(* The device registry: iot/devices/devices.service.ts, the assignment of  *)
(* devices to rooms of properties/properties.service.ts, and the MQTT      *)
(* client through which heartbeats and faults come in and commands go out  *)
(* (iot/mqtt, iot/ingestion, iot/publishers).                              *)
(*                                                                         *)
(* As in Housekeeping every database call is an action and a handler acts  *)
(* on what it read before.  Rooms and properties do not change here, so    *)
(* looking one up is part of the call next to it.                          *)
(***************************************************************************)
EXTENDS Naturals

CONSTANTS
    Devices,     \* device ids; a row exists once something registers it
    Properties,
    Rooms,
    Home,        \* the propertyId of every room
    Faults,      \* contents of metadata.lastError
    Edits,       \* what operators ask updateDevice for
    Slots,       \* handlers that can be in flight at once
    Threshold,   \* staleThresholdMs
    MaxTime,     \* bound on the clock
    CanFail,     \* whether a database call may fail, or the process die
    Null,        \* a NULL column; an id that names no row
    Keep         \* a column an update leaves alone (undefined in its data)

DeviceStatuses == {"ONLINE", "OFFLINE", "DEGRADED", "UNPROVISIONED"}
Time == 1..MaxTime
OrNull(S) == S \cup {Null}

Edit == [status: DeviceStatuses \cup {Keep}, room: OrNull(Rooms) \cup {Keep},
         lastError: OrNull(Faults) \cup {Keep}]

ASSUME ClockAssumption == MaxTime \in Nat \ {0} /\ Threshold \in Nat
ASSUME HomeAssumption == Home \in [Rooms -> Properties]
ASSUME EditAssumption == Edits \subseteq Edit
ASSUME FailAssumption == CanFail \in BOOLEAN

VARIABLES
    devices,  \* the Device table
    req,      \* the handler each slot is running
    sent,     \* the commands given to the broker: topic and target
    issued,   \* the devices the audit log names in DEVICE_COMMAND_ISSUED
    link,     \* MqttService: no client at all, not connected, or connected
    now       \* the clock of the server and of the gateways

vars == <<devices, req, sent, issued, link, now>>

-----------------------------------------------------------------------------
Row == [status: DeviceStatuses, property: Properties, room: OrNull(Rooms),
        lastHeartbeatAt: OrNull(Time), lastError: OrNull(Faults)]

ASSUME NullAssumption ==
    /\ Null \notin Nat \cup Rooms \cup Properties \cup Faults \cup Devices /\ Null \notin Row
    /\ Keep \notin Rooms \cup DeviceStatuses \cup Faults \cup {Null}

Ops == {"heartbeat", "error", "scan", "create", "update", "delete", "command",
        "assign", "unassign"}
PCs == {"read", "create", "update", "publish", "audit"}

\* A handler in flight: what it was called with, and what it has read (found, the
\* devices a scan found; for a heartbeat, metadata.lastError; for a command, the
\* device's property and room).
Request(op, pc, device, property, room) ==
    [op |-> op, pc |-> pc, device |-> device, property |-> property, room |-> room,
     status |-> Keep, lastError |-> Keep, at |-> Null, found |-> {}]

Idle == Request("none", "idle", Null, Null, Null)

RequestType ==
    [op: Ops \cup {"none"}, pc: PCs \cup {"idle"}, device: OrNull(Devices),
     property: OrNull(Properties), room: OrNull(Rooms) \cup {Keep},
     status: DeviceStatuses \cup {Keep}, lastError: OrNull(Faults) \cup {Keep},
     at: OrNull(Time), found: SUBSET Devices]

-----------------------------------------------------------------------------
Init ==
    /\ devices = [d \in Devices |-> Null]
    /\ req = [q \in Slots |-> Idle]
    /\ sent = {}
    /\ issued = {}
    /\ link \in {"none", "down"}
    /\ now = 1

\* Heartbeats and faults are messages of the broker: they may be late, repeated
\* and out of order, and what is sent while the client is not connected is lost
\* (its session is clean).  The topic names the property and the gateway.
HeartbeatEvent(d, p, t) == [Request("heartbeat", "read", d, p, Null) EXCEPT !.at = t]
HeartbeatEvents ==
    {HeartbeatEvent(d, p, t) : d \in Devices, p \in OrNull(Properties), t \in 1..now}
ErrorEvent(d, f) == [Request("error", "read", d, Null, Null) EXCEPT !.lastError = f]
ErrorEvents == {ErrorEvent(d, f) : d \in Devices, f \in Faults}

\* The endpoints of the controllers; Null is an id that names nothing
ScanRequests == {Request("scan", "read", Null, Null, Null)}
CreateRequest(d, p, r, e) == [Request("create", "create", d, p, r) EXCEPT !.lastError = e]
CreateRequests == {CreateRequest(d, p, r, e) :
                       d \in Devices, p \in OrNull(Properties), r \in OrNull(Rooms),
                       e \in OrNull(Faults)}
UpdateRequest(d, e) == [Request("update", "read", d, Null, e.room) EXCEPT
                            !.status = e.status, !.lastError = e.lastError]
UpdateRequests == {UpdateRequest(d, e) : d \in Devices, e \in Edits}
DeviceRequests == {Request(op, "read", d, Null, Null) :
                       op \in {"delete", "command"}, d \in Devices}
RoomRequests == {Request(op, "read", d, Null, r) :
                     op \in {"assign", "unassign"}, d \in Devices, r \in Rooms}

Accept(q, requests) ==
    /\ req[q] = Idle
    /\ \E new \in requests : req' = [req EXCEPT ![q] = new]
    /\ UNCHANGED <<devices, sent, issued, link, now>>

Hear(q) ==
    /\ link = "up"
    /\ \/ Accept(q, HeartbeatEvents)
       \/ Accept(q, ErrorEvents)

Receive(q) ==
    \/ Accept(q, ScanRequests)
    \/ Accept(q, CreateRequests)
    \/ Accept(q, UpdateRequests)
    \/ Accept(q, DeviceRequests)
    \/ Accept(q, RoomRequests)

\* The handler moves on to its next call, or answers.
Answer(q) == req' = [req EXCEPT ![q] = Idle]
Await(q, pc) == req' = [req EXCEPT ![q] = IF pc = "idle" THEN Idle ELSE [@ EXCEPT !.pc = pc]]

AtCall(q, op, pc) == req[q].op = op /\ req[q].pc = pc
Found(q) == devices[req[q].device] # Null

\* Prisma's create: refused when the id, or the MAC address, is taken already or
\* the property does not exist.
InsertDevice(q, row, pc) ==
    /\ \/ /\ ~Found(q) /\ row.property \in Properties
          /\ devices' = [devices EXCEPT ![req[q].device] = row]
          /\ Await(q, pc)
       \/ Answer(q) /\ UNCHANGED devices
    /\ UNCHANGED <<sent, issued, link, now>>

\* Prisma's update, or delete (row = Null): rejects when the row is gone.
UpdateDevice(q, row, pc) ==
    /\ IF Found(q)
       THEN devices' = [devices EXCEPT ![req[q].device] = row] /\ Await(q, pc)
       ELSE Answer(q) /\ UNCHANGED devices
    /\ UNCHANGED <<sent, issued, link, now>>

NewDevice(status, property, room, at, lastError) ==
    [status |-> status, property |-> property, room |-> room,
     lastHeartbeatAt |-> at, lastError |-> lastError]

-----------------------------------------------------------------------------
(* The handlers.  A definition whose comment starts with "..." is what the one *)
(* after it would be with a bug; no action uses it.                          *)

(* handleDeviceHeartbeat and handleDeviceError *)

\* The metadata written back later is the metadata read now.
HeartbeatRead(q) ==
    /\ AtCall(q, "heartbeat", "read")
    /\ req' = [req EXCEPT ![q] =
                 IF Found(q)
                 THEN [@ EXCEPT !.pc = "update", !.lastError = devices[req[q].device].lastError]
                 ELSE [@ EXCEPT !.pc = "create"]]
    /\ UNCHANGED <<devices, sent, issued, link, now>>

\* ... as an upsert, lest two first heartbeats collide
HeartbeatRegister(q) ==
    /\ AtCall(q, "heartbeat", "create") /\ req[q].property \in Properties
    /\ devices' = [devices EXCEPT ![req[q].device] =
                      IF @ = Null THEN NewDevice("ONLINE", req[q].property, Null, req[q].at, Null)
                      ELSE [@ EXCEPT !.status = "ONLINE", !.property = req[q].property,
                                     !.lastHeartbeatAt = req[q].at]]
    /\ Answer(q)
    /\ UNCHANGED <<sent, issued, link, now>>

HeartbeatCreate(q) ==
    /\ AtCall(q, "heartbeat", "create")
    /\ InsertDevice(q, NewDevice("ONLINE", req[q].property, Null, req[q].at, Null), "idle")

\* ... with a DEGRADED gateway left so
HeardButDegraded(row, r) ==
    [row EXCEPT !.status = IF @ = "DEGRADED" THEN @ ELSE "ONLINE",
                !.lastHeartbeatAt = r.at, !.lastError = r.lastError]

Heard(row, r) ==
    [row EXCEPT !.status = "ONLINE", !.lastHeartbeatAt = r.at, !.lastError = r.lastError]

\* ... as an upsert
HeartbeatUpsert(q) ==
    /\ AtCall(q, "heartbeat", "update")
    /\ devices' = [devices EXCEPT ![req[q].device] =
                      IF @ # Null THEN Heard(@, req[q])
                      ELSE [status |-> "ONLINE", property |-> CHOOSE p \in Properties : TRUE,
                            room |-> Null, lastHeartbeatAt |-> req[q].at,
                            lastError |-> req[q].lastError]]
    /\ Answer(q)
    /\ UNCHANGED <<sent, issued, link, now>>

HeartbeatUpdate(q) ==
    /\ AtCall(q, "heartbeat", "update")
    /\ UpdateDevice(q, Heard(devices[req[q].device], req[q]), "idle")

ErrorRead(q) ==
    /\ AtCall(q, "error", "read")
    /\ Await(q, IF Found(q) THEN "update" ELSE "idle")
    /\ UNCHANGED <<devices, sent, issued, link, now>>

Faulty(row, r) == [row EXCEPT !.status = "DEGRADED", !.lastError = r.lastError]

ErrorUpdate(q) ==
    /\ AtCall(q, "error", "update")
    /\ UpdateDevice(q, Faulty(devices[req[q].device], req[q]), "idle")

-----------------------------------------------------------------------------
(* checkStaleDevices: the scan reads the stale rows, then updates them by id *)

IsStale(row) ==
    row.lastHeartbeatAt = Null \/ row.lastHeartbeatAt + Threshold < now

\* ... with the threshold left out of the query
ScanReadOnline(q) ==
    /\ AtCall(q, "scan", "read")
    /\ LET online == {d \in Devices : devices[d] # Null /\ devices[d].status = "ONLINE"}
       IN  req' = [req EXCEPT ![q] = IF online = {} THEN Idle
                                     ELSE [@ EXCEPT !.pc = "update", !.found = online]]
    /\ UNCHANGED <<devices, sent, issued, link, now>>

ScanRead(q) ==
    /\ AtCall(q, "scan", "read")
    /\ LET stale == {d \in Devices : /\ devices[d] # Null /\ devices[d].status = "ONLINE"
                                     /\ IsStale(devices[d])}
       IN  req' = [req EXCEPT ![q] = IF stale = {} THEN Idle
                                     ELSE [@ EXCEPT !.pc = "update", !.found = stale]]
    /\ UNCHANGED <<devices, sent, issued, link, now>>

ScanUpdate(q) ==
    /\ AtCall(q, "scan", "update")
    /\ devices' = [d \in Devices |-> IF d \in req[q].found /\ devices[d] # Null
                                     THEN [devices[d] EXCEPT !.status = "OFFLINE"]
                                     ELSE devices[d]]
    /\ Answer(q)
    /\ UNCHANGED <<sent, issued, link, now>>

-----------------------------------------------------------------------------
(* createDevice, updateDevice, deleteDevice *)

CreateDevice(q) ==
    /\ AtCall(q, "create", "create")
    /\ LET r == req[q]
       IN  IF r.property \in Properties /\ (r.room # Null => Home[r.room] = r.property)
           THEN InsertDevice(q, NewDevice("UNPROVISIONED", r.property, r.room, Null, r.lastError),
                             "audit")
           ELSE Answer(q) /\ UNCHANGED <<devices, sent, issued, link, now>>

\* findDeviceById, the first call of every handler of a device that must exist
FindDevice(q) ==
    /\ req[q].op \in {"update", "delete", "unassign"} /\ req[q].pc = "read"
    /\ Await(q, IF Found(q) THEN "update" ELSE "idle")
    /\ UNCHANGED <<devices, sent, issued, link, now>>

Given(new, old) == IF new = Keep THEN old ELSE new

Edited(row, r) == [row EXCEPT !.status = Given(r.status, @), !.room = Given(r.room, @),
                              !.lastError = Given(r.lastError, @)]

EditDevice(q) ==
    /\ AtCall(q, "update", "update")
    /\ UpdateDevice(q, Edited(devices[req[q].device], req[q]), "audit")

DeleteDevice(q) ==
    /\ AtCall(q, "delete", "update")
    /\ UpdateDevice(q, Null, "audit")

-----------------------------------------------------------------------------
(* assignDeviceToRoom, unassignDeviceFromRoom *)

AssignRead(q) ==
    /\ AtCall(q, "assign", "read")
    /\ Await(q, IF Found(q) THEN "update" ELSE "create")
    /\ UNCHANGED <<devices, sent, issued, link, now>>

AssignCreate(q) ==
    /\ AtCall(q, "assign", "create")
    /\ InsertDevice(q, NewDevice("UNPROVISIONED", Home[req[q].room], Null, Null, Null), "update")

\* ... with only the room written
PlacedByRoomAlone(row, room) == [row EXCEPT !.room = room]

Placed(row, room) == [row EXCEPT !.room = room, !.property = Home[room]]

AssignUpdate(q) ==
    /\ AtCall(q, "assign", "update")
    /\ UpdateDevice(q, Placed(devices[req[q].device], req[q].room), "audit")

UnassignUpdate(q) ==
    /\ AtCall(q, "unassign", "update")
    /\ UpdateDevice(q, [devices[req[q].device] EXCEPT !.room = Null], "audit")

-----------------------------------------------------------------------------
(* sendCommand, through CommandPublisher and MqttService.publish *)

\* ... of a device that is in no room, too
CommandReadAnywhere(q) ==
    /\ AtCall(q, "command", "read")
    /\ LET row == devices[req[q].device]
       IN  IF row # Null
           THEN req' = [req EXCEPT ![q] = [@ EXCEPT !.pc = "publish", !.property = row.property,
                                                    !.room = row.room]]
           ELSE Answer(q)
    /\ UNCHANGED <<devices, sent, issued, link, now>>

CommandRead(q) ==
    /\ AtCall(q, "command", "read")
    /\ LET row == devices[req[q].device]
       IN  IF row # Null /\ row.room # Null
           THEN req' = [req EXCEPT ![q] = [@ EXCEPT !.pc = "publish", !.property = row.property,
                                                    !.room = row.room]]
           ELSE Answer(q)
    /\ UNCHANGED <<devices, sent, issued, link, now>>

Command(r) == [device |-> r.device, property |-> r.property, room |-> r.room]

\* ... with isConnected asked first
PublishIfConnected(q) ==
    /\ AtCall(q, "command", "publish")
    /\ sent' = IF link = "up" THEN sent \cup {Command(req[q])} ELSE sent
    /\ Await(q, "audit")
    /\ UNCHANGED <<devices, issued, link, now>>

\* Without a client the publish is skipped and reported as done; while the client
\* is not connected it waits.
Publish(q) ==
    /\ AtCall(q, "command", "publish")
    /\ link # "down"
    /\ sent' = IF link = "up" THEN sent \cup {Command(req[q])} ELSE sent
    /\ Await(q, "audit")
    /\ UNCHANGED <<devices, issued, link, now>>

-----------------------------------------------------------------------------
\* auditService.log; of what it appends only the commands are kept here
AppendAudit(q) ==
    /\ req[q].pc = "audit"
    /\ issued' = IF req[q].op = "command" THEN issued \cup {req[q].device} ELSE issued
    /\ Answer(q)
    /\ UNCHANGED <<devices, sent, link, now>>

\* A call rejects, its answer is lost, or the process dies.
Fail(q) ==
    /\ CanFail
    /\ req[q].pc \in PCs
    /\ Answer(q)
    /\ UNCHANGED <<devices, sent, issued, link, now>>

\* The 'connect' and 'close' events of the client
Connect ==
    /\ link = "down"
    /\ link' = "up"
    /\ UNCHANGED <<devices, req, sent, issued, now>>

Close ==
    /\ link = "up"
    /\ link' = "down"
    /\ UNCHANGED <<devices, req, sent, issued, now>>

Tick ==
    /\ now < MaxTime
    /\ now' = now + 1
    /\ UNCHANGED <<devices, req, sent, issued, link>>

Step(q) ==
    \/ HeartbeatRead(q) \/ HeartbeatCreate(q) \/ HeartbeatUpdate(q)
    \/ ErrorRead(q) \/ ErrorUpdate(q)
    \/ ScanRead(q) \/ ScanUpdate(q)
    \/ CreateDevice(q) \/ FindDevice(q) \/ EditDevice(q) \/ DeleteDevice(q)
    \/ AssignRead(q) \/ AssignCreate(q) \/ AssignUpdate(q) \/ UnassignUpdate(q)
    \/ CommandRead(q) \/ Publish(q)
    \/ AppendAudit(q)

Next == Tick \/ Connect \/ Close \/ \E q \in Slots : Hear(q) \/ Receive(q) \/ Step(q) \/ Fail(q)

Spec == Init /\ [][Next]_vars

-----------------------------------------------------------------------------
(* Properties *)

\* The registry, the handlers in flight and the commands have the shape the schema
\* and the handlers give them (schema.prisma:238-256, devices.service.ts).
TypeOK ==
    /\ devices \in [Devices -> OrNull(Row)]
    /\ req \in [Slots -> RequestType]
    /\ sent \subseteq [device: Devices, property: Properties, room: Rooms]
    /\ issued \subseteq Devices
    /\ link \in {"none", "down", "up"}
    /\ now \in Time

\* Unless an operator wrote a status, or metadata with no fault in it, a status is
\* explained by what the row shows: ONLINE by a heartbeat, DEGRADED by a fault,
\* UNPROVISIONED by no heartbeat yet, although a heartbeat and a fault write back
\* metadata that was read earlier (devices.service.ts:31-125).
StatusExplained ==
    (\A e \in Edits : e.status = Keep /\ e.lastError # Null) =>
    \A d \in Devices : devices[d] # Null =>
        /\ devices[d].status = "ONLINE" => devices[d].lastHeartbeatAt # Null
        /\ devices[d].status = "DEGRADED" => devices[d].lastError # Null
        /\ devices[d].status = "UNPROVISIONED" => devices[d].lastHeartbeatAt = Null

\* A device that was removed comes back only as a new one, with nothing of what a
\* handler read of it before it was removed: a fault in its metadata is one a request
\* to create it came with (deleteDevice, devices.service.ts:300-323, against every
\* update by id; createDevice, 181-190).
ComesBackNew ==
    [][\A d \in Devices : devices[d] = Null /\ devices'[d] # Null
          => \E q \in Slots, status \in {"ONLINE", "UNPROVISIONED"}, p \in Properties,
                r \in OrNull(Rooms), t \in OrNull(Time), e \in OrNull(Faults) :
                /\ devices'[d] = NewDevice(status, p, r, t, e)
                /\ r # Null => Home[r] = p
                /\ req[q].device = d /\ req[q].pc = "create"
                /\ e # Null => req[q].op = "create" /\ e = req[q].lastError]_vars

\* Only operators place a device: a row that is there changes its property or its room
\* only when assignDeviceToRoom, unassignDeviceFromRoom or updateDevice writes it, although
\* two handlers may both find no row and both create it (devices.service.ts:49-63 against
\* itself, 181-195, and properties.service.ts:386-395).
OnlyOperatorsPlace ==
    [][\A d \in Devices :
          /\ devices[d] # Null /\ devices'[d] # Null
          /\ <<devices'[d].property, devices'[d].room>> # <<devices[d].property, devices[d].room>>
          => \E q \in Slots : /\ req[q].op \in {"assign", "unassign", "update"}
                               /\ req[q].pc = "update" /\ req[q].device = d]_vars

\* A command the audit log says was issued was given to the broker, unless the
\* service runs without a client (sendCommand, devices.service.ts:327-359).
IssuedWasSent ==
    link # "none" => \A d \in issued : \E c \in sent : c.device = d

\* The topic hotel/{propertyId}/room/{roomId}/command/{action} of every command
\* names a room of the property it names, although the device may be moved between
\* the read and the publish (sendCommand, devices.service.ts:327-338; createDevice,
\* 170-180; assignDeviceToRoom, properties.service.ts:388-413).  updateDevice places
\* a device in a room of any property (257-275), so this is about registries where
\* operators use it to take devices out of rooms at most.
CommandsReachTheRoom ==
    (\A e \in Edits : e.room \in {Null, Keep}) => \A c \in sent : Home[c.room] = c.property

-----------------------------------------------------------------------------
(* What the repository says and the code does not do *)

\* "transitions them to OFFLINE if no heartbeat has been received within the
\* threshold" (devices.service.ts:130): a device goes from ONLINE to OFFLINE, where
\* no operator asks for it, only if its last heartbeat is old.
OnlyStaleGoOffline ==
    [][\A d \in Devices :
          /\ devices[d] # Null /\ devices[d].status = "ONLINE"
          /\ devices'[d] # Null /\ devices'[d].status = "OFFLINE"
          => IsStale(devices[d])]_vars

=============================================================================
