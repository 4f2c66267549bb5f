-------------------------- MODULE DevicesOverlaps --------------------------
(***************************************************************************)
(* Devices with a history variable that says whether a liveness check and  *)
(* a heartbeat of one device have overlapped yet.                          *)
(***************************************************************************)
EXTENDS Devices

VARIABLE overlapped

historyVars == <<vars, overlapped>>

\* Between its two calls a scan relies on what it has read of the devices it found, and
\* a heartbeat on what it has read of its own.  They keep apart if they never do that with
\* one device at a time.  The code does not see to that; a lock on the rows would.
Scanning(q, d) == AtCall(q, "scan", "update") /\ d \in req[q].found
Hearing(q, d) ==
    req[q].device = d /\ (AtCall(q, "heartbeat", "update") \/ AtCall(q, "heartbeat", "create"))

Apart == \A p, q \in Slots, d \in Devices : ~(Scanning(p, d) /\ Hearing(q, d))

HistoryInit == Init /\ overlapped = FALSE
HistoryNext == Next /\ overlapped' = (overlapped \/ ~Apart')
HistorySpec == HistoryInit /\ [][HistoryNext]_historyVars

\* Nobody asks updateDevice for OFFLINE.
OperatorsLeaveOn == \A e \in Edits : e.status # "OFFLINE"

\* Where operators do not ask for it, a device goes from ONLINE to OFFLINE only if its last
\* heartbeat is old, until a scan and a heartbeat have overlapped: removing, registering,
\* moving and failing devices do not mislead a scan (checkStaleDevices,
\* devices.service.ts:134-163).
OnlyStaleGoOfflineUntilOverlap ==
    [][OperatorsLeaveOn /\ ~overlapped =>
          \A d \in Devices :
             /\ devices[d] # Null /\ devices[d].status = "ONLINE"
             /\ devices'[d] # Null /\ devices'[d].status = "OFFLINE"
             => IsStale(devices[d])]_historyVars

=============================================================================
