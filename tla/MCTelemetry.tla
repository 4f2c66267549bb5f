---------------------------- MODULE MCTelemetry ----------------------------
(* The contents of the runs of Telemetry *)
EXTENDS TelemetryRefinement, TLC

CONSTANTS m1, m2

Says(topic, schemas) == [topic |-> topic, json |-> TRUE, fits |-> schemas]

Heartbeat(gateway) == Says(Built("heartbeat", "h", gateway, ""), {"heartbeat"})
Alert == Says(Built("emergency", "h", "101", ""), {"emergency"})
Garbled == [Heartbeat("g1") EXCEPT !.json = FALSE, !.fits = {}]

\* A payload may satisfy several schemas: they allow more fields than they name.
Fault == Says(Built("error", "h", "g1", ""), {"error", "heartbeat"})
Ack == Says(Built("ack", "h", "101", "lock"), {"ack"})
Motion == Says(Built("sensor", "h", "101", "pir"), {"pir"})

\* A payload of another sensor, and a topic below one of the contract, which "#" covers
Mistyped == Says(Built("sensor", "h", "101", "door"), {"pir"})
Deeper == Says(Append(Built("sensor", "h", "101", "pir"), "raw"), {"pir"})

Everything ==
    {Heartbeat("g1"), Alert, Garbled, Fault, Ack, Motion, Mistyped, Deeper}

Alerts == {Alert}

=============================================================================
