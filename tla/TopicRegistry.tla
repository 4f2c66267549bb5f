--------------------------- MODULE TopicRegistry ---------------------------
(***************************************************************************)
(* The MQTT topics of the contract: iot/topics/topic.registry.ts.  A topic *)
(* is the sequence of its segments, what `split('/')` makes of it.         *)
(***************************************************************************)
EXTENDS Naturals, Sequences

SensorTypes == {"pir", "door", "temperature", "relay"}

\* What the service receives, and what it sends
Kinds == {"sensor", "heartbeat", "error", "emergency", "ack"}
TopicKinds == Kinds \cup {"command"}

\* The third and the fifth segment of each kind
Where ==
    [k \in TopicKinds |-> IF k \in {"heartbeat", "error"} THEN "gateway" ELSE "room"]
Word == [k \in TopicKinds |-> IF k = "error" THEN "errors" ELSE k]

\* The kinds that have a sixth segment
Long == {"sensor", "command", "ack"}

\* The subscription patterns
Pattern ==
    [sensor    |-> <<"hotel", "+", "room", "+", "sensor", "#">>,
     heartbeat |-> <<"hotel", "+", "gateway", "+", "heartbeat">>,
     error     |-> <<"hotel", "+", "gateway", "+", "errors">>,
     emergency |-> <<"hotel", "+", "room", "+", "emergency">>,
     ack       |-> <<"hotel", "+", "room", "+", "ack", "+">>]

\* Whether a broker delivers a topic to a pattern: "+" stands for one segment, a
\* final "#" for any number of them.
Matches(pattern, topic) ==
    LET Same(n) == \A i \in 1..n : pattern[i] \in {"+", topic[i]}
        last == Len(pattern)
    IN  IF pattern[last] = "#" THEN Len(topic) >= last - 1 /\ Same(last - 1)
        ELSE Len(topic) = last /\ Same(last)

\* The builders: the sensor type or the action comes last, where there is one.
Built(kind, property, place, last) ==
    IF kind \in Long THEN <<"hotel", property, Where[kind], place, Word[kind], last>>
    ELSE <<"hotel", property, Where[kind], place, Word[kind]>>

\* ... that takes every gateway topic for either kind
IsLoose(kind, topic) ==
    /\ Len(topic) = IF kind \in Long THEN 6 ELSE 5
    /\ topic[1] = "hotel" /\ topic[3] = Where[kind]
    /\ Where[kind] = "room" => topic[5] = Word[kind]
    /\ kind = "sensor" => topic[6] \in SensorTypes

\* The parsers: whether a topic is of a kind
Is(kind, topic) ==
    /\ Len(topic) = IF kind \in Long THEN 6 ELSE 5
    /\ topic[1] = "hotel" /\ topic[3] = Where[kind] /\ topic[5] = Word[kind]
    /\ kind = "sensor" => topic[6] \in SensorTypes

\* Where it is from: the property, and the room or the gateway
Place(topic) == <<topic[2], topic[4]>>

=============================================================================
