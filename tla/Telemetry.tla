----------------------------- MODULE Telemetry -----------------------------
(***************************************************************************)
(* What the hotels send, from the broker to the events of the application: *)
(* iot/mqtt/mqtt.service.ts, the four subscribers of iot/subscribers and   *)
(* iot/ingestion/ingestion.service.ts.                                     *)
(*                                                                         *)
(* The client has a clean session: the broker knows its subscriptions and  *)
(* holds its messages only while it is connected.  A message that arrives  *)
(* is offered to the registered handlers one after the other, and each     *)
(* await in that chain puts the rest of it at the end of Node's queue of   *)
(* tasks, where the chains of other messages wait too.                     *)
(***************************************************************************)
EXTENDS TopicRegistry

CONSTANTS
    Messages,   \* the publications of gateways and sensors; one repeated is another
    Contents,   \* the topics and payloads they may have
    Refusable,  \* the subscriptions the broker may refuse
    Null        \* a message not sent yet

VARIABLES
    link,       \* MqttService: no client, not connected, connected, or shut down
    sub,        \* each subscription: not asked for, asked for, granted or refused
    sent,       \* what each message is, once it is sent
    channel,    \* the messages on their way from the broker to the client
    delivered,  \* the messages the client has received, in that order
    queue,      \* Node's queue of tasks
    emitted     \* the events given to the EventEmitter, in that order

vars == <<link, sub, sent, channel, delivered, queue, emitted>>

-----------------------------------------------------------------------------
\* A payload is JSON or not, and satisfies some schemas of topic-schema.ts.
Schemas == SensorTypes \cup (Kinds \ {"sensor"})
Content == [topic: Seq(STRING), json: BOOLEAN, fits: SUBSET Schemas]

ASSUME ContentsAssumption == Contents \subseteq Content
ASSUME RefusableAssumption == Refusable \subseteq Kinds
ASSUME NullAssumption == Null \notin Content

\* What each subscriber ingests a topic as, if it does
SensorEventSubscriber(topic) ==
    IF Is("sensor", topic) THEN "sensor"
    ELSE IF Is("emergency", topic) THEN "emergency" ELSE "none"
HeartbeatSubscriber(topic) == IF Is("heartbeat", topic) THEN "heartbeat" ELSE "none"
AcknowledgmentSubscriber(topic) == IF Is("ack", topic) THEN "ack" ELSE "none"
DeviceErrorSubscriber(topic) == IF Is("error", topic) THEN "error" ELSE "none"

\* The handlers of the client are the subscribers, in the order of their module.
Handlers == 1..4

Route(handler, topic) ==
    CASE handler = 1 -> SensorEventSubscriber(topic)
      [] handler = 2 -> HeartbeatSubscriber(topic)
      [] handler = 3 -> AcknowledgmentSubscriber(topic)
      [] handler = 4 -> DeviceErrorSubscriber(topic)
      [] OTHER       -> "none"

\* The schema a payload of a kind is held against
Schema(kind, topic) == IF kind = "sensor" THEN topic[6] ELSE kind

\* The rest of a chain: of which delivery, after which handler, and whether it is
\* the handler that awaits the ingestion or the listener that awaits the handler.
Task == [of: Nat \ {0}, handler: Handlers, at: {"handler", "listener"}]
Event == [of: Nat \ {0}, kind: Kinds, place: Seq(STRING)]

Init ==
    /\ link \in {"none", "down"}
    /\ sub = [k \in Kinds |-> "none"]
    /\ sent = [m \in Messages |-> Null]
    /\ channel = {}
    /\ delivered = <<>>
    /\ queue = <<>>
    /\ emitted = <<>>

-----------------------------------------------------------------------------
(* The connection.  A definition whose comment starts with "..." is what the *)
(* one after it would be with a bug; no action uses it.                      *)

\* ... that asks for the subscriptions the first time only
ConnectAgain ==
    /\ link = "down"
    /\ link' = "up"
    /\ sub' = IF delivered = <<>> THEN [k \in Kinds |-> "asked"] ELSE sub
    /\ UNCHANGED <<sent, channel, delivered, queue, emitted>>

\* 'connect' asks for every subscription, each time.
Connect ==
    /\ link = "down"
    /\ link' = "up"
    /\ sub' = [k \in Kinds |-> "asked"]
    /\ UNCHANGED <<sent, channel, delivered, queue, emitted>>

\* With the connection the broker forgets the subscriptions and what it had for
\* the client.
Lose(state) ==
    /\ link' = state
    /\ sub' = [k \in Kinds |-> "none"]
    /\ channel' = {}
    /\ UNCHANGED <<sent, delivered, queue, emitted>>

\* 'close'; the client reconnects.  Shutting down ends the client for good.
Close == link = "up" /\ Lose("down")
Disconnect == link \in {"down", "up"} /\ Lose("ended")

\* The subscriptions in the order the client asks for them, and the broker answers
Subscriptions == <<"sensor", "heartbeat", "error", "emergency", "ack">>
NextAnswered(k) ==
    \E i \in 1..Len(Subscriptions) :
       /\ k = Subscriptions[i] /\ sub[k] = "asked"
       /\ \A j \in 1..(i - 1) : sub[Subscriptions[j]] # "asked"

\* The callback of subscribe logs either outcome and does no more.
Answer(k, outcome) ==
    /\ NextAnswered(k)
    /\ sub' = [sub EXCEPT ![k] = outcome]
    /\ UNCHANGED <<link, sent, channel, delivered, queue, emitted>>

Granted(k) == Answer(k, "granted")
Refused(k) == k \in Refusable /\ Answer(k, "refused")

Listening(topic) == \E k \in Kinds : sub[k] = "granted" /\ Matches(Pattern[k], topic)

\* A gateway publishes; the broker has the message for the client if the client is
\* subscribed by then.
Send(m) ==
    /\ sent[m] = Null
    /\ \E c \in Contents :
          /\ sent' = [sent EXCEPT ![m] = c]
          /\ channel' = IF Listening(c.topic) THEN channel \cup {m} ELSE channel
    /\ UNCHANGED <<link, sub, delivered, queue, emitted>>

-----------------------------------------------------------------------------
(* The 'message' listener, the subscribers and the ingestion *)

\* A handler runs up to its first await: it emits the event of a valid payload,
\* or throws.  A handler that ingests awaits, and then the listener awaits it.
Emits(handler, content) ==
    LET kind == Route(handler, content.topic)
    IN  kind # "none" /\ Schema(kind, content.topic) \in content.fits

EventOf(n, handler, content) ==
    [of |-> n, kind |-> Route(handler, content.topic), place |-> Place(content.topic)]

\* ... where the rest of the chain comes before that of other messages
Overtake(tasks, task) == <<task>> \o tasks

Enqueue(tasks, task) == Append(tasks, task)

Call(tasks, n, handler, content) ==
    /\ emitted' = IF Emits(handler, content)
                  THEN Append(emitted, EventOf(n, handler, content)) ELSE emitted
    /\ queue' = Enqueue(tasks, [of |-> n, handler |-> handler,
                                at |-> IF Route(handler, content.topic) = "none"
                                       THEN "listener" ELSE "handler"])

\* ... that takes one message at a time
DeliverWhenIdle(m) ==
    /\ m \in channel
    /\ channel' = channel \ {m}
    /\ delivered' = Append(delivered, m)
    /\ IF sent[m].json /\ queue = <<>> THEN Call(queue, Len(delivered'), 1, sent[m])
       ELSE UNCHANGED <<queue, emitted>>
    /\ UNCHANGED <<link, sub, sent>>

\* 'message': the first handler is called before anything else runs.  Messages of
\* different topics may overtake each other on their way.
Deliver(m) ==
    /\ m \in channel
    /\ channel' = channel \ {m}
    /\ delivered' = Append(delivered, m)
    /\ IF sent[m].json THEN Call(queue, Len(delivered'), 1, sent[m])
       ELSE UNCHANGED <<queue, emitted>>
    /\ UNCHANGED <<link, sub, sent>>

\* ... that runs one handler too many, or one too few
AnotherPastEnd(handler) == handler <= 4
AnotherButLast(handler) == handler < 3

Another(handler) == handler < 4

\* Node resumes the chain at the head of the queue.  First the handler that awaited the
\* ingestion is done, then the listener calls the next one, until there is none.
HandlerDone(task) ==
    /\ task.at = "handler"
    /\ queue' = Enqueue(Tail(queue), [task EXCEPT !.at = "listener"])
    /\ UNCHANGED emitted

NextHandler(task) ==
    /\ task.at = "listener" /\ Another(task.handler)
    /\ Call(Tail(queue), task.of, task.handler + 1, sent[delivered[task.of]])

LastHandlerDone(task) ==
    /\ task.at = "listener" /\ ~Another(task.handler)
    /\ queue' = Tail(queue)
    /\ UNCHANGED emitted

RunTask ==
    /\ queue # <<>>
    /\ \/ HandlerDone(Head(queue))
       \/ NextHandler(Head(queue))
       \/ LastHandlerDone(Head(queue))
    /\ UNCHANGED <<link, sub, sent, channel, delivered>>

Next ==
    \/ Connect \/ Close \/ Disconnect
    \/ \E k \in Kinds : Granted(k) \/ Refused(k)
    \/ \E m \in Messages : Send(m) \/ Deliver(m)
    \/ RunTask

Spec == Init /\ [][Next]_vars

\* The client reconnects every five seconds, the broker answers every subscription
\* and passes on what it has, and Node runs every task.
FairSpec ==
    /\ Spec
    /\ WF_vars(Connect) /\ WF_vars(RunTask)
    /\ \A k \in Kinds : WF_vars(Granted(k) \/ Refused(k))
    /\ \A m \in Messages : WF_vars(Deliver(m))

-----------------------------------------------------------------------------
(* Properties *)

\* Connection, subscriptions, messages, tasks and events have the shape the client,
\* the registry and the listener give them (mqtt.service.ts:69-147).
TypeOK ==
    /\ link \in {"none", "down", "up", "ended"}
    /\ sub \in [Kinds -> {"none", "asked", "granted", "refused"}]
    /\ sent \in [Messages -> Contents \cup {Null}]
    /\ channel \subseteq Messages
    /\ delivered \in Seq(Messages)
    /\ queue \in Seq(Task)
    /\ emitted \in Seq(Event)

\* The kind a content is a valid message of
ValidAs(content) ==
    LET fitting == {k \in Kinds : /\ content.json /\ Is(k, content.topic)
                                  /\ Schema(k, content.topic) \in content.fits}
    IN  IF fitting = {} THEN "none" ELSE CHOOSE k \in fitting : TRUE

\* The event's kind and place are those of the content, and its payload satisfies
\* the schema.
Speaks(event, content) ==
    \E last \in SensorTypes \cup {content.topic[Len(content.topic)]} :
       /\ content.topic = Built(event.kind, event.place[1], event.place[2], last)
       /\ (IF event.kind = "sensor" THEN last ELSE event.kind) \in content.fits

\* Every event speaks for a message that arrived: the topic built from the event's kind
\* and place is the message's and its payload satisfies the schema of that topic, although
\* every message is offered to every handler and a payload may satisfy several schemas
\* (ingestion.service.ts:42-261, the subscribers).
EventsFaithful ==
    \A i \in 1..Len(emitted) :
       /\ emitted[i].of \in 1..Len(delivered)
       /\ Speaks(emitted[i], sent[delivered[emitted[i].of]])

\* Once the connection stays up, every subscription is asked for and answered,
\* however often it was lost before (mqtt.service.ts:70-73, 120-147).
AlwaysResubscribed ==
    <>[](link = "up") => <>[](\A k \in Kinds : sub[k] \in {"granted", "refused"})

Received(m) == \E i \in 1..Len(emitted) : delivered[emitted[i].of] = m

\* A valid message that is sent while its subscription stands becomes an event, unless the
\* connection is lost first: neither other messages nor the order of the handlers nor an
\* invalid payload keeps it from that (mqtt.service.ts:92-117).
OnlyLossLoses ==
    \A m \in Messages :
       m \in channel /\ ValidAs(sent[m]) # "none" ~> Received(m) \/ link # "up"

-----------------------------------------------------------------------------
(* What the repository says and the code does not do *)

AlertSent(m) == m \in channel /\ ValidAs(sent[m]) = "emergency"

\* "QoS: 2 (Exactly-Once delivery)" (docs/mqtt-contract.md:165): a valid alert that is
\* sent while the subscription stands becomes an event, if the connection is up from
\* some time on (mqtt.service.ts:47).
AlertsGetThrough ==
    <>[](link = "up") => \A m \in Messages : AlertSent(m) ~> Received(m)

=============================================================================
