-------------------------- MODULE TelemetryProofs --------------------------
(***************************************************************************)
(* What holds of Telemetry for any number of messages and any contents:    *)
(* above all that it implements EventBus.                                  *)
(***************************************************************************)
EXTENDS TelemetryRefinement, SequenceTheorems, TLAPS

\* What the client has received was sent, and a chain is of a message that is JSON.
Arrivals ==
    /\ \A m \in channel : sent[m] # Null
    /\ \A n \in 1..Len(delivered) : sent[delivered[n]] # Null
    /\ \A a \in 1..Len(queue) :
          queue[a].of \in 1..Len(delivered) /\ sent[delivered[queue[a].of]].json

TypeInv == TypeOK /\ Arrivals

USE ContentsAssumption, RefusableAssumption, NullAssumption

-----------------------------------------------------------------------------
(* Topics and handlers: no topic is of two kinds, and each kind has one      *)
(* handler.                                                                  *)

Home(kind) ==
    CASE kind \in {"sensor", "emergency"} -> 1
      [] kind = "heartbeat" -> 2
      [] kind = "ack" -> 3
      [] kind = "error" -> 4

\* No topic is of two kinds (topic.registry.ts:72-167).
LEMMA OneKind ==
    ASSUME NEW topic, NEW k \in TopicKinds, NEW l \in TopicKinds,
           Is(k, topic), Is(l, topic)
    PROVE  k = l
  BY DEF Is, Word, TopicKinds, Kinds

\* A topic that is built is of its kind, and comes from the place it was built for
\* (topic.registry.ts:46-167).
LEMMA BuiltIs ==
    ASSUME NEW k \in TopicKinds, NEW property, NEW place, NEW last,
           k = "sensor" => last \in SensorTypes
    PROVE  /\ Is(k, Built(k, property, place, last))
           /\ Place(Built(k, property, place, last)) = <<property, place>>
  BY DEF Is, Built, Place, Long

\* A topic of a kind is what is built for its place.
LEMMA IsBuilt ==
    ASSUME NEW topic \in Seq(STRING), NEW k \in TopicKinds, Is(k, topic)
    PROVE  /\ topic = Built(k, topic[2], topic[4], topic[Len(topic)])
           /\ Place(topic) \in Seq(STRING)
<1>1. CASE k \in Long
  <2>1. topic = <<topic[1], topic[2], topic[3], topic[4], topic[5], topic[6]>>
    BY <1>1 DEF Is
  <2>2. /\ topic[1] = "hotel" /\ topic[3] = Where[k] /\ topic[5] = Word[k]
        /\ topic[Len(topic)] = topic[6]
        /\ topic[2] \in STRING /\ topic[4] \in STRING
    BY <1>1 DEF Is
  <2>3. Built(k, topic[2], topic[4], topic[Len(topic)]) = topic
    BY <1>1, <2>1, <2>2, Zenon DEF Built
  <2>4. Place(topic) \in Seq(STRING)
    BY <2>2 DEF Place
  <2> QED BY <2>3, <2>4
<1>2. CASE k \notin Long
  <2>1. topic = <<topic[1], topic[2], topic[3], topic[4], topic[5]>>
    BY <1>2 DEF Is
  <2> QED BY <1>2, <2>1 DEF Is, Built, Place
<1> QED BY <1>1, <1>2

\* The broker delivers the topics of a kind to its subscription, and no command to any
\* (topic.registry.ts:38-42).
THEOREM SubscriptionsFit ==
    ASSUME NEW topic \in Seq(STRING), NEW k \in Kinds
    PROVE  /\ Is(k, topic) => Matches(Pattern[k], topic)
           /\ Is("command", topic) => ~Matches(Pattern[k], topic)
<1>1. CASE k = "sensor"
  BY <1>1 DEF Is, Matches, Pattern, Kinds, TopicKinds, Where, Word, Long
<1>2. CASE k = "heartbeat"
  BY <1>2 DEF Is, Matches, Pattern, Kinds, TopicKinds, Where, Word, Long
<1>3. CASE k = "error"
  BY <1>3 DEF Is, Matches, Pattern, Kinds, TopicKinds, Where, Word, Long
<1>4. CASE k = "emergency"
  BY <1>4 DEF Is, Matches, Pattern, Kinds, TopicKinds, Where, Word, Long
<1>5. CASE k = "ack"
  BY <1>5 DEF Is, Matches, Pattern, Kinds, TopicKinds, Where, Word, Long
<1> QED BY <1>1, <1>2, <1>3, <1>4, <1>5 DEF Kinds

LEMMA RouteHome ==
    ASSUME NEW h \in Handlers, NEW topic
    PROVE  /\ Route(h, topic) \in Kinds \cup {"none"}
           /\ Route(h, topic) # "none" => /\ Is(Route(h, topic), topic)
                                          /\ h = Home(Route(h, topic))
           /\ \A k \in Kinds : Is(k, topic) /\ h = Home(k) => Route(h, topic) = k
<1>1. \A k, l \in Kinds : Is(k, topic) /\ Is(l, topic) => k = l
  BY OneKind DEF TopicKinds
<1> QED BY <1>1 DEF Route, SensorEventSubscriber, HeartbeatSubscriber, AcknowledgmentSubscriber,
       DeviceErrorSubscriber, Home, Kinds, Handlers

LEMMA HomeType == ASSUME NEW k \in Kinds PROVE Home(k) \in Handlers
  BY DEF Home, Kinds, Handlers

\* A handler emits a content as what it is valid as, and no other handler does.
LEMMA EmitsValid ==
    ASSUME NEW h \in Handlers, NEW c \in Content, c.json
    PROVE  /\ Emits(h, c) <=> ValidAs(c) # "none" /\ h = Home(ValidAs(c))
           /\ Emits(h, c) => Route(h, c.topic) = ValidAs(c)
           /\ ValidAs(c) # "none" /\ h # Home(ValidAs(c)) => Route(h, c.topic) = "none"
<1> DEFINE fitting == {k \in Kinds : /\ c.json /\ Is(k, c.topic)
                                     /\ Schema(k, c.topic) \in c.fits}
<1>1. \A k, l \in Kinds : Is(k, c.topic) /\ Is(l, c.topic) => k = l
  BY OneKind DEF TopicKinds
<1>2. ValidAs(c) = IF fitting = {} THEN "none" ELSE CHOOSE k \in fitting : TRUE
  BY DEF ValidAs
<1>3. ASSUME NEW k \in fitting PROVE ValidAs(c) = k
  BY <1>1, <1>2
<1>4. fitting = {} => ValidAs(c) = "none"
  BY <1>2
<1>5. "none" \notin Kinds
  BY DEF Kinds
<1>6. Emits(h, c) <=> Route(h, c.topic) \in fitting
  BY RouteHome, <1>5 DEF Emits
<1>7. Route(h, c.topic) \in fitting => Route(h, c.topic) = ValidAs(c) /\ h = Home(ValidAs(c))
  BY <1>3, <1>5, RouteHome
<1>8. ASSUME NEW k \in fitting, h = Home(k) PROVE Route(h, c.topic) = k
  BY <1>8, RouteHome
<1>9. ASSUME NEW k \in fitting, Route(h, c.topic) # "none" PROVE h = Home(k)
  BY <1>1, <1>9, RouteHome
<1> HIDE DEF fitting
<1>10. \A k \in fitting : k # "none"
  BY <1>5 DEF fitting
<1> QED BY <1>3, <1>4, <1>6, <1>7, <1>8, <1>9, <1>10

LEMMA ValidType ==
    ASSUME NEW c
    PROVE  /\ ValidAs(c) \in Kinds \cup {"none"}
           /\ ~c.json => ValidAs(c) = "none"
           /\ ValidAs(c) # "none" => /\ Is(ValidAs(c), c.topic)
                                     /\ Schema(ValidAs(c), c.topic) \in c.fits
  BY DEF ValidAs

-----------------------------------------------------------------------------
(* Types *)

\* The chain goes to the end of the queue; if the handler was not the one of the content's
\* kind, only the listener awaits.
Chained(tasks, n, h, c) ==
    \E t \in Task :
       /\ queue' = Append(tasks, t) /\ t.of = n /\ t.handler = h
       /\ ValidAs(c) # "none" /\ h # Home(ValidAs(c)) => t.at = "listener"

\* What a call of a handler does to the queue and the events
LEMMA CallEffect ==
    ASSUME TypeOK, NEW tasks \in Seq(Task), NEW n \in Nat \ {0}, NEW h \in Handlers,
           NEW c \in Content, c.json, Call(tasks, n, h, c)
    PROVE  /\ Chained(tasks, n, h, c)
           /\ IF ValidAs(c) # "none" /\ h = Home(ValidAs(c))
              THEN emitted' = Append(emitted, [of |-> n, kind |-> ValidAs(c), place |-> Place(c.topic)])
              ELSE emitted' = emitted
           /\ emitted' \in Seq(Event)
<1> DEFINE t == [of |-> n, handler |-> h,
                 at |-> IF Route(h, c.topic) = "none" THEN "listener" ELSE "handler"]
<1>1. t \in Task /\ queue' = Append(tasks, t)
  BY DEF Task, Call, Enqueue
<1>2. emitted' = IF Emits(h, c) THEN Append(emitted, EventOf(n, h, c)) ELSE emitted
  BY DEF Call
<1>3. Emits(h, c) => EventOf(n, h, c) = [of |-> n, kind |-> ValidAs(c), place |-> Place(c.topic)]
  BY EmitsValid DEF EventOf
<1>4. ValidAs(c) # "none" =>
          [of |-> n, kind |-> ValidAs(c), place |-> Place(c.topic)] \in Event
  BY ValidType, IsBuilt DEF Event, Content, TopicKinds
<1>5. emitted' \in Seq(Event)
  BY <1>2, <1>3, <1>4, EmitsValid, AppendProperties DEF TypeOK
<1>6. ValidAs(c) # "none" /\ h # Home(ValidAs(c)) => t.at = "listener"
  BY EmitsValid
<1>7. Chained(tasks, n, h, c)
  BY <1>1, <1>6 DEF Chained
<1> QED BY <1>2, <1>3, <1>5, <1>7, EmitsValid

LEMMA TypeInit == Init => TypeInv
  BY DEF Init, TypeInv, TypeOK, Arrivals

\* What was received stays as it is.
LEMMA ReceivedKept ==
    ASSUME TypeInv, [Next]_vars
    PROVE  /\ Len(delivered) <= Len(delivered')
           /\ \A n \in 1..Len(delivered) : /\ delivered'[n] = delivered[n]
                                           /\ sent'[delivered[n]] = sent[delivered[n]]
<1>1. CASE UNCHANGED delivered /\ UNCHANGED sent
  BY <1>1 DEF TypeInv, TypeOK
<1>2. ASSUME NEW m \in Messages, Send(m)
      PROVE  UNCHANGED delivered /\ \A n \in 1..Len(delivered) : sent'[delivered[n]] = sent[delivered[n]]
  BY <1>2 DEF Send, TypeInv, TypeOK, Arrivals
<1>3. ASSUME NEW m \in Messages, Deliver(m)
      PROVE  delivered' = Append(delivered, m) /\ UNCHANGED sent
  BY <1>3 DEF Deliver
<1>4. \A m \in Messages : /\ Len(Append(delivered, m)) = Len(delivered) + 1
                          /\ \A n \in 1..Len(delivered) : Append(delivered, m)[n] = delivered[n]
  BY AppendProperties DEF TypeInv, TypeOK
<1>5. [Next]_vars => \/ UNCHANGED delivered /\ UNCHANGED sent
                     \/ \E m \in Messages : Send(m) \/ Deliver(m)
  BY DEF Next, vars, Connect, Close, Disconnect, Lose, Granted, Refused, Answer, RunTask
<1>6. Len(delivered) \in Nat
  BY DEF TypeInv, TypeOK
<1> QED BY <1>1, <1>2, <1>3, <1>4, <1>5, <1>6

LEMMA ConnectType == ASSUME TypeInv, Connect PROVE TypeInv'
  BY DEF Connect, TypeInv, TypeOK, Arrivals, Kinds

LEMMA LoseType == ASSUME TypeInv, Close \/ Disconnect PROVE TypeInv'
  BY DEF Close, Disconnect, Lose, TypeInv, TypeOK, Arrivals, Kinds

LEMMA AnswerType ==
    ASSUME TypeInv, NEW k \in Kinds, Granted(k) \/ Refused(k)
    PROVE  TypeInv'
  BY DEF Granted, Refused, Answer, TypeInv, TypeOK, Arrivals

LEMMA SendType ==
    ASSUME TypeInv, NEW m \in Messages, Send(m)
    PROVE  TypeInv'
<1>1. PICK c \in Contents : /\ sent' = [sent EXCEPT ![m] = c]
                            /\ channel' = IF Listening(c.topic) THEN channel \cup {m} ELSE channel
  BY DEF Send
<1>2. c # Null /\ sent' \in [Messages -> Contents \cup {Null}] /\ channel' \subseteq Messages
  BY <1>1 DEF TypeInv, TypeOK
<1>3. sent[m] = Null /\ UNCHANGED <<link, sub, delivered, queue, emitted>>
  BY DEF Send
<1>4. TypeOK'
  BY <1>2, <1>3 DEF TypeInv, TypeOK
<1>5. \A x \in Messages : sent'[x] = IF x = m THEN c ELSE sent[x]
  BY <1>1 DEF TypeInv, TypeOK
<1>6. \A n \in 1..Len(delivered) : delivered[n] \in Messages /\ delivered[n] # m
  BY <1>3 DEF TypeInv, TypeOK, Arrivals
<1>7. Arrivals'
  BY <1>1, <1>2, <1>3, <1>5, <1>6 DEF TypeInv, TypeOK, Arrivals
<1> QED BY <1>4, <1>7 DEF TypeInv

\* A message that comes in
LEMMA DeliverEffect ==
    ASSUME TypeInv, NEW m \in Messages, Deliver(m)
    PROVE  /\ sent[m] \in Content /\ sent[m] # Null
           /\ delivered' = Append(delivered, m) /\ delivered' \in Seq(Messages)
           /\ Len(delivered') = Len(delivered) + 1 /\ delivered'[Len(delivered')] = m
           /\ \A n \in 1..Len(delivered) : delivered'[n] = delivered[n]
           /\ sent[m].json => Call(queue, Len(delivered'), 1, sent[m])
           /\ ~sent[m].json => UNCHANGED <<queue, emitted>>
           /\ UNCHANGED <<link, sub, sent>> /\ channel' = channel \ {m}
<1>1. sent[m] \in Contents
  BY DEF Deliver, TypeInv, TypeOK, Arrivals
<1>2. sent[m].json \in BOOLEAN
  BY <1>1 DEF Content
<1>3. sent[m] \in Content /\ sent[m] # Null
  BY <1>1
<1> QED BY <1>2, <1>3, AppendProperties DEF Deliver, TypeInv, TypeOK

LEMMA DeliverType ==
    ASSUME TypeInv, NEW m \in Messages, Deliver(m)
    PROVE  TypeInv'
<1>1. Len(delivered') \in Nat \ {0} /\ 1 \in Handlers /\ Len(delivered) \in Nat
  BY DeliverEffect DEF TypeInv, TypeOK, Handlers
<1>2. CASE ~sent[m].json
  <2>1. UNCHANGED <<queue, emitted>>
    BY <1>2, DeliverEffect
  <2>2. TypeOK'
    BY <2>1, DeliverEffect DEF TypeInv, TypeOK
  <2>3. \A k \in 1..Len(delivered') : k \in 1..Len(delivered) \/ k = Len(delivered')
    BY <1>1, DeliverEffect
  <2>4. \A k \in 1..Len(delivered') : sent'[delivered'[k]] # Null
    BY <1>1, <2>3, DeliverEffect DEF TypeInv, Arrivals
  <2>5. \A a \in 1..Len(queue') :
           queue'[a].of \in 1..Len(delivered') /\ sent'[delivered'[queue'[a].of]].json
    BY <1>1, <2>1, DeliverEffect DEF TypeInv, Arrivals
  <2>6. Arrivals'
    BY <2>4, <2>5, DeliverEffect DEF TypeInv, Arrivals
  <2> QED BY <2>2, <2>6 DEF TypeInv
<1>3. CASE sent[m].json
  <2>0. PICK n \in Nat \ {0}, c \in Content :
            n = Len(delivered') /\ c = sent[m] /\ c.json /\ Call(queue, n, 1, c)
    BY <1>1, <1>3, DeliverEffect
  <2>1. emitted' \in Seq(Event)
    BY <1>1, <2>0, CallEffect DEF TypeInv, TypeOK
  <2>2. PICK t \in Task :
            /\ queue' = Append(queue, t) /\ t.of = n /\ t.handler = 1
            /\ ValidAs(c) # "none" /\ 1 # Home(ValidAs(c)) => t.at = "listener"
    <3>1. 1 \in Handlers /\ queue \in Seq(Task) /\ TypeOK
      BY DEF Handlers, TypeInv, TypeOK
    <3>2. Chained(queue, n, 1, c)
      BY <2>0, <3>1, CallEffect
    <3> QED BY <3>2 DEF Chained
  <2>3. queue' \in Seq(Task) /\ Len(queue') = Len(queue) + 1 /\ queue'[Len(queue) + 1] = t
        /\ \A a \in 1..Len(queue) : queue'[a] = queue[a]
    BY <2>2, AppendProperties DEF TypeInv, TypeOK
  <2>4. TypeOK'
    BY <2>1, <2>3, DeliverEffect DEF TypeInv, TypeOK
  <2>5. ASSUME NEW a \in 1..Len(queue')
        PROVE  queue'[a].of \in 1..Len(delivered') /\ sent[delivered'[queue'[a].of]].json
    <3>1. CASE a = Len(queue) + 1
      BY <1>1, <1>3, <2>0, <2>2, <2>3, <3>1, DeliverEffect
    <3>2. CASE a \in 1..Len(queue)
      <4>1. queue'[a] = queue[a] /\ queue[a].of \in 1..Len(delivered)
            /\ sent[delivered[queue[a].of]].json
        BY <2>3, <3>2 DEF TypeInv, Arrivals
      <4> QED BY <1>1, <4>1, DeliverEffect
    <3>3. Len(queue) \in Nat
      BY DEF TypeInv, TypeOK
    <3> QED BY <2>3, <3>1, <3>2, <3>3
  <2>6. \A k \in 1..Len(delivered') : k \in 1..Len(delivered) \/ k = Len(delivered')
    BY <1>1, DeliverEffect
  <2>7. \A k \in 1..Len(delivered') : sent'[delivered'[k]] # Null
    BY <1>1, <2>6, DeliverEffect DEF TypeInv, Arrivals
  <2>8. Arrivals'
    BY <2>5, <2>7, DeliverEffect DEF TypeInv, Arrivals
  <2> QED BY <2>4, <2>8 DEF TypeInv
<1> QED BY <1>2, <1>3

\* A task that is run: it goes to the end of the queue, changed, or it is the last.
LEMMA RunEffect ==
    ASSUME TypeInv, RunTask
    PROVE  /\ queue[1] \in Task /\ queue[1] = Head(queue) /\ queue # <<>>
           /\ Len(queue) >= 1 /\ Len(queue) \in Nat
           /\ Tail(queue) \in Seq(Task) /\ Len(Tail(queue)) = Len(queue) - 1
           /\ \A a \in 1..(Len(queue) - 1) : Tail(queue)[a] = queue[a + 1]
           /\ sent[delivered[queue[1].of]] \in Content /\ sent[delivered[queue[1].of]].json
           /\ queue[1].of \in 1..Len(delivered)
           /\ UNCHANGED <<link, sub, sent, channel, delivered>>
<1>1. queue \in Seq(Task) /\ queue # <<>> /\ Len(queue) \in Nat /\ Len(queue) >= 1
  BY DEF RunTask, TypeInv, TypeOK
<1>2. queue[1] \in Task /\ queue[1] = Head(queue)
  BY <1>1
<1>3. /\ Tail(queue) \in Seq(Task) /\ Len(Tail(queue)) = Len(queue) - 1
      /\ \A a \in 1..(Len(queue) - 1) : Tail(queue)[a] = queue[a + 1]
  BY <1>1, HeadTailProperties
<1>4. queue[1].of \in 1..Len(delivered) /\ sent[delivered[queue[1].of]].json
  BY <1>1 DEF TypeInv, Arrivals
<1>5. sent[delivered[queue[1].of]] \in Content
  BY <1>4 DEF TypeInv, TypeOK, Arrivals
<1> QED BY <1>1, <1>2, <1>3, <1>4, <1>5 DEF RunTask

LEMMA RunType == ASSUME TypeInv, RunTask PROVE TypeInv'
<1> DEFINE head == queue[1]
<1>1. ASSUME NEW t \in Task, queue' = Append(Tail(queue), t), t.of = head.of,
             emitted' \in Seq(Event)
      PROVE  TypeInv'
  <2>1. /\ queue' \in Seq(Task) /\ Len(queue') = Len(queue) /\ queue'[Len(queue)] = t
        /\ \A a \in 1..(Len(queue) - 1) : queue'[a] = queue[a + 1]
    BY <1>1, RunEffect, AppendProperties
  <2>2. \A a \in 1..Len(queue') : \E b \in 1..Len(queue) : queue'[a].of = queue[b].of
    <3>1. \A a \in 1..(Len(queue) - 1) : a + 1 \in 1..Len(queue) /\ queue'[a].of = queue[a + 1].of
      BY <2>1, RunEffect
    <3>2. 1 \in 1..Len(queue) /\ queue'[Len(queue)].of = queue[1].of
      BY <1>1, <2>1, RunEffect
    <3>3. \A a \in 1..Len(queue') : a \in 1..(Len(queue) - 1) \/ a = Len(queue)
      BY <2>1, RunEffect
    <3> QED BY <3>1, <3>2, <3>3
  <2> QED BY <1>1, <2>1, <2>2, RunEffect DEF TypeInv, TypeOK, Arrivals
<1>2. CASE HandlerDone(Head(queue))
  <2>1. [head EXCEPT !.at = "listener"] \in Task
    BY RunEffect DEF Task
  <2>2. queue' = Append(Tail(queue), [head EXCEPT !.at = "listener"]) /\ UNCHANGED emitted
    BY <1>2, RunEffect DEF HandlerDone, Enqueue
  <2>3. [head EXCEPT !.at = "listener"].of = head.of
    BY RunEffect DEF Task
  <2> QED BY <1>1, <2>1, <2>2, <2>3 DEF TypeInv, TypeOK
<1>3. CASE NextHandler(Head(queue))
  <2>1. head.handler + 1 \in Handlers /\ head.of \in Nat \ {0}
    BY <1>3, RunEffect DEF NextHandler, Another, Task, Handlers
  <2>2. Call(Tail(queue), head.of, head.handler + 1, sent[delivered[head.of]])
    BY <1>3, RunEffect DEF NextHandler
  <2>3. /\ emitted' \in Seq(Event)
        /\ \E t \in Task : queue' = Append(Tail(queue), t) /\ t.of = head.of
    <3>1. PICK tasks \in Seq(Task), n \in Nat \ {0}, h \in Handlers, c \in Content :
             tasks = Tail(queue) /\ n = head.of /\ c.json /\ Call(tasks, n, h, c)
      BY <2>1, <2>2, RunEffect
    <3>2. Chained(tasks, n, h, c)
      BY <3>1, CallEffect DEF TypeInv
    <3>3. emitted' \in Seq(Event)
      BY <3>1, CallEffect DEF TypeInv
    <3> QED BY <3>1, <3>2, <3>3 DEF Chained
  <2> QED BY <1>1, <2>3
<1>4. CASE LastHandlerDone(Head(queue))
  <2>1. queue' = Tail(queue) /\ UNCHANGED emitted
    BY <1>4 DEF LastHandlerDone
  <2>2. \A a \in 1..Len(queue') : queue'[a] = queue[a + 1] /\ a + 1 \in 1..Len(queue)
    BY <2>1, RunEffect
  <2> QED BY <2>1, <2>2, RunEffect DEF TypeInv, TypeOK, Arrivals
<1> QED BY <1>2, <1>3, <1>4 DEF RunTask

LEMMA TypeStep == TypeInv /\ [Next]_vars => TypeInv'
<1> SUFFICES ASSUME TypeInv, [Next]_vars PROVE TypeInv'
  OBVIOUS
<1>1. CASE UNCHANGED vars
  BY <1>1 DEF vars, TypeInv, TypeOK, Arrivals
<1> QED BY <1>1, ConnectType, LoseType, AnswerType, SendType, DeliverType, RunType DEF Next

\* The client, the queue and the events are well typed, whatever is sent
\* (mqtt.service.ts:69-147).
THEOREM TypeCorrect == Spec => []TypeOK
<1>1. Spec => []TypeInv
  BY TypeInit, TypeStep, PTL DEF Spec
<1>2. TypeInv => TypeOK
  BY DEF TypeInv
<1> QED BY <1>1, <1>2, PTL

-----------------------------------------------------------------------------
(* Every event speaks for a message. *)

LEMMA ValidSpeaks ==
    ASSUME NEW c \in Content, NEW n, ValidAs(c) # "none"
    PROVE  Speaks([of |-> n, kind |-> ValidAs(c), place |-> Place(c.topic)], c)
<1> DEFINE k == ValidAs(c)
           last == c.topic[Len(c.topic)]
<1>1. k \in Kinds /\ k \in TopicKinds /\ Is(k, c.topic) /\ Schema(k, c.topic) \in c.fits
  BY ValidType DEF TopicKinds
<1>2. c.topic \in Seq(STRING)
  BY DEF Content
<1>3. c.topic = Built(k, c.topic[2], c.topic[4], last)
  BY <1>1, <1>2, IsBuilt
<1>4. (IF k = "sensor" THEN last ELSE k) \in c.fits
  BY <1>1 DEF Schema, Is, Long
<1> HIDE DEF k, last
<1>5. Place(c.topic)[1] = c.topic[2] /\ Place(c.topic)[2] = c.topic[4]
  BY DEF Place
<1> QED BY <1>3, <1>4, <1>5 DEF Speaks, k, last

\* What a step may do to the events
LEMMA EmittedStep ==
    ASSUME TypeInv, [Next]_vars
    PROVE  \/ emitted' = emitted
           \/ \E n \in 1..Len(delivered') :
                 /\ ValidAs(sent'[delivered'[n]]) # "none"
                 /\ emitted' = Append(emitted,
                       [of |-> n, kind |-> ValidAs(sent'[delivered'[n]]),
                        place |-> Place(sent'[delivered'[n]].topic)])
<1>1. ASSUME NEW m \in Messages, Deliver(m), sent[m].json
      PROVE  \/ emitted' = emitted
             \/ /\ ValidAs(sent[m]) # "none"
                /\ emitted' = Append(emitted,
                      [of |-> Len(delivered'), kind |-> ValidAs(sent[m]),
                       place |-> Place(sent[m].topic)])
  <2>1. PICK n \in Nat \ {0}, c \in Content :
            n = Len(delivered') /\ c = sent[m] /\ c.json /\ Call(queue, n, 1, c)
    BY <1>1, DeliverEffect DEF TypeInv, TypeOK
  <2>2. 1 \in Handlers /\ queue \in Seq(Task) /\ TypeOK
    BY DEF Handlers, TypeInv, TypeOK
  <2>3. emitted' = IF ValidAs(c) # "none" /\ 1 = Home(ValidAs(c))
                   THEN Append(emitted, [of |-> n, kind |-> ValidAs(c), place |-> Place(c.topic)])
                   ELSE emitted
    BY <2>1, <2>2, CallEffect
  <2> QED BY <2>1, <2>3
<1>2. ASSUME NEW m \in Messages, Deliver(m)
      PROVE  /\ Len(delivered') \in 1..Len(delivered')
             /\ sent'[delivered'[Len(delivered')]] = sent[m]
             /\ ~sent[m].json => emitted' = emitted
  BY <1>2, DeliverEffect DEF TypeInv, TypeOK
<1>3. ASSUME RunTask
      PROVE  \/ emitted' = emitted
             \/ /\ ValidAs(sent[delivered[queue[1].of]]) # "none"
                /\ emitted' = Append(emitted,
                      [of |-> queue[1].of, kind |-> ValidAs(sent[delivered[queue[1].of]]),
                       place |-> Place(sent[delivered[queue[1].of]].topic)])
  <2>1. CASE NextHandler(Head(queue))
    <3>1. queue[1].handler + 1 \in Handlers /\ queue[1].of \in Nat \ {0}
      BY <1>3, <2>1, RunEffect DEF NextHandler, Another, Task, Handlers
    <3>2. PICK tasks \in Seq(Task), n \in Nat \ {0}, h \in Handlers, c \in Content :
             /\ n = queue[1].of /\ c = sent[delivered[queue[1].of]]
             /\ c.json /\ Call(tasks, n, h, c)
      BY <1>3, <2>1, <3>1, RunEffect DEF NextHandler
    <3>3. emitted' = IF ValidAs(c) # "none" /\ h = Home(ValidAs(c))
                     THEN Append(emitted, [of |-> n, kind |-> ValidAs(c), place |-> Place(c.topic)])
                     ELSE emitted
      BY <3>2, CallEffect DEF TypeInv
    <3> QED BY <3>2, <3>3
  <2> QED BY <1>3, <2>1 DEF RunTask, HandlerDone, LastHandlerDone
<1>4. ASSUME RunTask
      PROVE  queue[1].of \in 1..Len(delivered') /\ UNCHANGED <<sent, delivered>>
  BY <1>4, RunEffect
<1>5. \/ emitted' = emitted \/ RunTask \/ \E m \in Messages : Deliver(m)
  BY DEF Next, vars, Connect, Close, Disconnect, Lose, Granted, Refused, Answer, Send
<1>6. CASE RunTask
  BY <1>3, <1>4, <1>6
<1>7. ASSUME NEW m \in Messages, Deliver(m)
      PROVE  \/ emitted' = emitted
             \/ /\ ValidAs(sent'[delivered'[Len(delivered')]]) # "none"
                /\ emitted' = Append(emitted,
                      [of |-> Len(delivered'), kind |-> ValidAs(sent'[delivered'[Len(delivered')]]),
                       place |-> Place(sent'[delivered'[Len(delivered')]].topic)])
  BY <1>1, <1>2, <1>7
<1> QED BY <1>2, <1>5, <1>6, <1>7

LEMMA FaithfulStep == TypeInv /\ EventsFaithful /\ [Next]_vars => EventsFaithful'
<1> SUFFICES ASSUME TypeInv, EventsFaithful, [Next]_vars PROVE EventsFaithful'
  OBVIOUS
<1>1. TypeInv'
  BY TypeStep
<1>2. ASSUME NEW i \in 1..Len(emitted)
      PROVE  /\ emitted[i].of \in 1..Len(delivered')
             /\ Speaks(emitted[i], sent'[delivered'[emitted[i].of]])
  <2>1. emitted[i].of \in 1..Len(delivered) /\ Speaks(emitted[i], sent[delivered[emitted[i].of]])
    BY DEF EventsFaithful
  <2>2. sent'[delivered'[emitted[i].of]] = sent[delivered[emitted[i].of]]
    BY <2>1, ReceivedKept
  <2>3. Len(delivered) \in Nat /\ Len(delivered') \in Nat
    BY <1>1 DEF TypeInv, TypeOK
  <2> QED BY <2>1, <2>2, <2>3, ReceivedKept
<1>3. CASE emitted' = emitted
  BY <1>2, <1>3 DEF EventsFaithful
<1>4. ASSUME NEW n \in 1..Len(delivered'), NEW c, c = sent'[delivered'[n]], ValidAs(c) # "none",
             emitted' = Append(emitted, [of |-> n, kind |-> ValidAs(c), place |-> Place(c.topic)])
      PROVE  EventsFaithful'
  <2>1. c \in Content
    BY <1>1, <1>4 DEF TypeInv, TypeOK, Arrivals
  <2>2. PICK e : e = [of |-> n, kind |-> ValidAs(c), place |-> Place(c.topic)]
    OBVIOUS
  <2>3. e.of = n /\ Speaks(e, c)
    BY <1>4, <2>1, <2>2, ValidSpeaks
  <2>4. /\ Len(emitted') = Len(emitted) + 1 /\ emitted'[Len(emitted) + 1] = e
        /\ \A i \in 1..Len(emitted) : emitted'[i] = emitted[i]
    BY <1>4, <2>2 DEF TypeInv, TypeOK
  <2>5. \A i \in 1..Len(emitted') : i \in 1..Len(emitted) \/ i = Len(emitted) + 1
    BY <2>4 DEF TypeInv, TypeOK
  <2>6. \A i \in 1..Len(emitted') :
           /\ emitted'[i].of \in 1..Len(delivered')
           /\ Speaks(emitted'[i], sent'[delivered'[emitted'[i].of]])
    BY <1>2, <1>4, <2>3, <2>4, <2>5
  <2>7. EventsFaithful' <=> \A i \in 1..Len(emitted') :
           /\ emitted'[i].of \in 1..Len(delivered')
           /\ Speaks(emitted'[i], sent'[delivered'[emitted'[i].of]])
    BY DEF EventsFaithful, Speaks
  <2> QED BY <2>6, <2>7
<1> QED BY <1>3, <1>4, EmittedStep

\* Every event has the kind, the place and the schema of a message that was received
\* (ingestion.service.ts:42-261).
THEOREM EventsAlwaysFaithful == Spec => []EventsFaithful
<1>1. Init => TypeInv /\ EventsFaithful
  BY TypeInit DEF Init, EventsFaithful
<1>2. TypeInv /\ EventsFaithful /\ [Next]_vars => (TypeInv /\ EventsFaithful)'
  BY TypeStep, FaithfulStep
<1> QED BY <1>1, <1>2, PTL DEF Spec

-----------------------------------------------------------------------------
(* The queue: of two messages of one kind that wait for their handler, the   *)
(* first to arrive stays ahead, a handler or a place in the queue.  Here ks  *)
(* is the kind of each message received, and os those that are events.       *)

\* The chain has yet to call the handler its message is for.
Ahead(ks, task) == ks[task.of] # "none" /\ task.handler < Home(ks[task.of])

OneChainEach(q) == \A a, b \in 1..Len(q) : q[a].of = q[b].of => a = b

AheadIsNotOut(q, ks, os) ==
    \A a \in 1..Len(q) : Ahead(ks, q[a]) => q[a].at = "listener" /\ q[a].of \notin os

OutOrAhead(q, ks, os) ==
    \A n \in 1..Len(ks) :
       ks[n] # "none" /\ n \notin os => \E a \in 1..Len(q) : q[a].of = n /\ Ahead(ks, q[a])

InOrder(q, a, b) ==
    IF a < b THEN q[a].handler >= q[b].handler ELSE q[a].handler > q[b].handler

FirstStaysFirst(q, ks) ==
    \A a, b \in 1..Len(q) :
       (/\ Ahead(ks, q[a]) /\ Ahead(ks, q[b])
        /\ ks[q[a].of] = ks[q[b].of] /\ q[a].of < q[b].of)
       => InOrder(q, a, b)

WellFormed(q, ks, os) ==
    /\ q \in Seq(Task) /\ ks \in Seq(Kinds \cup {"none"}) /\ os \subseteq 1..Len(ks)
    /\ \A a \in 1..Len(q) : q[a].of \in 1..Len(ks)

Chains(q, ks, os) ==
    /\ WellFormed(q, ks, os)
    /\ OneChainEach(q) /\ AheadIsNotOut(q, ks, os) /\ OutOrAhead(q, ks, os)
    /\ FirstStaysFirst(q, ks)

\* A message that is not valid may have no chain.
LEMMA NoChain ==
    ASSUME NEW q, NEW ks, NEW os, Chains(q, ks, os)
    PROVE  Chains(q, Append(ks, "none"), os)
<1> DEFINE ls == Append(ks, "none")
<1>1. /\ ks \in Seq(Kinds \cup {"none"}) /\ q \in Seq(Task) /\ Len(ks) \in Nat
      /\ \A a \in 1..Len(q) : q[a].of \in 1..Len(ks)
  BY DEF Chains, WellFormed
<1>2. /\ ls \in Seq(Kinds \cup {"none"}) /\ Len(ls) = Len(ks) + 1 /\ ls[Len(ks) + 1] = "none"
      /\ \A n \in 1..Len(ks) : ls[n] = ks[n]
      /\ \A n \in 1..Len(ls) : n \in 1..Len(ks) \/ n = Len(ks) + 1
      /\ \A n \in 1..Len(ks) : n \in 1..Len(ls)
  BY <1>1
<1> HIDE DEF ls
<1>3. \A a \in 1..Len(q) : Ahead(ls, q[a]) <=> Ahead(ks, q[a])
  BY <1>1, <1>2 DEF Ahead
<1>4. WellFormed(q, ls, os)
  BY <1>1, <1>2 DEF Chains, WellFormed
<1>5. AheadIsNotOut(q, ls, os) /\ OneChainEach(q)
  BY <1>3 DEF Chains, AheadIsNotOut
<1>6. OutOrAhead(q, ls, os)
  BY <1>2, <1>3 DEF Chains, OutOrAhead
<1>7. FirstStaysFirst(q, ls)
  BY <1>1, <1>2, <1>3 DEF Chains, FirstStaysFirst
<1>8. Chains(q, ls, os)
  BY <1>4, <1>5, <1>6, <1>7 DEF Chains
<1> QED BY <1>8 DEF ls

\* A message that comes in puts its chain last.
LEMMA NewChain ==
    ASSUME NEW q, NEW ks, NEW os, Chains(q, ks, os), NEW k \in Kinds \cup {"none"},
           NEW t \in Task, t.of = Len(ks) + 1, t.handler = 1,
           k # "none" /\ Home(k) # 1 => t.at = "listener",
           NEW ps, ps = IF k # "none" /\ Home(k) = 1 THEN os \cup {t.of} ELSE os
    PROVE  Chains(Append(q, t), Append(ks, k), ps)
<1> DEFINE ls == Append(ks, k)
           p == Append(q, t)
           last == Len(q) + 1
<1>1. /\ ks \in Seq(Kinds \cup {"none"}) /\ q \in Seq(Task) /\ Len(ks) \in Nat /\ Len(q) \in Nat
      /\ \A a \in 1..Len(q) : /\ q[a].of \in 1..Len(ks) /\ q[a].of # t.of /\ q[a].of < t.of
                             /\ q[a].handler \in Handlers
      /\ os \subseteq 1..Len(ks) /\ t.of \notin os /\ t.of \in Nat
  <2>1. /\ ks \in Seq(Kinds \cup {"none"}) /\ q \in Seq(Task) /\ Len(ks) \in Nat /\ Len(q) \in Nat
        /\ \A a \in 1..Len(q) : q[a].of \in 1..Len(ks)
        /\ os \subseteq 1..Len(ks)
    BY DEF Chains, WellFormed
  <2>2. \A a \in 1..Len(q) : q[a] \in Task
    BY <2>1
  <2>3. \A a \in 1..Len(q) : q[a].of # t.of /\ q[a].of < t.of
    BY <2>1
  <2>4. \A a \in 1..Len(q) : q[a].handler \in Handlers
    BY <2>2 DEF Task
  <2> QED BY <2>1, <2>3, <2>4
<1>2. /\ ls \in Seq(Kinds \cup {"none"}) /\ Len(ls) = t.of /\ ls[t.of] = k
      /\ \A n \in 1..Len(ks) : ls[n] = ks[n] /\ n # t.of
      /\ \A n \in 1..Len(ls) : n \in 1..Len(ks) \/ n = t.of
      /\ \A n \in 1..Len(ks) : n \in 1..Len(ls)
      /\ t.of \in 1..Len(ls)
  BY <1>1
<1>3. /\ p \in Seq(Task) /\ Len(p) = last /\ p[last] = t
      /\ \A a \in 1..Len(q) : p[a] = q[a] /\ a < last /\ a # last
      /\ \A a \in 1..Len(p) : a \in 1..Len(q) \/ a = last
      /\ \A a \in 1..Len(q) : a \in 1..Len(p)
      /\ last \in 1..Len(p) /\ last \in Nat
  BY <1>1
<1> HIDE DEF ls, p, last
<1>4. \A a \in 1..Len(q) : Ahead(ls, p[a]) <=> Ahead(ks, q[a])
  BY <1>1, <1>2, <1>3 DEF Ahead
<1>5. Ahead(ls, t) <=> k # "none" /\ Home(k) # 1
  BY <1>2, HomeType DEF Ahead, Handlers
<1>6. WellFormed(p, ls, ps)
  BY <1>1, <1>2, <1>3 DEF WellFormed
<1>7. OneChainEach(p)
  BY <1>1, <1>3 DEF Chains, OneChainEach
<1>8. AheadIsNotOut(p, ls, ps)
  BY <1>1, <1>3, <1>4, <1>5 DEF Chains, AheadIsNotOut
<1>9. OutOrAhead(p, ls, ps)
  <2>1. ASSUME NEW n \in 1..Len(ks), ls[n] # "none", n \notin ps
        PROVE  \E a \in 1..Len(p) : p[a].of = n /\ Ahead(ls, p[a])
    <3>1. PICK a \in 1..Len(q) : q[a].of = n /\ Ahead(ks, q[a])
      BY <1>2, <2>1 DEF Chains, OutOrAhead
    <3> QED BY <1>3, <1>4, <3>1
  <2>2. k # "none" /\ t.of \notin ps => Ahead(ls, p[last]) /\ p[last].of = t.of
    BY <1>3, <1>5
  <2> QED BY <1>2, <1>3, <2>1, <2>2 DEF OutOrAhead
<1>10. FirstStaysFirst(p, ls)
  <2> SUFFICES ASSUME NEW a \in 1..Len(p), NEW b \in 1..Len(p), Ahead(ls, p[a]), Ahead(ls, p[b]),
                      ls[p[a].of] = ls[p[b].of], p[a].of < p[b].of
               PROVE  InOrder(p, a, b)
    BY DEF FirstStaysFirst
  <2>1. CASE a \in 1..Len(q) /\ b \in 1..Len(q)
    <3>1. Ahead(ks, q[a]) /\ Ahead(ks, q[b]) /\ ks[q[a].of] = ks[q[b].of] /\ q[a].of < q[b].of
      BY <1>1, <1>2, <1>3, <1>4, <2>1
    <3>2. InOrder(q, a, b)
      BY <2>1, <3>1 DEF Chains, FirstStaysFirst
    <3> QED BY <1>3, <2>1, <3>2 DEF InOrder
  <2>2. CASE a \in 1..Len(q) /\ b = last
    <3>1. p[a] = q[a] /\ p[b] = t /\ a < b /\ q[a].handler \in Handlers
      BY <1>1, <1>3, <2>2
    <3>2. q[a].handler >= 1
      BY <3>1 DEF Handlers
    <3> QED BY <3>1, <3>2 DEF InOrder
  <2>3. CASE a = last /\ b \in 1..Len(q)
    BY <1>1, <1>3, <2>3
  <2>4. CASE a = last /\ b = last
    BY <1>1, <1>3, <2>4
  <2> QED BY <1>3, <2>1, <2>2, <2>3, <2>4
<1>11. Chains(p, ls, ps)
  BY <1>6, <1>7, <1>8, <1>9, <1>10 DEF Chains
<1> QED BY <1>11 DEF p, ls

\* A chain that is run goes last.  If it is still ahead it has called one handler more;
\* if it no longer is, its message is an event.
LEMMA RunChain ==
    ASSUME NEW q, NEW ks, NEW os, Chains(q, ks, os), q # <<>>,
           NEW t \in Task, t.of = q[1].of,
           Ahead(ks, t) => /\ Ahead(ks, q[1])
                           /\ t.at = "listener" /\ t.handler = q[1].handler + 1,
           NEW ps, ps = os \/ ps = os \cup {t.of},
           Ahead(ks, t) => ps = os,
           Ahead(ks, q[1]) /\ ~Ahead(ks, t) => t.of \in ps
    PROVE  Chains(Append(Tail(q), t), ks, ps)
<1> DEFINE p == Append(Tail(q), t)
           last == Len(q)
<1>1. /\ ks \in Seq(Kinds \cup {"none"}) /\ q \in Seq(Task) /\ Len(ks) \in Nat
      /\ \A a \in 1..Len(q) : q[a].of \in 1..Len(ks)
      /\ os \subseteq 1..Len(ks)
  BY DEF Chains, WellFormed
<1>2. /\ last \in Nat /\ last >= 1 /\ 1 \in 1..last
      /\ \A a \in 1..last : q[a] \in Task /\ q[a].handler \in Nat
  <2>1. last \in Nat /\ last >= 1 /\ \A a \in 1..last : q[a] \in Task
    BY <1>1
  <2> QED BY <2>1 DEF Task, Handlers
<1>3. /\ p \in Seq(Task) /\ Len(p) = last /\ p[last] = t
      /\ \A a \in 1..(last - 1) : p[a] = q[a + 1] /\ a + 1 \in 1..last /\ a + 1 # 1 /\ a < last
      /\ \A a \in 1..last : a \in 1..(last - 1) \/ a = last
      /\ \A a \in 1..last : a = 1 \/ (a - 1 \in 1..(last - 1) /\ p[a - 1] = q[a])
      /\ \A a \in 1..(last - 1) : a \in 1..last
      /\ last \in 1..last
  <2>1. /\ Tail(q) \in Seq(Task) /\ Len(Tail(q)) = last - 1
        /\ \A a \in 1..(last - 1) : Tail(q)[a] = q[a + 1]
    BY <1>1, HeadTailProperties
  <2>2. /\ p \in Seq(Task) /\ Len(p) = last /\ p[last] = t
        /\ \A a \in 1..(last - 1) : p[a] = Tail(q)[a]
    BY <1>2, <2>1, AppendProperties
  <2> HIDE DEF p, last
  <2>3. /\ \A a \in 1..(last - 1) : a + 1 \in 1..last /\ a + 1 # 1 /\ a < last /\ a \in 1..last
        /\ \A a \in 1..last : a \in 1..(last - 1) \/ a = last
        /\ \A a \in 1..last : a = 1 \/ (a - 1 \in 1..(last - 1) /\ (a - 1) + 1 = a)
        /\ last \in 1..last
    BY <1>2
  <2>4. \A a \in 1..(last - 1) : p[a] = q[a + 1]
    BY <2>1, <2>2
  <2>5. \A a \in 1..last : a = 1 \/ (a - 1 \in 1..(last - 1) /\ p[a - 1] = q[a])
    BY <2>3, <2>4
  <2> QED BY <2>2, <2>3, <2>4, <2>5
<1> HIDE DEF p, last
<1>4. \A a \in 1..last : q[a].of = t.of => a = 1
  BY <1>2 DEF Chains, OneChainEach, last
<1>5. \A a \in 1..(last - 1) : p[a].of # t.of
  BY <1>3, <1>4
<1>6. WellFormed(p, ks, ps)
  <2>1. t.of \in 1..Len(ks)
    BY <1>1, <1>2 DEF last
  <2>2. \A a \in 1..(last - 1) : p[a].of \in 1..Len(ks)
    BY <1>1, <1>3 DEF last
  <2> QED BY <1>1, <1>3, <2>1, <2>2 DEF WellFormed
<1>7. OneChainEach(p)
  <2>1. \A a, b \in 1..(last - 1) : p[a].of = p[b].of => a = b
    BY <1>2, <1>3 DEF Chains, OneChainEach, last
  <2> QED BY <1>3, <1>5, <2>1 DEF OneChainEach
<1>8. AheadIsNotOut(p, ks, ps)
  <2>1. \A a \in 1..(last - 1) :
           Ahead(ks, p[a]) => p[a].at = "listener" /\ p[a].of \notin os /\ p[a].of # t.of
    <3>1. \A a \in 1..last : Ahead(ks, q[a]) => q[a].at = "listener" /\ q[a].of \notin os
      BY DEF Chains, AheadIsNotOut, last
    <3> QED BY <1>3, <1>5, <3>1
  <2>2. Ahead(ks, t) => t.at = "listener" /\ t.of \notin ps
    BY <1>2 DEF Chains, AheadIsNotOut, last
  <2> QED BY <1>3, <2>1, <2>2 DEF AheadIsNotOut
<1>9. OutOrAhead(p, ks, ps)
  <2> SUFFICES ASSUME NEW n \in 1..Len(ks), ks[n] # "none", n \notin ps
               PROVE  \E a \in 1..Len(p) : p[a].of = n /\ Ahead(ks, p[a])
    BY DEF OutOrAhead
  <2>1. PICK a \in 1..last : q[a].of = n /\ Ahead(ks, q[a])
    BY DEF Chains, OutOrAhead, last
  <2>2. CASE a = 1
    BY <1>3, <2>1, <2>2
  <2>3. CASE a # 1
    BY <1>3, <2>1, <2>3
  <2> QED BY <2>2, <2>3
<1>10. FirstStaysFirst(p, ks)
  <2> SUFFICES ASSUME NEW a \in 1..last, NEW b \in 1..last, Ahead(ks, p[a]), Ahead(ks, p[b]),
                      ks[p[a].of] = ks[p[b].of], p[a].of < p[b].of
               PROVE  InOrder(p, a, b)
    BY <1>3 DEF FirstStaysFirst
  <2>1. \A c, d \in 1..last :
           (/\ Ahead(ks, q[c]) /\ Ahead(ks, q[d])
            /\ ks[q[c].of] = ks[q[d].of] /\ q[c].of < q[d].of)
           => InOrder(q, c, d)
    BY DEF Chains, FirstStaysFirst, last
  <2>2. CASE a \in 1..(last - 1) /\ b \in 1..(last - 1)
    <3>1. p[a] = q[a + 1] /\ p[b] = q[b + 1] /\ a + 1 \in 1..last /\ b + 1 \in 1..last
      BY <1>3, <2>2
    <3>2. InOrder(q, a + 1, b + 1)
      BY <2>1, <3>1
    <3>3. a < b <=> a + 1 < b + 1
      BY <1>2
    <3> QED BY <3>1, <3>2, <3>3 DEF InOrder
  <2>3. CASE a \in 1..(last - 1) /\ b = last
    <3>1. p[a] = q[a + 1] /\ p[b] = t /\ a + 1 \in 1..last /\ a < b
      BY <1>3, <2>3
    <3>2. InOrder(q, a + 1, 1) /\ t.handler = q[1].handler + 1
      BY <1>2, <2>1, <3>1
    <3>3. q[a + 1].handler > q[1].handler
      BY <3>1, <3>2 DEF InOrder
    <3>4. q[a + 1].handler >= t.handler
      BY <1>2, <3>1, <3>2, <3>3
    <3> QED BY <3>1, <3>4 DEF InOrder
  <2>4. CASE a = last /\ b \in 1..(last - 1)
    <3>1. p[b] = q[b + 1] /\ p[a] = t /\ b + 1 \in 1..last /\ ~(a < b) /\ 1 < b + 1
      BY <1>2, <1>3, <2>4
    <3>2. InOrder(q, 1, b + 1) /\ t.handler = q[1].handler + 1
      BY <1>2, <2>1, <3>1
    <3>3. q[1].handler >= q[b + 1].handler
      BY <3>1, <3>2 DEF InOrder
    <3>4. t.handler > q[b + 1].handler
      BY <1>2, <3>1, <3>2, <3>3
    <3> QED BY <3>1, <3>4 DEF InOrder
  <2>5. CASE a = last /\ b = last
    BY <1>3, <2>5 DEF Task
  <2> QED BY <1>3, <2>2, <2>3, <2>4, <2>5
<1>11. Chains(p, ks, ps)
  BY <1>6, <1>7, <1>8, <1>9, <1>10 DEF Chains
<1> QED BY <1>11 DEF p

\* A chain that ends was not ahead.
LEMMA EndChain ==
    ASSUME NEW q, NEW ks, NEW os, Chains(q, ks, os), q # <<>>, ~Ahead(ks, q[1])
    PROVE  Chains(Tail(q), ks, os)
<1> DEFINE p == Tail(q)
           last == Len(q)
<1>1. ks \in Seq(Kinds \cup {"none"}) /\ q \in Seq(Task) /\ os \subseteq 1..Len(ks)
  BY DEF Chains, WellFormed
<1>2. /\ p \in Seq(Task) /\ Len(p) = last - 1 /\ last \in Nat /\ last >= 1
      /\ \A a \in 1..Len(p) : p[a] = q[a + 1] /\ a + 1 \in 1..last
      /\ \A a \in 1..last : a = 1 \/ (a - 1 \in 1..Len(p) /\ p[a - 1] = q[a])
  <2>1. /\ p \in Seq(Task) /\ Len(p) = last - 1 /\ last \in Nat /\ last >= 1
        /\ \A a \in 1..Len(p) : p[a] = q[a + 1]
    BY <1>1, HeadTailProperties
  <2> QED BY <2>1
<1> HIDE DEF p, last
<1>3. WellFormed(p, ks, os)
  BY <1>1, <1>2 DEF Chains, WellFormed, last
<1>4. OneChainEach(p)
  BY <1>2 DEF Chains, OneChainEach, last
<1>5. AheadIsNotOut(p, ks, os)
  BY <1>2 DEF Chains, AheadIsNotOut, last
<1>6. OutOrAhead(p, ks, os)
  <2> SUFFICES ASSUME NEW n \in 1..Len(ks), ks[n] # "none", n \notin os
               PROVE  \E a \in 1..Len(p) : p[a].of = n /\ Ahead(ks, p[a])
    BY DEF OutOrAhead
  <2>1. PICK a \in 1..last : q[a].of = n /\ Ahead(ks, q[a])
    BY DEF Chains, OutOrAhead, last
  <2> QED BY <1>2, <2>1
<1>7. FirstStaysFirst(p, ks)
  <2> SUFFICES ASSUME NEW a \in 1..Len(p), NEW b \in 1..Len(p), Ahead(ks, p[a]), Ahead(ks, p[b]),
                      ks[p[a].of] = ks[p[b].of], p[a].of < p[b].of
               PROVE  InOrder(p, a, b)
    BY DEF FirstStaysFirst
  <2>1. InOrder(q, a + 1, b + 1)
    BY <1>2 DEF Chains, FirstStaysFirst, last
  <2>2. a < b <=> a + 1 < b + 1
    BY <1>2
  <2> QED BY <1>2, <2>1, <2>2 DEF InOrder
<1>8. Chains(p, ks, os)
  BY <1>3, <1>4, <1>5, <1>6, <1>7 DEF Chains
<1> QED BY <1>8 DEF p

\* Nothing waits for the handler that is called first.
LEMMA NoneWaitsForFirst ==
    ASSUME NEW q, NEW ks, NEW os, Chains(q, ks, os), NEW k \in Kinds, Home(k) = 1,
           NEW n \in 1..Len(ks), ks[n] = k
    PROVE  n \in os
<1> SUFFICES ASSUME n \notin os PROVE FALSE
  OBVIOUS
<1>1. k # "none"
  BY DEF Kinds
<1>2. PICK a \in 1..Len(q) : q[a].of = n /\ Ahead(ks, q[a])
  BY <1>1 DEF Chains, OutOrAhead
<1>3. q[a] \in Task /\ q[a].handler < 1
  BY <1>2 DEF Ahead, Chains, WellFormed
<1> QED BY <1>3 DEF Task, Handlers

\* A chain that calls the handler of its message is that of the first one that waits.
LEMMA FirstIsNext ==
    ASSUME NEW q, NEW ks, NEW os, Chains(q, ks, os), q # <<>>,
           Ahead(ks, q[1]), q[1].handler + 1 = Home(ks[q[1].of]),
           NEW n \in 1..Len(ks), ks[n] = ks[q[1].of], n \notin os
    PROVE  q[1].of <= n
<1>1. q \in Seq(Task) /\ Len(q) \in Nat /\ 1 \in 1..Len(q) /\ q[1] \in Task
  BY DEF Chains, WellFormed
<1>2. PICK a \in 1..Len(q) : q[a].of = n /\ Ahead(ks, q[a])
  BY DEF Chains, OutOrAhead, Ahead
<1>3. q[a] \in Task /\ q[a].handler \in Nat /\ q[1].handler \in Nat /\ q[1].of \in Nat
      /\ Home(ks[q[1].of]) \in Nat
  <2>1. q[a] \in Task
    BY <1>1
  <2>2. q[a].handler \in Nat /\ q[1].handler \in Nat /\ q[1].of \in Nat
    BY <1>1, <2>1 DEF Task, Handlers
  <2> QED BY <2>1, <2>2
<1>4. SUFFICES ASSUME n < q[1].of PROVE FALSE
  BY <1>3
<1>5. InOrder(q, a, 1)
  BY <1>1, <1>2, <1>4 DEF Chains, FirstStaysFirst
<1>6. ~(a < 1) /\ q[a].handler > q[1].handler
  BY <1>5 DEF InOrder
<1>7. q[a].handler < Home(ks[q[1].of])
  BY <1>2 DEF Ahead
<1> QED BY <1>3, <1>6, <1>7

-----------------------------------------------------------------------------
(* The refinement *)

OutSet == {emitted[i].of : i \in 1..Len(emitted)}

ChainsInv == Chains(queue, Arrived, OutSet)

Inv == TypeInv /\ EventsFaithful /\ ChainsInv

BusType ==
    /\ Arrived \in Seq(Kinds \cup {"none"}) /\ Len(Arrived) = Len(delivered)
    /\ \A n \in 1..Len(delivered) : Arrived[n] = ValidAs(sent[delivered[n]])
    /\ Out \in Seq(Nat) /\ Len(Out) = Len(emitted)
    /\ \A i \in 1..Len(emitted) : Out[i] = emitted[i].of
    /\ \A n : n \in OutSet <=> \E i \in 1..Len(Out) : Out[i] = n

LEMMA ArrivedType == TypeInv => BusType
<1> SUFFICES ASSUME TypeInv PROVE BusType
  OBVIOUS
<1>1. \A n \in 1..Len(delivered) : ValidAs(sent[delivered[n]]) \in Kinds \cup {"none"}
  BY ValidType
<1>2. Len(delivered) \in Nat /\ Len(emitted) \in Nat
  BY DEF TypeInv, TypeOK
<1>3. ASSUME NEW i \in 1..Len(emitted) PROVE emitted[i].of \in Nat
  <2>1. emitted[i] \in Event
    BY DEF TypeInv, TypeOK
  <2> QED BY <2>1 DEF Event
<1>4. /\ Arrived \in Seq(Kinds \cup {"none"}) /\ Len(Arrived) = Len(delivered)
      /\ \A n \in 1..Len(delivered) : Arrived[n] = ValidAs(sent[delivered[n]])
  BY <1>1, <1>2 DEF Arrived
<1>5. /\ Out \in Seq(Nat) /\ Len(Out) = Len(emitted)
      /\ \A i \in 1..Len(emitted) : Out[i] = emitted[i].of
  BY <1>2, <1>3 DEF Out
<1>6. \A n : n \in OutSet <=> \E i \in 1..Len(Out) : Out[i] = n
  BY <1>5 DEF OutSet
<1> QED BY <1>4, <1>5, <1>6 DEF BusType

LEMMA ArrivedNext == TypeInv' => BusType'
  BY ArrivedType, PTL

LEMMA NoneOut ==
    ASSUME emitted' = emitted
    PROVE  Out' = Out /\ OutSet' = OutSet
  BY DEF Out, OutSet

LEMMA OneOut ==
    ASSUME TypeInv, TypeInv', NEW e, emitted' = Append(emitted, e)
    PROVE  Out' = Append(Out, e.of) /\ OutSet' = OutSet \cup {e.of}
<1>1. emitted \in Seq(Event) /\ Len(emitted) \in Nat /\ emitted' \in Seq(Event)
  BY DEF TypeInv, TypeOK
<1>2. /\ Len(emitted') = Len(emitted) + 1 /\ emitted'[Len(emitted) + 1] = e
      /\ \A i \in 1..Len(emitted) : emitted'[i] = emitted[i]
      /\ \A i \in 1..Len(emitted') : i \in 1..Len(emitted) \/ i = Len(emitted) + 1
      /\ \A i \in 1..Len(emitted) : i \in 1..Len(emitted')
      /\ Len(emitted) + 1 \in 1..Len(emitted')
  BY <1>1
<1>3. e \in Event /\ e.of \in Nat
  <2>1. e \in Event
    BY <1>1, <1>2
  <2> QED BY <2>1 DEF Event
<1>4. /\ Out' \in Seq(Nat) /\ Len(Out') = Len(emitted')
      /\ \A i \in 1..Len(emitted') : Out'[i] = emitted'[i].of
  BY ArrivedNext DEF BusType
<1>5. /\ Append(Out, e.of) \in Seq(Nat) /\ Len(Append(Out, e.of)) = Len(emitted')
      /\ \A i \in 1..Len(emitted) : Append(Out, e.of)[i] = emitted[i].of
      /\ Append(Out, e.of)[Len(emitted) + 1] = e.of
  BY <1>2, <1>3, ArrivedType DEF BusType
<1>6. Out' = Append(Out, e.of)
  <2>1. PICK s, t : s = Out' /\ t = Append(Out, e.of)
    OBVIOUS
  <2>2. \A i \in 1..Len(s) : s[i] = t[i]
    <3>1. /\ \A i \in 1..Len(emitted) : s[i] = emitted[i].of /\ t[i] = emitted[i].of
          /\ s[Len(emitted) + 1] = e.of /\ t[Len(emitted) + 1] = e.of
      BY <1>2, <1>4, <1>5, <2>1
    <3>2. \A i \in 1..Len(s) : i \in 1..Len(emitted) \/ i = Len(emitted) + 1
      BY <1>2, <1>4, <2>1
    <3> QED BY <3>1, <3>2
  <2>3. s \in Seq(Nat) /\ t \in Seq(Nat) /\ Len(s) = Len(t)
    BY <1>4, <1>5, <2>1
  <2> QED BY <2>1, <2>2, <2>3, SeqEqual
<1>7. OutSet' = OutSet \cup {e.of}
  BY <1>2 DEF OutSet
<1> QED BY <1>6, <1>7

\* What the bus may do in one step
BusStep == Bus!Next \/ UNCHANGED <<Arrived, Out>>

LEMMA KeptStep ==
    ASSUME Inv, [Next]_vars, UNCHANGED <<delivered, queue, emitted>>
    PROVE  ChainsInv' /\ BusStep
<1>1. Out' = Out /\ OutSet' = OutSet
  BY NoneOut
<1>2. Arrived' = Arrived
  BY ReceivedKept DEF Inv, Arrived
<1> QED BY <1>1, <1>2 DEF Inv, ChainsInv, BusStep

\* A new message is emitted at once if the first handler is its own.
LEMMA DeliverOut ==
    ASSUME TypeInv, NEW m \in Messages, Deliver(m),
           NEW n \in Nat \ {0}, n = Len(delivered) + 1, NEW c \in Content, c = sent[m]
    PROVE  /\ IF ValidAs(c) # "none" /\ Home(ValidAs(c)) = 1
              THEN emitted' = Append(emitted,
                                [of |-> n, kind |-> ValidAs(c), place |-> Place(c.topic)])
              ELSE emitted' = emitted
           /\ \/ ValidAs(c) = "none" /\ queue' = queue
              \/ Chained(queue, n, 1, c)
<1>1. 1 \in Handlers /\ queue \in Seq(Task) /\ TypeOK
  BY DEF Handlers, TypeInv, TypeOK
<1>2. CASE ~c.json
  BY <1>2, DeliverEffect, ValidType
<1>3. CASE c.json
  <2>1. Call(queue, n, 1, c)
    BY <1>3, DeliverEffect
  <2> QED BY <1>1, <1>3, <2>1, CallEffect
<1> QED BY <1>2, <1>3

LEMMA DeliverStep ==
    ASSUME Inv, NEW m \in Messages, Deliver(m)
    PROVE  ChainsInv' /\ BusStep
<1>1. TypeInv /\ TypeInv' /\ Chains(queue, Arrived, OutSet) /\ TypeOK
  BY TypeStep DEF Inv, ChainsInv, TypeInv, Next
<1>0. PICK n \in Nat \ {0}, c \in Content : n = Len(delivered) + 1 /\ c = sent[m]
  BY <1>1, DeliverEffect DEF TypeOK
<1>2. PICK k : n = Len(delivered) + 1 /\ c = sent[m] /\ k = ValidAs(c)
  BY <1>0
<1>3. k \in Kinds \cup {"none"}
  BY <1>2, ValidType
<1>4. Arrived' = Append(Arrived, k)
  <2>1. /\ Arrived' \in Seq(Kinds \cup {"none"}) /\ Len(Arrived') = Len(delivered')
        /\ \A i \in 1..Len(delivered') : Arrived'[i] = ValidAs(sent'[delivered'[i]])
    BY <1>1, ArrivedNext DEF BusType
  <2>2. PICK s, t : s = Arrived' /\ t = Append(Arrived, k)
    OBVIOUS
  <2>3. /\ t \in Seq(Kinds \cup {"none"}) /\ Len(t) = n /\ t[n] = k
        /\ \A i \in 1..Len(delivered) : t[i] = ValidAs(sent[delivered[i]])
    BY <1>1, <1>2, <1>3, <2>2, ArrivedType DEF BusType
  <2>4. /\ Len(s) = n /\ s[n] = k
        /\ \A i \in 1..Len(delivered) : s[i] = ValidAs(sent[delivered[i]])
    <3>1. /\ Len(delivered') = n /\ delivered'[n] = m /\ sent' = sent
          /\ \A i \in 1..Len(delivered) : delivered'[i] = delivered[i]
          /\ Len(delivered) \in Nat
      BY <1>1, <1>2, DeliverEffect DEF TypeOK
    <3>2. n \in 1..n /\ \A i \in 1..Len(delivered) : i \in 1..n
      BY <1>2, <3>1
    <3> QED BY <1>2, <2>1, <2>2, <3>1, <3>2
  <2>5. \A i \in 1..n : i \in 1..Len(delivered) \/ i = n
    BY <1>2, <1>1 DEF TypeOK
  <2>6. s = t
    BY <2>1, <2>2, <2>3, <2>4, <2>5, SeqEqual
  <2> QED BY <2>2, <2>6
<1>5. Len(Arrived) + 1 = n /\ Len(Arrived') = n
  BY <1>1, <1>2, ArrivedType, ArrivedNext, DeliverEffect DEF BusType
<1>6. ASSUME k # "none", Home(k) = 1, k \in Kinds
      PROVE  /\ Out' = Append(Out, n) /\ OutSet' = OutSet \cup {n}
             /\ Bus!ArriveAndEmit(k)
  <2>1. PICK e : e = [of |-> n, kind |-> k, place |-> Place(c.topic)]
    OBVIOUS
  <2>2. e.of = n /\ emitted' = Append(emitted, e)
    BY <1>1, <1>2, <1>6, <2>1, DeliverEffect, DeliverOut
  <2>3. Out' = Append(Out, n) /\ OutSet' = OutSet \cup {n}
    BY <1>1, <2>2, OneOut
  <2>4. \A l \in 1..Len(Arrived) : Arrived[l] = k => l \in OutSet
    BY <1>1, <1>6, NoneWaitsForFirst
  <2>5. Bus!Waiting(k) = {}
    BY <1>1, <2>4, ArrivedType DEF Bus!Waiting, BusType
  <2> QED BY <1>4, <1>5, <2>3, <2>5 DEF Bus!ArriveAndEmit
<1>7. ASSUME ~(k # "none" /\ Home(k) = 1)
      PROVE  Out' = Out /\ OutSet' = OutSet /\ Bus!Arrive(k)
  <2>1. emitted' = emitted
    BY <1>1, <1>2, <1>7, DeliverEffect, DeliverOut
  <2> QED BY <1>4, <2>1, NoneOut DEF Bus!Arrive
<1>8. BusStep
  BY <1>3, <1>6, <1>7 DEF BusStep, Bus!Next
<1>9. CASE k = "none" /\ queue' = queue
  <2>1. Chains(queue, Append(Arrived, "none"), OutSet)
    BY <1>1, NoChain
  <2> QED BY <1>4, <1>7, <1>8, <1>9, <2>1 DEF ChainsInv
<1>10. CASE Chained(queue, n, 1, c)
  <2>1. PICK t \in Task :
            /\ queue' = Append(queue, t) /\ t.of = n /\ t.handler = 1
            /\ k # "none" /\ Home(k) # 1 => t.at = "listener"
    BY <1>2, <1>10 DEF Chained
  <2>2. PICK q, ks, os, ps : q = queue /\ ks = Arrived /\ os = OutSet /\ ps = OutSet'
    OBVIOUS
  <2>3. ps = IF k # "none" /\ Home(k) = 1 THEN os \cup {t.of} ELSE os
    <3>1. CASE k # "none" /\ Home(k) = 1
      BY <1>3, <1>6, <2>1, <2>2, <3>1
    <3>2. CASE ~(k # "none" /\ Home(k) = 1)
      BY <1>7, <2>2, <3>2
    <3> QED BY <3>1, <3>2
  <2>4. Chains(Append(q, t), Append(ks, k), ps)
    <3>1. Chains(q, ks, os) /\ t.of = Len(ks) + 1
      BY <1>1, <1>5, <2>1, <2>2
    <3> QED BY <1>3, <2>1, <2>3, <3>1, NewChain
  <2> QED BY <1>4, <1>8, <2>1, <2>2, <2>4 DEF ChainsInv
<1>11. \/ k = "none" /\ queue' = queue
       \/ Chained(queue, n, 1, c)
  BY <1>1, <1>2, DeliverEffect, DeliverOut
<1> QED BY <1>8, <1>9, <1>10, <1>11

LEMMA RunStep ==
    ASSUME Inv, RunTask
    PROVE  ChainsInv' /\ BusStep
<1>1. TypeInv /\ TypeInv' /\ Chains(queue, Arrived, OutSet) /\ TypeOK
  BY TypeStep DEF Inv, ChainsInv, TypeInv, Next
<1>2. Arrived' = Arrived
  BY RunEffect DEF Arrived, Inv
<1>3. PICK q, ks, os, n, h, c, k :
          /\ q = queue /\ ks = Arrived /\ os = OutSet
          /\ n = queue[1].of /\ h = queue[1].handler
          /\ c = sent[delivered[n]] /\ k = ValidAs(c)
  OBVIOUS
<1>4. /\ Chains(q, ks, os) /\ q # <<>> /\ q \in Seq(Task) /\ q[1] \in Task
      /\ q[1].of = n /\ q[1].handler = h
      /\ n \in 1..Len(delivered) /\ n \in Nat \ {0} /\ h \in Handlers
      /\ c \in Content /\ c.json
      /\ Tail(q) \in Seq(Task) /\ queue[1] = Head(queue)
  <2>1. queue[1].of \in Nat \ {0} /\ queue[1].handler \in Handlers
    BY <1>1, RunEffect DEF Task
  <2> QED BY <1>1, <1>3, <2>1, RunEffect DEF TypeOK
<1>5. ks[n] = k /\ k \in Kinds \cup {"none"} /\ (k # "none" => Home(k) \in Handlers)
  BY <1>1, <1>3, <1>4, ArrivedType, ValidType, HomeType DEF BusType
<1>6. Ahead(ks, q[1]) <=> k # "none" /\ h < Home(k)
  BY <1>4, <1>5 DEF Ahead
<1>7. CASE HandlerDone(Head(queue))
  <2>1. PICK t : t = [q[1] EXCEPT !.at = "listener"]
    OBVIOUS
  <2>2. t \in Task /\ t.of = n /\ t.handler = h
    BY <1>4, <2>1 DEF Task
  <2>3. queue' = Append(Tail(q), t) /\ emitted' = emitted /\ q[1].at = "handler"
    BY <1>3, <1>4, <1>7, <2>1 DEF HandlerDone, Enqueue
  <2>4. ~Ahead(ks, q[1])
    <3>1. Ahead(ks, q[1]) => q[1].at = "listener"
      BY <1>4 DEF Chains, AheadIsNotOut
    <3> QED BY <2>3, <3>1
  <2>5. ~Ahead(ks, t)
    BY <1>4, <2>2, <2>4 DEF Ahead
  <2>6. Chains(Append(Tail(q), t), ks, os)
    BY <1>4, <2>2, <2>4, <2>5, RunChain
  <2>7. Out' = Out /\ OutSet' = OutSet
    BY <2>3, NoneOut
  <2> QED BY <1>2, <1>3, <2>3, <2>6, <2>7 DEF ChainsInv, BusStep
<1>8. CASE NextHandler(Head(queue))
  <2>1. h < 4 /\ h + 1 \in Handlers
    BY <1>3, <1>4, <1>8 DEF NextHandler, Another, Handlers
  <2>2. PICK g \in Handlers : g = h + 1
    BY <2>1
  <2>3. Call(Tail(q), n, g, c)
    BY <1>3, <1>4, <1>8, <2>2 DEF NextHandler
  <2>4. /\ Chained(Tail(q), n, g, c)
        /\ IF k # "none" /\ g = Home(k)
           THEN emitted' = Append(emitted, [of |-> n, kind |-> k, place |-> Place(c.topic)])
           ELSE emitted' = emitted
    <3>1. PICK tasks \in Seq(Task) : tasks = Tail(q)
      BY <1>4
    <3>2. /\ Chained(tasks, n, g, c)
          /\ IF ValidAs(c) # "none" /\ g = Home(ValidAs(c))
             THEN emitted' = Append(emitted, [of |-> n, kind |-> ValidAs(c), place |-> Place(c.topic)])
             ELSE emitted' = emitted
      <4>1. Call(tasks, n, g, c)
        BY <2>3, <3>1
      <4> QED BY <1>1, <1>4, <2>2, <4>1, CallEffect
    <3> QED BY <1>3, <3>1, <3>2
  <2>5. PICK t \in Task :
            /\ queue' = Append(Tail(q), t) /\ t.of = n /\ t.handler = g
            /\ k # "none" /\ g # Home(k) => t.at = "listener"
    BY <1>3, <2>4 DEF Chained
  <2>6. Ahead(ks, t) <=> k # "none" /\ g < Home(k)
    BY <1>5, <2>5 DEF Ahead
  <2>7. CASE k # "none" /\ g = Home(k)
    <3>1. Ahead(ks, q[1]) /\ ~Ahead(ks, t)
      BY <1>4, <1>5, <1>6, <2>2, <2>6, <2>7 DEF Handlers
    <3>2. PICK e : e = [of |-> n, kind |-> k, place |-> Place(c.topic)]
      OBVIOUS
    <3>3. Out' = Append(Out, n) /\ OutSet' = OutSet \cup {n}
      <4>1. emitted' = Append(emitted, e) /\ e.of = n
        BY <2>4, <2>7, <3>2
      <4> QED BY <1>1, <4>1, OneOut
    <3>4. PICK ps : ps = os \cup {t.of}
      OBVIOUS
    <3>5. Chains(Append(Tail(q), t), ks, ps)
      BY <1>4, <2>5, <3>1, <3>4, RunChain
    <3>6. \A l \in 1..Len(ks) : ks[l] = k /\ l \notin os => n <= l
      <4>1. q[1].handler + 1 = Home(ks[q[1].of])
        BY <1>4, <1>5, <2>2, <2>7
      <4> QED BY <1>4, <1>5, <3>1, <4>1, FirstIsNext
    <3>7. n \notin os /\ n \in 1..Len(ks)
      <4>1. n \notin os
        BY <1>4, <3>1 DEF Chains, AheadIsNotOut
      <4>2. Len(ks) = Len(delivered)
        BY <1>1, <1>3, ArrivedType DEF BusType
      <4> QED BY <1>4, <4>1, <4>2
    <3>8. Bus!Emit(k)
      <4>1. \A l : l \in Bus!Waiting(k) <=> l \in 1..Len(ks) /\ ks[l] = k /\ l \notin os
        BY <1>1, <1>3, ArrivedType DEF Bus!Waiting, BusType
      <4>2. n \in Bus!Waiting(k) /\ \A l \in Bus!Waiting(k) : n <= l
        BY <1>5, <3>6, <3>7, <4>1
      <4> QED BY <1>2, <3>3, <4>2 DEF Bus!Emit
    <3>9. k \in Kinds
      BY <1>5, <2>7
    <3>10. ChainsInv'
      BY <1>2, <1>3, <2>5, <3>3, <3>4, <3>5 DEF ChainsInv
    <3> QED BY <3>8, <3>9, <3>10 DEF BusStep, Bus!Next
  <2>8. CASE ~(k # "none" /\ g = Home(k))
    <3>1. /\ Ahead(ks, t) => Ahead(ks, q[1]) /\ t.at = "listener" /\ t.handler = q[1].handler + 1
          /\ Ahead(ks, q[1]) => Ahead(ks, t)
      BY <1>4, <1>5, <1>6, <2>2, <2>5, <2>6, <2>8 DEF Handlers
    <3>2. Chains(Append(Tail(q), t), ks, os)
      BY <1>4, <2>5, <3>1, RunChain
    <3>3. Out' = Out /\ OutSet' = OutSet
      BY <2>4, <2>8, NoneOut
    <3> QED BY <1>2, <1>3, <2>5, <3>2, <3>3 DEF ChainsInv, BusStep
  <2> QED BY <2>7, <2>8
<1>9. CASE LastHandlerDone(Head(queue))
  <2>1. queue' = Tail(q) /\ emitted' = emitted /\ ~(h < 4)
    BY <1>3, <1>4, <1>9 DEF LastHandlerDone, Another
  <2>2. ~Ahead(ks, q[1])
    BY <1>4, <1>5, <1>6, <2>1 DEF Handlers
  <2>3. Chains(Tail(q), ks, os)
    BY <1>4, <2>2, EndChain
  <2>4. Out' = Out /\ OutSet' = OutSet
    BY <2>1, NoneOut
  <2> QED BY <1>2, <1>3, <2>1, <2>3, <2>4 DEF ChainsInv, BusStep
<1> QED BY <1>7, <1>8, <1>9 DEF RunTask

LEMMA InvInit == Init => Inv /\ Bus!Init
<1> SUFFICES ASSUME Init PROVE Inv /\ Bus!Init
  OBVIOUS
<1>1. TypeInv /\ EventsFaithful
  BY TypeInit DEF Init, EventsFaithful
<1>2. Arrived = <<>> /\ Out = <<>>
  BY DEF Init, Arrived, Out
<1>3. OutSet = {} /\ queue = <<>>
  BY DEF Init, OutSet
<1>4. ChainsInv
  BY <1>2, <1>3 DEF ChainsInv, Chains, WellFormed, OneChainEach, AheadIsNotOut, OutOrAhead,
                    FirstStaysFirst
<1> QED BY <1>1, <1>2, <1>4 DEF Inv, Bus!Init

LEMMA InvStep == Inv /\ [Next]_vars => Inv' /\ BusStep
<1> SUFFICES ASSUME Inv, [Next]_vars PROVE Inv' /\ BusStep
  OBVIOUS
<1>1. TypeInv' /\ EventsFaithful'
  BY TypeStep, FaithfulStep DEF Inv
<1>2. \/ UNCHANGED <<delivered, queue, emitted>> \/ RunTask \/ \E m \in Messages : Deliver(m)
  BY DEF Next, vars, Connect, Close, Disconnect, Lose, Granted, Refused, Answer, Send
<1>3. ChainsInv' /\ BusStep
  BY <1>2, KeptStep, DeliverStep, RunStep
<1> QED BY <1>1, <1>3 DEF Inv

\* Each valid message becomes one event at most, in the order of arrival within its kind,
\* for any number of messages and any interleaving of their chains
\* (mqtt.service.ts:92-117).
THEOREM KeepsThePromise == Spec => ImplementsEventBus
<1>1. BusStep => [Bus!Next]_(Bus!vars)
  BY DEF BusStep, Bus!vars
<1> QED BY <1>1, InvInit, InvStep, PTL DEF Spec, ImplementsEventBus, Bus!Spec

\* Whatever waits for its event has a chain that will come to the handler of its kind: the
\* safety half of what no message that arrived is denied (mqtt.service.ts:106-116).
THEOREM WaitingAlwaysInHand == Spec => []WaitingAreInHand
<1>1. Inv => WaitingAreInHand
  <2> SUFFICES ASSUME Inv, NEW k \in Kinds, NEW n \in Bus!Waiting(k)
               PROVE  \E i \in 1..Len(queue) :
                         /\ queue[i].of = n
                         /\ \E h \in Handlers : /\ h > queue[i].handler
                                                /\ Route(h, sent[delivered[n]].topic) = k
    BY DEF WaitingAreInHand
  <2>1. BusType
    BY ArrivedType DEF Inv
  <2>2. n \in 1..Len(Arrived) /\ Arrived[n] = k /\ n \notin OutSet
    BY <2>1 DEF Bus!Waiting, BusType
  <2>3. k # "none"
    BY DEF Kinds
  <2>4. PICK i \in 1..Len(queue) : queue[i].of = n /\ Ahead(Arrived, queue[i])
    BY <2>2, <2>3 DEF Inv, ChainsInv, Chains, OutOrAhead
  <2>5. Home(k) > queue[i].handler
    <3>1. queue[i] \in Task
      BY DEF Inv, TypeInv, TypeOK
    <3> QED BY <2>2, <2>4, <3>1, HomeType DEF Ahead, Task, Handlers
  <2>6. Is(k, sent[delivered[n]].topic)
    <3> DEFINE c == sent[delivered[n]]
               fitting == {l \in Kinds : /\ c.json /\ Is(l, c.topic)
                                          /\ Schema(l, c.topic) \in c.fits}
    <3>1. ValidAs(c) = k
      BY <2>1, <2>2 DEF BusType
    <3>2. fitting # {} /\ k = CHOOSE l \in fitting : TRUE
      BY <2>3, <3>1 DEF ValidAs
    <3>3. k \in fitting
      BY <3>2
    <3> QED BY <3>3
  <2>7. Home(k) \in Handlers /\ Route(Home(k), sent[delivered[n]].topic) = k
    BY <2>6, HomeType, RouteHome
  <2> QED BY <2>4, <2>5, <2>7
<1> QED BY <1>1, InvInit, InvStep, PTL DEF Spec

\* What the promise means for the events is what holds of EventBus.
BusProofs == INSTANCE EventBusProofs WITH None <- "none", arrived <- Arrived, out <- Out

\* No event overtakes another of its kind, none is repeated and none left out while a
\* later one is emitted, whatever the awaits of the chains let come in between
\* (mqtt.service.ts:92-117, the subscribers).
THEOREM EventsAlwaysInTurn == Spec => []EventsInTurn
<1>1. BusProofs!Spec => []BusProofs!InTurn
  BY BusProofs!BusInTurn
<1>2. Bus!Init => BusProofs!Init
  BY DEF Bus!Init, BusProofs!Init
<1>3. [Bus!Next]_(Bus!vars) => [BusProofs!Next]_(BusProofs!vars)
  BY DEF Bus!Next, BusProofs!Next, Bus!vars, BusProofs!vars, Bus!Arrive, BusProofs!Arrive,
         Bus!ArriveAndEmit, BusProofs!ArriveAndEmit, Bus!Emit, BusProofs!Emit,
         Bus!Waiting, BusProofs!Waiting
<1>4. BusProofs!InTurn => EventsInTurn
  BY DEF BusProofs!InTurn, EventsInTurn, Bus!InTurn
<1> QED
  BY <1>1, <1>2, <1>3, <1>4, KeepsThePromise, PTL
  DEF ImplementsEventBus, Bus!Spec, BusProofs!Spec

=============================================================================
