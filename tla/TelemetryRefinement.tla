------------------------ MODULE TelemetryRefinement ------------------------
(***************************************************************************)
(* Telemetry keeps the promise of EventBus.                                *)
(***************************************************************************)
EXTENDS Telemetry

\* What each message that arrived is, and which message each event speaks for
Arrived == [n \in 1..Len(delivered) |-> ValidAs(sent[delivered[n]])]
Out == [i \in 1..Len(emitted) |-> emitted[i].of]

Bus == INSTANCE EventBus WITH None <- "none", arrived <- Arrived, out <- Out

\* Whatever the chains of handlers do between two awaits, each valid message that
\* arrives becomes one event at most, in the order of arrival within its kind, and the
\* others none (mqtt.service.ts:92-117, the subscribers, ingestion.service.ts:42-261).
ImplementsEventBus == Bus!Spec

\* Events of one kind come in the order in which their messages arrived, one for each and
\* none left out, although the chains of the messages take turns (mqtt.service.ts:92-117).
EventsInTurn == Bus!InTurn

\* Nothing that waits for its event is forgotten: its chain is in the queue and has yet to
\* come to a handler that ingests it, whatever the handlers it has passed did
\* (mqtt.service.ts:106-116, iot.module.ts:11-23).
WaitingAreInHand ==
    \A k \in Kinds : \A n \in Bus!Waiting(k) :
       \E i \in 1..Len(queue) :
          /\ queue[i].of = n
          /\ \E h \in Handlers : h > queue[i].handler /\ Route(h, sent[delivered[n]].topic) = k

\* No valid message that arrived is left without its event: its chain reaches the
\* handler of its kind, whatever the handlers before it did (mqtt.service.ts:106-116).
EmittedInTheEnd == Bus!NothingLeftWaiting

=============================================================================
