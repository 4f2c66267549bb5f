------------------------------ MODULE EventBus ------------------------------
(***************************************************************************)
(* What the service promises of the messages it receives: each valid one   *)
(* becomes an event of its kind, once, in the order in which messages of   *)
(* that kind arrived; the others become nothing.                           *)
(***************************************************************************)
EXTENDS Naturals, Sequences

CONSTANTS
    Kinds,      \* the kinds of valid messages
    None        \* the kind of any other

VARIABLES
    arrived,    \* the kind of each message that arrived, None if it is not valid
    out         \* which of them are events, in the order of the events

vars == <<arrived, out>>

Waiting(k) ==
    {n \in 1..Len(arrived) : arrived[n] = k /\ \A i \in 1..Len(out) : out[i] # n}

Init == arrived = <<>> /\ out = <<>>

\* A message comes in; nothing has to wait.
Arrive(k) ==
    /\ arrived' = Append(arrived, k)
    /\ out' = out

ArriveAndEmit(k) ==
    /\ Waiting(k) = {}
    /\ arrived' = Append(arrived, k)
    /\ out' = Append(out, Len(arrived'))

\* The first that waits
Emit(k) ==
    /\ \E n \in Waiting(k) :
          /\ \A other \in Waiting(k) : n <= other
          /\ out' = Append(out, n)
    /\ arrived' = arrived

Next ==
    \/ \E k \in Kinds \cup {None} : Arrive(k)
    \/ \E k \in Kinds : ArriveAndEmit(k) \/ Emit(k)

Spec == Init /\ [][Next]_vars

\* Among events of one kind none overtakes another, none comes twice, and none speaks
\* for a message that arrived after one still without its event
\* (mqtt.service.ts:92-117, ingestion.service.ts:42-261).
InTurn ==
    /\ \A i, j \in 1..Len(out) :
          i < j /\ arrived[out[i]] = arrived[out[j]] => out[i] < out[j]
    /\ \A i \in 1..Len(out), n \in 1..Len(arrived) :
          n < out[i] /\ arrived[n] = arrived[out[i]] => \E j \in 1..i : out[j] = n

\* What waits comes out: however the messages come, nothing waits in the end.
NothingLeftWaiting == \A k \in Kinds : []<>(Waiting(k) = {})

=============================================================================
