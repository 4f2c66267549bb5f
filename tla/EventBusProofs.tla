--------------------------- MODULE EventBusProofs ---------------------------
(***************************************************************************)
(* What the promise of EventBus means for the events that come out.        *)
(***************************************************************************)
EXTENDS EventBus, TLAPS

\* The events os of the messages of kinds ks, in turn
Turns(ks, os) ==
    /\ ks \in Seq(Kinds \cup {None}) /\ os \in Seq(1..Len(ks))
    /\ \A i, j \in 1..Len(os) : i < j /\ ks[os[i]] = ks[os[j]] => os[i] < os[j]
    /\ \A i \in 1..Len(os), n \in 1..Len(ks) :
          n < os[i] /\ ks[n] = ks[os[i]] => \E j \in 1..i : os[j] = n

\* A message that arrives disturbs nothing that came before it.
LEMMA ArriveKeeps ==
    ASSUME NEW ks, NEW os, Turns(ks, os), NEW k \in Kinds \cup {None}
    PROVE  Turns(Append(ks, k), os)
<1> DEFINE more == Append(ks, k)
<1>1. /\ more \in Seq(Kinds \cup {None}) /\ Len(ks) \in Nat /\ Len(more) = Len(ks) + 1
      /\ \A n \in 1..Len(ks) : more[n] = ks[n]
  BY DEF Turns
<1>2. os \in Seq(1..Len(ks)) /\ Len(os) \in Nat /\ \A i \in 1..Len(os) : os[i] \in 1..Len(ks)
  BY DEF Turns
<1>3. os \in Seq(1..Len(more))
  <2>1. 1..Len(ks) \subseteq 1..Len(more)
    BY <1>1
  <2> QED BY <1>2, <2>1
<1> HIDE DEF more
<1>4. \A i, j \in 1..Len(os) : i < j /\ more[os[i]] = more[os[j]] => os[i] < os[j]
  BY <1>1, <1>2 DEF Turns
<1>5. ASSUME NEW i \in 1..Len(os), NEW n \in 1..Len(more), n < os[i], more[n] = more[os[i]]
      PROVE  \E j \in 1..i : os[j] = n
  <2>1. n \in 1..Len(ks) /\ os[i] \in 1..Len(ks)
    BY <1>1, <1>2, <1>5
  <2>2. ks[n] = ks[os[i]]
    BY <1>1, <1>5, <2>1
  <2> QED BY <1>5, <2>1, <2>2 DEF Turns
<1> QED BY <1>1, <1>3, <1>4, <1>5 DEF Turns, more

\* An event is added for n, when those of its kind that came before it are out.
LEMMA EmitKeeps ==
    ASSUME NEW ks, NEW os, Turns(ks, os), NEW n \in 1..Len(ks),
           \A i \in 1..Len(os) : os[i] # n,
           \A m \in 1..Len(ks) : m < n /\ ks[m] = ks[n] => \E i \in 1..Len(os) : os[i] = m
    PROVE  Turns(ks, Append(os, n))
<1> DEFINE more == Append(os, n)
<1>1. /\ ks \in Seq(Kinds \cup {None}) /\ Len(os) \in Nat /\ Len(ks) \in Nat
      /\ more \in Seq(1..Len(ks)) /\ Len(more) = Len(os) + 1
      /\ more[Len(more)] = n /\ \A i \in 1..Len(os) : more[i] = os[i]
  BY DEF Turns
<1>2. \A i \in 1..Len(os) : os[i] \in 1..Len(ks)
  BY DEF Turns
<1> HIDE DEF more
<1>3. ASSUME NEW i \in 1..Len(more), NEW j \in 1..Len(more), i < j, ks[more[i]] = ks[more[j]]
      PROVE  more[i] < more[j]
  <2>1. i \in 1..Len(os) /\ more[i] = os[i]
    BY <1>1, <1>3
  <2>2. CASE j \in 1..Len(os)
    BY <1>1, <1>3, <2>1, <2>2 DEF Turns
  <2>3. CASE j = Len(more)
    <3>1. ~(n < os[i])
      BY <1>1, <1>3, <2>1, <2>3 DEF Turns
    <3> QED BY <1>1, <1>2, <2>1, <2>3, <3>1
  <2> QED BY <1>1, <2>2, <2>3
<1>4. ASSUME NEW i \in 1..Len(more), NEW m \in 1..Len(ks), m < more[i], ks[m] = ks[more[i]]
      PROVE  \E j \in 1..i : more[j] = m
  <2>1. CASE i \in 1..Len(os)
    <3>1. more[i] = os[i]
      BY <1>1, <2>1
    <3>2. PICK j \in 1..i : os[j] = m
      BY <1>4, <2>1, <3>1 DEF Turns
    <3>3. j \in 1..Len(os)
      BY <1>1, <2>1, <3>2
    <3> QED BY <1>1, <3>2, <3>3
  <2>2. CASE i = Len(more)
    <3>1. PICK j \in 1..Len(os) : os[j] = m
      BY <1>1, <1>4, <2>2
    <3> QED BY <1>1, <2>2, <3>1
  <2> QED BY <1>1, <2>1, <2>2
<1> QED BY <1>1, <1>3, <1>4 DEF Turns, more

LEMMA TurnsNext == Turns(arrived, out) /\ [Next]_vars => Turns(arrived', out')
<1> SUFFICES ASSUME Turns(arrived, out), [Next]_vars PROVE Turns(arrived', out')
  OBVIOUS
<1>1. ASSUME NEW k \in Kinds \cup {None}, Arrive(k) PROVE Turns(arrived', out')
  BY <1>1, ArriveKeeps DEF Arrive
<1>2. ASSUME NEW k \in Kinds, ArriveAndEmit(k) PROVE Turns(arrived', out')
  <2>1. PICK ks : ks = Append(arrived, k)
    OBVIOUS
  <2> DEFINE n == Len(ks)
  <2>2. /\ n = Len(arrived) + 1 /\ Len(arrived) \in Nat /\ ks[n] = k
        /\ \A m \in 1..Len(arrived) : ks[m] = arrived[m]
        /\ \A i \in 1..Len(out) : out[i] \in 1..Len(arrived)
    BY <2>1 DEF Turns
  <2>3. Turns(ks, out)
    BY <2>1, ArriveKeeps
  <2>4. \A m \in 1..Len(arrived) : arrived[m] = k => \E i \in 1..Len(out) : out[i] = m
    BY <1>2 DEF ArriveAndEmit, Waiting
  <2>5. n \in 1..Len(ks) /\ \A i \in 1..Len(out) : out[i] # n
    BY <2>2
  <2>6. \A m \in 1..Len(ks) : m < n /\ ks[m] = ks[n] => \E i \in 1..Len(out) : out[i] = m
    BY <2>2, <2>4
  <2>7. Turns(ks, Append(out, n))
    BY <2>3, <2>5, <2>6, EmitKeeps
  <2> QED BY <1>2, <2>1, <2>7 DEF ArriveAndEmit
<1>3. ASSUME NEW k \in Kinds, Emit(k) PROVE Turns(arrived', out')
  <2>1. PICK n \in Waiting(k) : /\ \A other \in Waiting(k) : n <= other
                                /\ out' = Append(out, n) /\ arrived' = arrived
    BY <1>3 DEF Emit
  <2>2. n \in 1..Len(arrived) /\ arrived[n] = k /\ \A i \in 1..Len(out) : out[i] # n
    BY <2>1 DEF Waiting
  <2>3. ASSUME NEW m \in 1..Len(arrived), m < n, arrived[m] = k
        PROVE  \E i \in 1..Len(out) : out[i] = m
    <3>1. ~(n <= m)
      BY <2>2, <2>3 DEF Turns
    <3> QED BY <2>1, <2>3, <3>1 DEF Waiting
  <2> QED BY <2>1, <2>2, <2>3, EmitKeeps
<1>4. CASE UNCHANGED vars
  BY <1>4 DEF vars
<1> QED BY <1>1, <1>2, <1>3, <1>4 DEF Next

\* To become an event at once, or to wait for those of its kind that came before, is to
\* come out in turn: what EventBus allows of the listener of mqtt.service.ts:92-117 rules
\* out overtaking, repetition and gaps.
THEOREM BusInTurn == Spec => []InTurn
<1>1. Init => Turns(arrived, out)
  BY DEF Init, Turns
<1>2. Turns(arrived, out) /\ [Next]_vars => Turns(arrived, out)'
  BY TurnsNext
<1>3. Turns(arrived, out) => InTurn
  BY DEF Turns, InTurn
<1> QED BY <1>1, <1>2, <1>3, PTL DEF Spec

=============================================================================
