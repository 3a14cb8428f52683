---------------------------- MODULE RelayProofs ----------------------------
(***************************************************************************)
(* Safety of the relay session for every number of streams and every       *)
(* backoff.                                                                *)
(***************************************************************************)
EXTENDS RelaySession, OrderLemmas, TLAPS

LEMMA RelayInit == Init => IInv
BY StreamsAssumption, BackoffAssumption
   DEF Init, IInv, TypeOK, StreamInv, OneSession, ServedInOrder, Unrouted, In,
       Places, Streams

\* The oldest stream at a place is there, and no older one is.
LEMMA OldestStream ==
    ASSUME NEW p, In(p) # {}
    PROVE  /\ Min(In(p)) \in In(p)
           /\ \A i \in In(p) : Min(In(p)) <= i
<1>1. In(p) \subseteq Nat
      BY StreamsAssumption DEF In, Streams
<1> QED
    BY <1>1, MinIsLeast

\* The doubled backoff stays within its cap.
LEMMA DoubledBounded ==
    ASSUME TypeOK PROVE Doubled \in 0..MaxBackoff
<1> DEFINE both == {2 * backoff, MaxBackoff}
<1>1. both \subseteq Nat /\ both # {} /\ MaxBackoff \in both
      BY BackoffAssumption DEF TypeOK
<1>2. Min(both) \in both /\ Min(both) <= MaxBackoff
      BY <1>1, MinIsLeast
<1> QED
    BY <1>1, <1>2 DEF Doubled

\* A step that only moves streams forward in their life, none of them into
\* the queue or out of "unopened", keeps their order.
LEMMA MovedForward ==
    ASSUME IInv, UNCHANGED opened, place' \in [Streams -> Places],
           \A i \in Streams :
              \/ place'[i] = place[i]
              \/ place[i] \in {"hand", "slot", "forwarded"}
                    /\ place'[i] \in {"slot", "taken", "forwarded", "ended"}
              \/ place[i] \in {"sent", "queued"} /\ place'[i] = "ended"
    PROVE  StreamInv' /\ ServedInOrder'
BY DEF IInv, TypeOK, StreamInv, ServedInOrder, Streams

\* The end of a session is such a step.
LEMMA Closed ==
    ASSUME IInv, ClosePeer, UNCHANGED opened
    PROVE  /\ place' \in [Streams -> Places]
           /\ StreamInv' /\ ServedInOrder'
           /\ Unrouted' = {}
<1>1. place' \in [Streams -> Places]
      BY DEF ClosePeer, IInv, TypeOK, Places
<1>2. \A i \in Streams :
          \/ place'[i] = place[i]
          \/ place[i] \in {"sent", "queued", "hand"} /\ place'[i] = "ended"
      BY DEF ClosePeer, Unrouted, In
<1>3. Unrouted' = {}
      BY DEF ClosePeer, Unrouted, In
<1> QED
    BY <1>1, <1>2, <1>3, MovedForward

\* Every step preserves the invariant.
LEMMA RelayStep == IInv /\ [Next]_vars => IInv'
<1> SUFFICES ASSUME IInv, [Next]_vars PROVE IInv'
    OBVIOUS
<1> USE DEF IInv, TypeOK, taskVars, peerVars, relayVars, streamVars
<1>1. CASE ConnectOk \/ ConnectFails \/ AuthOk \/ RegisterOk \/ RegisterFails
           \/ AcceptFails \/ Register \/ Break \/ Weather \/ DriverDropped \/ UNCHANGED vars
      BY <1>1, BackoffAssumption
         DEF ConnectOk, ConnectFails, AuthOk, RegisterOk, RegisterFails, AcceptFails,
             Register, Break, Weather, DriverDropped, vars, StreamInv, ServedInOrder, OneSession,
             Unrouted, In
<1>2. CASE AuthFails
      BY <1>2, Closed DEF AuthFails, ClosePeer, OneSession
<1>3. CASE Wake
      BY <1>3, Closed, DoubledBounded DEF Wake, ClosePeer, OneSession
<1>4. CASE DriverAccepts
  <2> DEFINE m == Min(In("sent"))
  <2>1. m \in In("sent") /\ \A i \in In("sent") : m <= i
        BY <1>4, OldestStream DEF DriverAccepts
  <2>2. m \in Streams /\ place[m] = "sent" /\ place' = [place EXCEPT ![m] = "queued"]
        BY <1>4, <2>1 DEF DriverAccepts, Move, In
  <2>3. \A i \in Streams : place[i] = "sent" => m <= i
        BY <2>1 DEF In
  <2>4. StreamInv' /\ ServedInOrder'
        BY <1>4, <2>2, <2>3 DEF DriverAccepts, StreamInv, ServedInOrder, Streams, Places
  <2> QED
      BY <1>4, <2>2, <2>4 DEF DriverAccepts, OneSession, Places, Unrouted, In
<1>5. CASE DriverStops
  <2>1. place' \in [Streams -> Places]
        BY <1>5 DEF DriverStops, Places
  <2>2. StreamInv' /\ ServedInOrder'
        BY <1>5, <2>1, MovedForward DEF DriverStops
  <2> QED
      BY <1>5, <2>1, <2>2 DEF DriverStops, OneSession, Unrouted, In
<1>6. CASE NextStream
  <2> DEFINE m == Min(In("queued"))
  <2>1. m \in In("queued") /\ \A i \in In("queued") : m <= i
        BY <1>6, OldestStream DEF NextStream
  <2>2. m \in Streams /\ place[m] = "queued" /\ place' = [place EXCEPT ![m] = "hand"]
        BY <1>6, <2>1 DEF NextStream, OldestOf, Move, In
  <2>3. \A i \in Streams : place[i] = "queued" => m <= i
        BY <2>1 DEF In
  <2>4. StreamInv' /\ ServedInOrder'
        BY <1>6, <2>2, <2>3 DEF NextStream, StreamInv, ServedInOrder, Streams, Places
  <2> QED
      BY <1>6, <2>2, <2>4 DEF NextStream, OneSession, Places
<1>7. CASE HeaderOk
  <2>1. PICK i \in In("hand") : Move(i, "slot") \/ Move(i, "forwarded")
        BY <1>7 DEF HeaderOk
  <2>2. place' \in [Streams -> Places]
        BY <2>1 DEF Move, In, Places
  <2>3. StreamInv' /\ ServedInOrder'
        BY <1>7, <2>1, <2>2, MovedForward DEF HeaderOk, Move, In
  <2> QED
      BY <1>7, <2>2, <2>3 DEF HeaderOk, OneSession
<1>8. CASE HeaderFails
  <2>1. PICK i \in In("hand") : Move(i, "ended")
        BY <1>8 DEF HeaderFails
  <2>2. place' \in [Streams -> Places]
        BY <2>1 DEF Move, In, Places
  <2>3. StreamInv' /\ ServedInOrder'
        BY <1>8, <2>1, <2>2, MovedForward DEF HeaderFails, Move, In
  <2> QED
      BY <1>8, <2>2, <2>3 DEF HeaderFails, OneSession
<1>9. CASE TakePipe
  <2>1. PICK i \in In("slot") : Move(i, "taken")
        BY <1>9, OldestStream DEF TakePipe
  <2>2. place' \in [Streams -> Places]
        BY <2>1 DEF Move, In, Places
  <2>3. StreamInv' /\ ServedInOrder'
        BY <1>9, <2>1, <2>2, MovedForward DEF TakePipe, Move, In
  <2> QED
      BY <1>9, <2>1, <2>2, <2>3 DEF TakePipe, OneSession, Move, Unrouted, In
<1>10. CASE ForwardEnds
  <2>1. PICK i \in In("forwarded") : Move(i, "ended")
        BY <1>10 DEF ForwardEnds
  <2>2. place' \in [Streams -> Places]
        BY <2>1 DEF Move, In, Places
  <2>3. StreamInv' /\ ServedInOrder'
        BY <1>10, <2>1, <2>2, MovedForward DEF ForwardEnds, Move, In
  <2> QED
      BY <1>10, <2>1, <2>2, <2>3 DEF ForwardEnds, OneSession, Move, Unrouted, In
<1>11. CASE OpenStream
  <2>1. opened + 1 \in Streams /\ place' = [place EXCEPT ![opened + 1] = "sent"]
        BY <1>11, StreamsAssumption DEF OpenStream, Move, Streams
  <2>2. StreamInv' /\ ServedInOrder'
        BY <1>11, <2>1, StreamsAssumption
           DEF OpenStream, StreamInv, ServedInOrder, Streams, Places
  <2> QED
      BY <1>11, <2>1, <2>2, StreamsAssumption DEF OpenStream, OneSession, Places
<1>12. CASE OpenStray
  <2>1. opened + 1 \in Streams /\ place' = [place EXCEPT ![opened + 1] = "ended"]
        BY <1>12, StreamsAssumption DEF OpenStray, Move, Streams
  <2>2. StreamInv' /\ ServedInOrder'
        BY <1>12, <2>1, StreamsAssumption
           DEF OpenStray, StreamInv, ServedInOrder, Streams, Places
  <2>3. Unrouted' \subseteq Unrouted
        BY <2>1 DEF Unrouted, In
  <2> QED
      BY <1>12, <2>1, <2>2, <2>3, StreamsAssumption DEF OpenStray, OneSession, Places
<1> QED
    BY <1>1, <1>2, <1>3, <1>4, <1>5, <1>6, <1>7, <1>8, <1>9, <1>10, <1>11, <1>12
       DEF Next, Task, Driver

LEMMA RelayInvariant == Spec => []IInv
<1>1. Init => IInv
      BY RelayInit
<1>2. IInv /\ [Next]_vars => IInv'
      BY RelayStep
<1> QED
    BY <1>1, <1>2, PTL DEF Spec

\* The relay task keeps its types; in particular the backoff never exceeds
\* its cap (relay.rs: sleep_before_reconnect).
THEOREM RelayTypeCorrect == Spec => []TypeOK
<1>1. IInv => TypeOK
      BY DEF IInv
<1> QED
    BY <1>1, RelayInvariant, PTL

\* The task never dials beside a session of its own, nor serves a stream that an
\* earlier one left behind (relay.rs: run; peer.rs: Peer::connect, Drop).
THEOREM RelayOneSession == Spec => []OneSession
<1>1. IInv => OneSession
      BY DEF IInv
<1> QED
    BY <1>1, RelayInvariant, PTL

\* Streams are served in the order in which the relay opened them
\* (peer.rs: drive_connection, next_proxy).
THEOREM RelayServedInOrder == Spec => []ServedInOrder
<1>1. IInv => ServedInOrder
      BY DEF IInv
<1> QED
    BY <1>1, RelayInvariant, PTL
=============================================================================
