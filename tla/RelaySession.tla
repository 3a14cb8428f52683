---------------------------- MODULE RelaySession ----------------------------
(***************************************************************************)
(* The relay side of the agent: the task of relay.rs (crates/crossx-agent),*)
(* which connects, registers, accepts proxy streams and routes them, the   *)
(* driver of its Peer (crates/crossx-relay-rs/src/peer.rs), which owns the *)
(* socket and queues inbound streams, and the relay at the other end.      *)
(*                                                                         *)
(* Simplifications:                                                        *)
(*  - streams are numbered in the order the relay opens them; what a       *)
(*    stream's header will say is chosen when it is opened;                *)
(*  - the relay registers the agent before its answer is read, and forgets *)
(*    it when the socket is gone;                                          *)
(*  - time is not modelled: a sleep ends, backoff is what it would last    *)
(*    without jitter;                                                      *)
(*  - the receiver of the telemetry slot outlives the task, as in          *)
(*    run_forever, where both end together.                                *)
(***************************************************************************)
EXTENDS Integers, FiniteSetsExt

CONSTANTS
    MaxStreams,      \* bound on the streams the relay opens
    InitialBackoff,  \* INITIAL_BACKOFF
    MaxBackoff,      \* MAX_BACKOFF
    Kinds            \* what a stream can turn out to be: for the "telemetry"
                     \* port, for a "local" port, "bad" if its header is
                     \* not one, "silent" if it has none for ever

ASSUME StreamsAssumption == MaxStreams \in Nat
ASSUME BackoffAssumption ==
    /\ InitialBackoff \in Nat /\ MaxBackoff \in Nat
    /\ InitialBackoff <= MaxBackoff
ASSUME KindsAssumption == Kinds \subseteq {"telemetry", "local", "bad", "silent"}

VARIABLES
    \* the task of relay.rs
    pc,          \* "connect", "auth", "register", "accept", "header", "sleep"
    backoff,     \* backoff
    \* its Peer
    driver,      \* drive_connection: "none", "running" or "stopped"
    lingering,   \* an aborted driver still holds the socket of an earlier
                 \* session, "yes" or "no"
    \* the connection and the relay
    conn,        \* "none", "open" or "broken"
    registered,  \* the relay has the agent's target on this connection
    opened,      \* streams opened so far
    kind,        \* kind[i]: what stream i turns out to be
    place,       \* place[i]: where stream i is
    weather      \* "calm": connections hold and the relay accepts; or "rough"

taskVars == <<pc, backoff>>
relayVars == <<conn, registered, weather>>
streamVars == <<opened, kind, place>>
peerVars == <<driver, lingering>>
vars == <<taskVars, peerVars, relayVars, streamVars>>

Streams == 1..MaxStreams
Calm == weather = "calm"

\* A stream is not there yet, on its way through the connection, in Peer's
\* inbound queue, in next_proxy, in the telemetry slot, taken from it by the
\* exporter, being forwarded to a local port, or over.  Streams that were routed
\* may outlive their session, as dead ones.
Places == {"unopened", "sent", "queued", "hand", "slot", "taken", "forwarded", "ended"}
In(p) == {i \in Streams : place[i] = p}
Move(i, p) == place' = [place EXCEPT ![i] = p]

\* Streams that have not been routed yet.
Unrouted == In("sent") \cup In("queued") \cup In("hand")

Init ==
    /\ pc = "connect" /\ backoff = InitialBackoff
    /\ driver = "none" /\ lingering = "no" /\ conn = "none" /\ registered = "no"
    /\ opened = 0 /\ weather = "rough"
    /\ kind \in [Streams -> Kinds] /\ place = [i \in Streams |-> "unopened"]

-----------------------------------------------------------------------------
(* Peer *)

\* Mutant of ClosePeer: the peer of the last round is still there.
KeepPeer == UNCHANGED <<peerVars, conn, registered, place>>

\* Peer is dropped, or connect fails: the driver is aborted, which does not wait
\* until the runtime drops it with the socket.  It is not polled again, and the
\* queue of inbound streams is gone.
ClosePeer ==
    /\ driver' = "none" /\ conn' = "none" /\ registered' = "no"
    /\ lingering' = IF driver = "running" THEN "yes" ELSE lingering
    /\ place' = [i \in Streams |-> IF i \in Unrouted THEN "ended" ELSE place[i]]

DriverDropped ==
    /\ lingering = "yes" /\ lingering' = "no"
    /\ UNCHANGED <<taskVars, driver, relayVars, streamVars>>

\* Peer::connect up to the spawn of the driver.
ConnectOk ==
    /\ pc = "connect"
    /\ pc' = "auth" /\ driver' = "running" /\ conn' = "open"
    /\ UNCHANGED <<backoff, lingering, registered, weather, streamVars>>

ConnectFails ==
    /\ pc = "connect" /\ ~Calm
    /\ pc' = "sleep"
    /\ UNCHANGED <<backoff, peerVars, relayVars, streamVars>>

AuthOk ==
    /\ pc = "auth" /\ conn = "open" /\ driver = "running"
    /\ pc' = "register"
    /\ UNCHANGED <<backoff, peerVars, relayVars, streamVars>>

AuthFails ==
    /\ pc = "auth" /\ (conn = "broken" \/ ~Calm)
    /\ ClosePeer
    /\ pc' = "sleep"
    /\ UNCHANGED <<backoff, weather, opened, kind>>

\* The driver queues the streams in the order of their arrival.
DriverAccepts ==
    /\ driver = "running" /\ In("sent") # {}
    /\ Move(Min(In("sent")), "queued")
    /\ UNCHANGED <<taskVars, peerVars, relayVars, opened, kind>>

\* The driver queues the connection's error behind the streams and returns.
DriverStops ==
    /\ driver = "running" /\ conn = "broken"
    /\ driver' = "stopped"
    /\ place' = [i \in Streams |-> IF place[i] = "sent" THEN "ended" ELSE place[i]]
    /\ UNCHANGED <<taskVars, lingering, relayVars, opened, kind>>

-----------------------------------------------------------------------------
(* run *)

RegisterOk ==
    /\ pc = "register" /\ registered = "yes"
    /\ pc' = "accept" /\ backoff' = InitialBackoff
    /\ UNCHANGED <<peerVars, relayVars, streamVars>>

\* The peer lives on until the sleep is over.
RegisterFails ==
    /\ pc = "register" /\ (conn = "broken" \/ ~Calm)
    /\ pc' = "sleep"
    /\ UNCHANGED <<backoff, peerVars, relayVars, streamVars>>

\* Mutant of OldestOf: the newest stream is served first.
NewestOf(S) == Max(S)

OldestOf(S) == Min(S)

\* next_proxy receives a stream ...
NextStream ==
    /\ pc = "accept" /\ In("queued") # {}
    /\ Move(OldestOf(In("queued")), "hand")
    /\ pc' = "header"
    /\ UNCHANGED <<backoff, peerVars, relayVars, opened, kind>>

\* Mutant of AcceptFails: the loop over next_proxy goes on.
AcceptRetries ==
    /\ pc = "accept" /\ In("queued") = {} /\ driver = "stopped"
    /\ UNCHANGED vars

\* ... or, behind the last one, that the session is over.
AcceptFails ==
    /\ pc = "accept" /\ In("queued") = {} /\ driver = "stopped"
    /\ pc' = "sleep"
    /\ UNCHANGED <<backoff, peerVars, relayVars, streamVars>>

\* Mutant of HeaderLost: a header that is not one is read for ever.
HeaderLostOnBreak(i) == conn = "broken"

HeaderLost(i) == kind[i] = "bad" \/ conn = "broken"

\* The header arrives; route_stream puts the stream where it belongs.
HeaderOk ==
    /\ pc = "header"
    /\ \E i \in In("hand") :
        \/ kind[i] = "telemetry" /\ Move(i, "slot")
        \/ kind[i] = "local" /\ Move(i, "forwarded")
    /\ pc' = "accept"
    /\ UNCHANGED <<backoff, peerVars, relayVars, opened, kind>>

\* The header is not one, or the connection ends before it: the stream is
\* dropped and the session given up.
HeaderFails ==
    /\ pc = "header"
    /\ \E i \in In("hand") : HeaderLost(i) /\ Move(i, "ended")
    /\ pc' = "sleep"
    /\ UNCHANGED <<backoff, peerVars, relayVars, opened, kind>>

\* Mutant of Doubled: saturating_mul without the min.
DoubledUncapped == 2 * backoff

Doubled == Min({2 * backoff, MaxBackoff})

\* sleep_before_reconnect is over and the peer, if there is one, goes out of
\* scope before the next round.
Wake ==
    /\ pc = "sleep"
    /\ ClosePeer
    /\ pc' = "connect" /\ backoff' = Doubled
    /\ UNCHANGED <<weather, opened, kind>>

-----------------------------------------------------------------------------
(* The streams' users *)

\* The exporter takes the pipe that has been in the slot for longest.
TakePipe ==
    /\ In("slot") # {} /\ Move(Min(In("slot")), "taken")
    /\ UNCHANGED <<taskVars, peerVars, relayVars, opened, kind>>

\* forward_local returns: it could not dial, or either end closed the stream.
ForwardEnds ==
    /\ \E i \in In("forwarded") : Move(i, "ended")
    /\ UNCHANGED <<taskVars, peerVars, relayVars, opened, kind>>

-----------------------------------------------------------------------------
(* The relay *)

Register ==
    /\ pc = "register" /\ conn = "open" /\ registered = "no"
    /\ registered' = "yes"
    /\ UNCHANGED <<taskVars, peerVars, conn, weather, streamVars>>

\* A desktop or the collector dials the target.
OpenStream ==
    /\ registered = "yes" /\ conn = "open" /\ opened < MaxStreams
    /\ opened' = opened + 1 /\ Move(opened + 1, "sent")
    /\ UNCHANGED <<taskVars, peerVars, relayVars, kind>>

\* The relay opens a stream on a connection the agent has given up.
OpenStray ==
    /\ lingering = "yes" /\ opened < MaxStreams
    /\ opened' = opened + 1 /\ Move(opened + 1, "ended")
    /\ UNCHANGED <<taskVars, peerVars, relayVars, kind>>

\* The connection is lost, which both ends notice.
Break ==
    /\ ~Calm /\ conn = "open"
    /\ conn' = "broken" /\ registered' = "no"
    /\ UNCHANGED <<taskVars, peerVars, weather, streamVars>>

Weather ==
    /\ weather' = IF Calm THEN "rough" ELSE "calm"
    /\ UNCHANGED <<taskVars, peerVars, conn, registered, streamVars>>

-----------------------------------------------------------------------------
Task ==
    \/ ConnectOk \/ ConnectFails \/ AuthOk \/ AuthFails
    \/ RegisterOk \/ RegisterFails
    \/ NextStream \/ AcceptFails \/ HeaderOk \/ HeaderFails \/ Wake

Driver == DriverAccepts \/ DriverStops \/ DriverDropped

Next ==
    \/ Task \/ Driver
    \/ TakePipe \/ ForwardEnds
    \/ Register \/ OpenStream \/ OpenStray \/ Break \/ Weather

Spec == Init /\ [][Next]_vars

\* The runtime polls task and driver; the relay answers what it is asked on a
\* connection that holds.
FairSpec == Spec /\ WF_vars(Task) /\ WF_vars(Driver) /\ WF_vars(Register)
-----------------------------------------------------------------------------
(* Properties *)

TypeOK ==
    /\ pc \in {"connect", "auth", "register", "accept", "header", "sleep"}
    /\ backoff \in 0..MaxBackoff
    /\ driver \in {"none", "running", "stopped"} /\ lingering \in {"yes", "no"}
    /\ conn \in {"none", "open", "broken"} /\ registered \in {"no", "yes"}
    /\ opened \in 0..MaxStreams
    /\ kind \in [Streams -> Kinds] /\ place \in [Streams -> Places]
    /\ weather \in {"calm", "rough"}

\* "one persistent ... registration": the task dials with no other driver of its
\* own running, and until it has registered there is no stream for it to serve:
\* what an earlier session left behind is never taken for the new one's.
OneSession ==
    /\ pc = "connect" => driver = "none" /\ conn = "none"
    /\ pc \in {"connect", "auth"} \/ (pc = "register" /\ conn = "open" /\ registered = "no")
           => registered = "no" /\ Unrouted = {}

\* Streams are served in the order the relay opened them: none is routed, or
\* even looked at, while an older one waits.
ServedInOrder ==
    \A i, j \in Streams :
        i < j /\ place[j] \in {"hand", "slot", "taken", "forwarded"}
            => place[i] \notin {"unopened", "sent", "queued"}

\* If headers come, every stream the relay opens reaches its user or is over:
\* none is left in the queue of a session that sleeps, broke or was replaced.
StreamsSettled ==
    (\A i \in Streams : kind[i] # "silent") =>
        \A i \in Streams : (i \in Unrouted) ~> (i \notin Unrouted)

\* Once connections hold, the target is registered again and again, whatever
\* state the last session was left in.
KeepsRegistering == <>[]Calm => []<>(registered = "yes")

-----------------------------------------------------------------------------
(* The structure that makes the safety properties inductive.                *)

\* The streams in being are the first `opened` ones, and the driver queues
\* none before an older one.
StreamInv ==
    \A i, j \in Streams :
        /\ place[j] # "unopened" <=> j <= opened
        /\ i < j /\ place[j] = "queued" => place[i] # "sent"

IInv == TypeOK /\ StreamInv /\ OneSession /\ ServedInOrder
=============================================================================
