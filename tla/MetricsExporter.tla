-------------------------- MODULE MetricsExporter --------------------------
(***************************************************************************)
(* The metrics export path (crates/crossx-agent/src/export.rs, driven by   *)
(* run_loop in main.rs): each tick samples one batch; with an empty disk   *)
(* queue the batch is sent at once and stored only when every attempt      *)
(* failed, otherwise it is stored behind the backlog and the backlog is    *)
(* drained from its head.  An attempt runs under a timeout, over a fresh   *)
(* connection (direct) or over a pipe handed over by the relay task.       *)
(*                                                                         *)
(* Simplifications:                                                        *)
(*  - a batch is the number of the tick that sampled it; the disk queue    *)
(*    (module Wal) is the set of batches it holds, whose head is the       *)
(*    smallest; it may evict a prefix when full and may fail an append,    *)
(*    but loses no batch it accepted: what Wal promises unless a write     *)
(*    tears or a roll fails.  Of a failed roll this module has what it     *)
(*    does to the running process (parted), not what a restart after it    *)
(*    may lose;                                                            *)
(*  - the backoff sleeps and their jitter are not observable;              *)
(*  - after MaxTicks the sampled batches are no longer followed: such a    *)
(*    tick only drains the backlog (LaterTick).                            *)
(***************************************************************************)
EXTENDS Integers, FiniteSets, FiniteSetsExt, Sequences

CONSTANTS
    MaxTicks,    \* bound on the number of batches followed
    Retries,     \* RETRY_DELAYS.len()
    MaxDrain,    \* MAX_WAL_DRAIN_PER_TICK
    Capacity,    \* batches the disk queue can hold without evicting
    MaxPipes,    \* bound on the pipes waiting in the relay slot
    Transports   \* subset of {"direct", "relay"}

ASSUME BoundsAssumption ==
    /\ MaxTicks \in Nat /\ Retries \in Nat /\ MaxDrain \in Nat
    /\ Capacity \in Nat /\ MaxPipes \in Nat
ASSUME TransportsAssumption == Transports \subseteq {"direct", "relay"}

VARIABLES
    \* the disk queue
    stored,     \* batches a restart would find queued
    pending,    \* batches in the running process's index
    parted,     \* a roll has failed in this process: the index may name a
                \* segment file that was never created
    \* MetricsExporter and the tick it is executing
    transport,  \* the variant of ExportTransport
    channel,    \* the HTTP/2 connection: "none", "live" or "dead"
    slot,       \* pipes sent by the relay task and not yet received
    pc,         \* where the tick is
    batch,      \* the batch being exported, 0 if none
    source,     \* that batch was "sampled" by this tick or is "queued"
    attempt,    \* attempt of export_with_retry
    drained,    \* entries drained by this tick
    \* the environment
    weather,    \* "calm": the collector answers in time, connections hold,
                \* the disk works and nobody kills the process; or "rough"
    wire,       \* batches of abandoned attempts that may still arrive
    \* history
    nextBatch,  \* number of the next batch
    received,   \* batches the collector has processed
    evicted,    \* batches the disk queue evicted at its cap
    unsaved     \* batches whose append failed or never came

queueVars == <<stored, pending, parted, evicted, unsaved>>
connVars == <<transport, channel, slot>>
tickVars == <<pc, batch, source, attempt, drained>>
envVars == <<weather, wire, nextBatch, received>>
vars == <<queueVars, connVars, tickVars, envVars>>

Batches == 1..MaxTicks
Calm == weather = "calm"

Init ==
    /\ stored = {} /\ pending = {} /\ evicted = {} /\ unsaved = {}
    /\ parted = FALSE
    /\ transport \in Transports /\ channel = "none" /\ slot = <<>>
    /\ pc = "idle" /\ batch = 0 /\ source = "queued" /\ attempt = 0 /\ drained = 0
    /\ weather = "rough" /\ wire = {} /\ nextBatch = 1 /\ received = {}

-----------------------------------------------------------------------------
(* The disk queue, as the exporter sees it *)

\* append succeeds; a full queue first gives up some of its oldest batches.
Store(b) ==
    \E oldest \in 0..b :
        /\ oldest > 0 => Cardinality(stored) >= Capacity
        /\ LET gone == {i \in stored : i < oldest} IN
            /\ stored' = (stored \ gone) \cup {b}
            /\ pending' = (pending \ gone) \cup {b}
            /\ evicted' = evicted \cup (pending \cap gone)
    /\ UNCHANGED <<parted, unsaved>>

\* append returns an error.  Depending on the step that failed the batch is
\* nowhere, on disk only, or even queued; nobody may count on it.  A roll fails
\* before the batch is written, or in enforce_cap when it is queued.
StoreFails(b) ==
    /\ ~Calm
    /\ \/ UNCHANGED <<stored, pending>> /\ parted' \in {parted, TRUE}
       \/ stored' = stored \cup {b} /\ UNCHANGED <<pending, parted>>
       \/ /\ stored' = stored \cup {b} /\ pending' = pending \cup {b}
          /\ parted' \in {parted, TRUE}
    /\ unsaved' = unsaved \cup {b}
    /\ UNCHANGED evicted

Finish == pc' = "idle" /\ batch' = 0 /\ source' = "queued" /\ attempt' = 0 /\ drained' = 0

Export(b, from) ==
    /\ pc' = "connect" /\ batch' = b /\ source' = from /\ attempt' = 0

-----------------------------------------------------------------------------
(* export_tick and drain_wal *)

\* Mutant of TickEmpty: the guard on the backlog is left out.
TickEmptyAlways ==
    /\ pc = "idle" /\ nextBatch <= MaxTicks
    /\ Export(nextBatch, "sampled") /\ nextBatch' = nextBatch + 1
    /\ UNCHANGED <<queueVars, connVars, drained, weather, wire, received>>

\* The run loop's ticker fires.
TickEmpty ==
    /\ pc = "idle" /\ nextBatch <= MaxTicks
    /\ pending = {}
    /\ Export(nextBatch, "sampled") /\ nextBatch' = nextBatch + 1
    /\ UNCHANGED <<queueVars, connVars, drained, weather, wire, received>>

TickBacklog ==
    /\ pc = "idle" /\ nextBatch <= MaxTicks
    /\ pending # {}
    /\ nextBatch' = nextBatch + 1
    /\ \/ Store(nextBatch) /\ pc' = "drain" /\ UNCHANGED <<batch, source, attempt, drained>>
       \/ StoreFails(nextBatch) /\ Finish
    /\ UNCHANGED <<connVars, weather, wire, received>>

LaterTick ==
    /\ pc = "idle" /\ nextBatch > MaxTicks /\ pending # {}
    /\ pc' = "drain"
    /\ UNCHANGED <<queueVars, connVars, batch, source, attempt, drained, envVars>>

DrainNext ==
    /\ pc = "drain" /\ drained < MaxDrain /\ pending # {}
    /\ Export(Min(pending), "queued")
    /\ UNCHANGED <<queueVars, connVars, drained, envVars>>

DrainDone ==
    /\ pc = "drain" /\ (drained = MaxDrain \/ pending = {})
    /\ Finish
    /\ UNCHANGED <<queueVars, connVars, envVars>>

\* next fails to read the head: the disk fails or, in any weather, the head was
\* indexed under a segment that a failed roll left out.
DrainReadFails ==
    /\ pc = "drain" /\ drained < MaxDrain /\ pending # {} /\ (~Calm \/ parted)
    /\ Finish
    /\ UNCHANGED <<queueVars, connVars, envVars>>

\* What the persisted cursor of an index I leaves to a restart.
Behind(I) == IF I = {} THEN {} ELSE {i \in stored : i >= Min(I)}

\* ack of the exported head: it leaves the index, then the cursor moves.
Ack ==
    /\ pc = "ack" /\ source = "queued"
    /\ pending' = pending \ {batch}
    /\ stored' = Behind(pending')
    /\ pc' = "drain" /\ drained' = drained + 1 /\ batch' = 0 /\ attempt' = 0
    /\ UNCHANGED <<parted, evicted, unsaved, connVars, source, envVars>>

\* The cursor could not be persisted: the index has moved on, the disk not.
AckFails ==
    /\ pc = "ack" /\ source = "queued" /\ ~Calm
    /\ pending' = pending \ {batch}
    /\ Finish
    /\ UNCHANGED <<stored, parted, evicted, unsaved, connVars, envVars>>

FreshDone ==
    /\ pc = "ack" /\ source = "sampled"
    /\ Finish
    /\ UNCHANGED <<queueVars, connVars, envVars>>

\* export_tick persists the sampled batch that could not be exported.
PersistFresh ==
    /\ pc = "append"
    /\ Store(batch) \/ StoreFails(batch)
    /\ Finish
    /\ UNCHANGED <<connVars, envVars>>

-----------------------------------------------------------------------------
(* export_with_retry and try_export *)

\* Mutants: the loop runs once too often; a failed fresh batch is forgotten.
RetryPast ==
    IF attempt <= Retries
    THEN pc' = "connect" /\ attempt' = attempt + 1 /\ UNCHANGED <<batch, source, drained>>
    ELSE IF source = "sampled" THEN pc' = "append" /\ UNCHANGED <<batch, source, attempt, drained>>
    ELSE Finish
RetryForget ==
    IF attempt < Retries
    THEN pc' = "connect" /\ attempt' = attempt + 1 /\ UNCHANGED <<batch, source, drained>>
    ELSE Finish

\* The attempt failed: sleep and try again, or give up.
Retry ==
    IF attempt < Retries
    THEN pc' = "connect" /\ attempt' = attempt + 1 /\ UNCHANGED <<batch, source, drained>>
    ELSE IF source = "sampled" THEN pc' = "append" /\ UNCHANGED <<batch, source, attempt, drained>>
    ELSE Finish

\* The request of an abandoned attempt may be on its way if it was sent.
Abandon ==
    \/ UNCHANGED wire
    \/ pc = "send" /\ channel = "live" /\ wire' = wire \cup {batch}

\* Mutant: a relay connection survives a timed out attempt.
KeepChannel == UNCHANGED channel

\* discard_relay_channel; a direct connection belongs to its attempt.
DiscardChannel == channel' = "none"

Connected(c) == pc' = "send" /\ channel' = c /\ UNCHANGED <<batch, source, attempt, drained>>

ConnectDirect ==
    /\ pc = "connect" /\ transport = "direct"
    /\ Connected("live")
    /\ UNCHANGED <<queueVars, transport, slot, envVars>>

ConnectRefused ==
    /\ pc = "connect" /\ transport = "direct" /\ ~Calm
    /\ Retry
    /\ UNCHANGED <<queueVars, connVars, envVars>>

\* The relay connection of an earlier export is still installed.
ReuseChannel ==
    /\ pc = "connect" /\ transport = "relay" /\ channel # "none"
    /\ Connected(channel)
    /\ UNCHANGED <<queueVars, transport, slot, envVars>>

\* A pipe is received and becomes the connection, whatever its state: no byte
\* of the peer is awaited.
TakePipe ==
    /\ pc = "connect" /\ transport = "relay" /\ channel = "none" /\ slot # <<>>
    /\ Connected(Head(slot)) /\ slot' = Tail(slot)
    /\ UNCHANGED <<queueVars, transport, envVars>>

\* channel_over_pipe fails on a closed pipe, which is consumed.
TakeDeadPipe ==
    /\ pc = "connect" /\ transport = "relay" /\ channel = "none" /\ slot # <<>>
    /\ Head(slot) = "dead" /\ slot' = Tail(slot)
    /\ Retry
    /\ UNCHANGED <<queueVars, transport, channel, envVars>>

\* The collector processes the request and the client sees Ok.
SendOk ==
    /\ pc = "send" /\ channel = "live"
    /\ received' = received \cup {batch}
    /\ pc' = "ack"
    /\ channel' = IF transport = "direct" THEN "none" ELSE channel
    /\ UNCHANGED <<queueVars, transport, slot, batch, source, attempt, drained,
                   weather, wire, nextBatch>>

\* The collector rejects the request, or the connection breaks under it.
SendFails ==
    /\ pc = "send" /\ (channel = "dead" \/ ~Calm)
    /\ Abandon /\ Retry
    /\ channel' = "none"
    /\ UNCHANGED <<queueVars, transport, slot, weather, nextBatch, received>>

\* Mutant: the timeout starts when the connection is there.
SendWaiting == pc = "send" /\ (channel = "dead" \/ ~Calm)

\* Where an attempt can wait for somebody else.
Waiting ==
    \/ pc = "connect" /\ transport = "direct" /\ ~Calm
    \/ pc = "connect" /\ transport = "relay" /\ channel = "none" /\ slot = <<>>
    \/ pc = "send" /\ (channel = "dead" \/ ~Calm)

\* ATTEMPT_TIMEOUT elapses.
Timeout ==
    /\ Waiting
    /\ Abandon /\ Retry /\ DiscardChannel
    /\ UNCHANGED <<queueVars, transport, slot, weather, nextBatch, received>>

-----------------------------------------------------------------------------
(* The environment *)

\* The agent is killed and started again: the index is what the disk holds,
\* connections and waiting pipes are gone.
Restart ==
    /\ ~Calm
    /\ pending' = stored /\ parted' = FALSE
    /\ unsaved' = IF source = "sampled" /\ pc # "ack" THEN unsaved \cup {batch} ELSE unsaved
    /\ channel' = "none" /\ slot' = <<>>
    /\ Finish
    /\ UNCHANGED <<stored, evicted, transport, envVars>>

\* The relay task routes a telemetry stream into the slot.
PipeArrives ==
    /\ transport = "relay" /\ Len(slot) < MaxPipes
    /\ slot' = Append(slot, "live")
    /\ UNCHANGED <<queueVars, transport, channel, tickVars, envVars>>

\* The collector closes some of its streams, or the relay connection is lost
\* and with it all of them.
Break ==
    /\ ~Calm /\ transport = "relay"
    /\ channel' \in {channel, IF channel = "live" THEN "dead" ELSE channel}
    /\ \E S \in SUBSET DOMAIN slot :
          slot' = [i \in DOMAIN slot |-> IF i \in S THEN "dead" ELSE slot[i]]
    /\ UNCHANGED <<queueVars, transport, tickVars, envVars>>

\* The request of an abandoned attempt reaches the collector.
ArriveLate ==
    /\ \E b \in wire : received' = received \cup {b} /\ wire' = wire \ {b}
    /\ UNCHANGED <<queueVars, connVars, tickVars, weather, nextBatch>>

Weather ==
    /\ weather' = IF Calm THEN "rough" ELSE "calm"
    /\ UNCHANGED <<queueVars, connVars, tickVars, wire, nextBatch, received>>

-----------------------------------------------------------------------------
\* What the exporter's task does when it is polled.
Progress ==
    \/ TickEmpty \/ TickBacklog \/ LaterTick
    \/ DrainNext \/ DrainDone \/ DrainReadFails
    \/ Ack \/ AckFails \/ FreshDone \/ PersistFresh
    \/ ConnectDirect \/ ConnectRefused \/ ReuseChannel \/ TakePipe \/ TakeDeadPipe
    \/ SendOk \/ SendFails \/ Timeout

Next ==
    \/ Progress
    \/ Restart \/ PipeArrives \/ Break \/ ArriveLate \/ Weather

Spec == Init /\ [][Next]_vars

\* The runtime polls the task and fires its timers.
FairSpec == Spec /\ WF_vars(Progress)
-----------------------------------------------------------------------------
(* Properties *)

TypeOK ==
    /\ stored \subseteq Batches /\ pending \subseteq stored /\ parted \in BOOLEAN
    /\ transport \in Transports
    /\ channel \in {"none", "live", "dead"}
    /\ slot \in Seq({"live", "dead"})
    /\ pc \in {"idle", "drain", "connect", "send", "ack", "append"}
    /\ batch \in Batches \cup {0} /\ source \in {"sampled", "queued"}
    /\ attempt \in 0..Retries /\ drained \in 0..MaxDrain
    /\ weather \in {"calm", "rough"} /\ wire \subseteq Batches
    /\ nextBatch \in 1..(MaxTicks + 1)
    /\ received \subseteq Batches /\ evicted \subseteq Batches
    /\ unsaved \subseteq Batches

\* Stored batches nobody has received and nobody was refused.
Owed == stored \ (received \cup unsaved)

\* "Strict FIFO disk backfill": a batch that reached the collector leaves no
\* older batch behind in the queue undelivered, across retries, late answers,
\* failed acknowledgements, evictions and restarts.  (Batches whose append
\* reported an error are nobody's promise, though they may turn up.)
NoOvertaking ==
    \A i \in Owed : \A j \in received : j < i

\* Every batch ever sampled is accounted for: delivered, queued in the running
\* process (not only on disk), being exported, evicted at the cap, or its
\* append failed or was cut off.
NothingForgotten ==
    \A b \in 1..(nextBatch - 1) :
        \/ b \in received \cup pending \cup evicted \cup unsaved
        \/ b = batch /\ source = "sampled"

\* A hung collector, a silent relay or a dead pipe never wedges a tick.
TickReturns == (pc # "idle") ~> (pc = "idle")

\* Once the environment stays calm in a process in which no roll has failed, and
\* the collector dials telemetry streams, every queued batch is delivered or
\* makes room for newer ones: no stale connection or pipe survives to prevent
\* it.  (After a failed roll a head may stay that next cannot read, in front of
\* all others, wal.rs: append, next.)
BacklogDrains ==
    <>[](Calm /\ ~parted) /\ WF_vars(PipeArrives) =>
        \A b \in Batches : (b \in stored) ~> (b \in received \cup evicted \cup unsaved)

-----------------------------------------------------------------------------
(* The structure that makes the safety properties inductive.                *)

\* What a tick holds in its hands: the batch it sampled, while nothing is
\* queued, or the head of the queue.
HandInv ==
    /\ pc \in {"idle", "drain"} => source = "queued"
    /\ pc = "append" => source = "sampled"
    /\ source = "sampled" => batch = nextBatch - 1 /\ batch \in Batches /\ pending = {}
    /\ pc \in {"connect", "send", "ack"} /\ source = "queued" =>
           drained < MaxDrain /\ batch \in pending /\ \A i \in pending : batch <= i
    /\ pc = "ack" => batch \in received

\* Batch numbers are given out once.
NumberInv == \A i \in stored \cup received \cup wire : i < nextBatch

\* What only the disk knows of was delivered or refused.
CoverInv == stored \subseteq pending \cup received \cup unsaved

\* A late request never carries a batch younger than one still owed.
WireInv == \A i \in Owed : \A j \in wire : j <= i

IInv ==
    /\ TypeOK /\ HandInv /\ NumberInv /\ CoverInv /\ WireInv
    /\ NoOvertaking /\ NothingForgotten
=============================================================================
