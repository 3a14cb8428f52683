------------------------------ MODULE LogsLoop ------------------------------
(***************************************************************************)
(* Log collection as a whole (crates/crossx-agent/src/logs.rs): the loop   *)
(* of run_logs_loop, which takes a tick or a journal record, or the single *)
(* pass of run_logs_once; LogsExporter, which sends a batch at once or     *)
(* puts it behind the backlog of the disk queue and drains that; and the   *)
(* checkpoints, which the sources advance once their batch was accepted.   *)
(*                                                                         *)
(* Simplifications:                                                        *)
(*  - a file is polled behind its checkpoint (module FileTailer has the    *)
(*    offsets, rotation and truncation, JournaldSource the cursors);       *)
(*  - the disk queue (module Wal) is the sequence of batches a restart     *)
(*    would find; those in the index of the running process are "live".    *)
(*    It may evict a prefix when full, never the batch being appended, and *)
(*    loses no batch it accepted: what Wal promises unless a write tears   *)
(*    or a roll fails.  Of a failed roll this module has what it does to   *)
(*    the running process (parted), not what a restart after it may lose;  *)
(*  - an attempt of export_with_retry succeeds or fails, a timeout being a *)
(*    failure (module MetricsExporter has the connection);                 *)
(*  - the journal records that are not followed carry no line; they keep   *)
(*    the queue moving once the weather is calm (Chatter).                 *)
(***************************************************************************)
EXTENDS Integers, Sequences, FiniteSets, FiniteSetsExt

CONSTANTS
    NumFiles,      \* the configured files are the sources 1..NumFiles
    JournalLines,  \* bound on the journal records followed
    FileLines,     \* bound on the lines written to a file
    MaxPoll,       \* MAX_POLL_RECORDS
    Retries,       \* RETRY_DELAYS.len()
    MaxDrain,      \* MAX_WAL_DRAIN_PER_TICK
    Capacity,      \* batches the disk queue can hold
    MaxFaults,     \* bound on the failed appends that leave a trace
    MaxRestarts,   \* bound on the restarts of the agent
    MaxWire        \* bound on the abandoned requests under way at a time

ASSUME BoundsAssumption ==
    /\ NumFiles \in Nat /\ JournalLines \in Nat /\ FileLines \in Nat
    /\ MaxPoll \in Nat \ {0} /\ Retries \in Nat /\ MaxDrain \in Nat
    /\ Capacity \in Nat \ {0} /\ MaxFaults \in Nat /\ MaxRestarts \in Nat
    /\ MaxWire \in Nat

VARIABLES
    \* the sources
    written,     \* lines of each source so far
    checkpoint,  \* the last line each checkpoint file covers
    follower,    \* journalctl: "none"; "suspect", none and the next one is
                 \* spawned with --since now; "unproven", spawned behind a
                 \* cursor and without a record yet; "proven"
    position,    \* the last line it has read
    \* the loop
    mode,        \* "loop" (run_logs_loop) or "once" (run_logs_once)
    pc,          \* what the task is about to do
    turn,        \* the file being polled, 0 outside poll_file_sources
    hand,        \* the batch in hand of export_records
    attempt,     \* attempt of export_with_retry
    drained,     \* entries drained by this export
    \* the disk queue
    queue,
    parted,      \* a roll has failed in this process: the index may name a
                 \* segment file that was never created
    \* the environment
    weather,     \* "rough", where anything may fail, until it is "calm": the
                 \* collector answers, disk and files work, nothing is killed
    wire,        \* batches of abandoned attempts that may still arrive and
                 \* bring something new
    \* history
    faults, restarts,
    goal,        \* what the pass of run_logs_once has to reach
    received,    \* lines the collector has processed
    evicted,     \* lines the disk queue evicted at its cap
    dropped      \* journal lines the queue refused or journalctl passed over

sourceVars == <<written, checkpoint, follower, position>>
taskVars == <<mode, pc, turn, hand, attempt, drained>>
envVars == <<weather, wire>>
histVars == <<faults, restarts, goal, received, evicted, dropped>>
queueVars == <<queue, parted>>
vars == <<sourceVars, taskVars, queueVars, envVars, histVars>>

Journal == 0
Files == 1..NumFiles
Sources == 0..NumFiles
MaxLines(s) == IF s = Journal THEN JournalLines ELSE FileLines
Calm == weather = "calm"

Batch(s, from, to) == [src |-> s, from |-> from, to |-> to]
Nothing == Batch(Journal, 1, 0)
LinesOf(b) == {b.src} \X (b.from .. b.to)
Entry(b, state) == [batch |-> b, state |-> state]

\* Mutant of PollEnd: the poll returns lines that are not there yet.
PollEndPast(f) == checkpoint[f] + MaxPoll

\* The last line a poll of file f returns now.
PollEnd(f) == Min({written[f], checkpoint[f] + MaxPoll})

\* What the pass of run_logs_once started now has to bring under a checkpoint.
PassGoal == [s \in Sources |-> IF s = Journal THEN 0 ELSE PollEnd(s)]

Init ==
    /\ written = [s \in Sources |-> 0] /\ checkpoint = [s \in Sources |-> 0]
    /\ follower = "none" /\ position = 0
    /\ mode = "loop" /\ pc = "select" /\ turn = 0 /\ hand = Nothing
    /\ attempt = 0 /\ drained = 0
    /\ queue = <<>> /\ parted = FALSE
    /\ weather = "rough" /\ wire = {}
    /\ faults = 0 /\ restarts = 0 /\ goal = [s \in Sources |-> 0]
    /\ received = {} /\ evicted = {} /\ dropped = {}

-----------------------------------------------------------------------------
(* The disk queue, as LogsExporter sees it *)

LiveAt(q) == {i \in DOMAIN q : q[i].state = "live"}
Backlog == LiveAt(queue) # {}

\* Mutant of HeadAt: the newest entry is sent first.
HeadAtNewest == Max(LiveAt(queue))

\* next returns the oldest live entry.
HeadAt == Min(LiveAt(queue))

\* Lines of the live entries of q, and of those before the n-th.
Queued(q) == UNION {LinesOf(q[i].batch) : i \in LiveAt(q)}
QueuedBefore(q, n) == UNION {LinesOf(q[i].batch) : i \in {j \in LiveAt(q) : j < n}}

\* The queue without its first k entries.
Without(k) == SubSeq(queue, k + 1, Len(queue))

\* append returns Ok; a full queue gives up its oldest entries, as many as it
\* takes to fit and maybe more: segments are evicted whole.
Store(b) ==
    \E k \in 0..Len(queue) :
        /\ IF Len(queue) < Capacity THEN k = 0 ELSE Len(queue) - k < Capacity
        /\ queue' = Append(Without(k), Entry(b, "live"))
        /\ evicted' = evicted \cup QueuedBefore(queue, k + 1)
        /\ UNCHANGED <<parted, faults>>

\* append returns an error.  Depending on the step that failed the batch is
\* nowhere, on disk only, or even queued.  A roll fails before the batch is
\* written, or in enforce_cap when it is queued.
StoreFails(b) ==
    /\ ~Calm
    /\ \/ UNCHANGED <<queueVars, faults>>
       \/ /\ faults < MaxFaults /\ faults' = faults + 1
          /\ \/ UNCHANGED queue /\ parted' = TRUE
             \/ queue' = Append(queue, Entry(b, "dead")) /\ UNCHANGED parted
             \/ queue' = Append(queue, Entry(b, "live")) /\ parted' \in {parted, TRUE}
    /\ UNCHANGED evicted

\* ack of the head: the cursor moves to the next entry of the index.
AckHead ==
    LET rest == LiveAt(queue) \ {HeadAt} IN
    queue' = IF rest = {} THEN <<>> ELSE Without(Min(rest) - 1)

-----------------------------------------------------------------------------
(* export_records *)

\* export_records takes a batch that is not empty.
Export(b) ==
    /\ hand' = b /\ attempt' = 0 /\ drained' = 0
    /\ pc' = IF Backlog THEN "append" ELSE "attempt"

\* The payload of an attempt: the head of the queue while there is one, as the
\* fresh batch is then queued too.
Carried == IF Backlog THEN queue[HeadAt].batch ELSE hand

\* The requests of W that bring anything new to a collector that has the lines R.
Fresh(W, R) == {b \in W : ~(LinesOf(b) \subseteq R)}

\* Control goes back to the loop, to poll the next file or to select!.
GoOn ==
    /\ hand' = Nothing /\ attempt' = 0 /\ drained' = 0
    /\ IF turn \in Files /\ turn < NumFiles
       THEN pc' = "poll" /\ turn' = turn + 1
       ELSE /\ turn' = 0
            /\ pc' = IF mode = "loop" THEN "select" ELSE "done"

\* run_logs_once returns the first error.
GiveUp ==
    /\ hand' = Nothing /\ attempt' = 0 /\ drained' = 0
    /\ turn' = 0 /\ pc' = "failed"

\* Mutant of Degrade: the pass of run_logs_once tolerates errors as well.
DegradeAlways == GoOn

\* What an error of one source does.
Degrade == IF mode = "loop" THEN GoOn ELSE GiveUp

\* export_records returns Ok and the source persists its checkpoint next.
Accepted == pc' = "persist" /\ attempt' = 0 /\ drained' = 0 /\ UNCHANGED <<turn, hand>>

\* export_records returns an error: the lines of a file are read again, the
\* record of the journal is dropped.
Refused ==
    /\ Degrade
    /\ dropped' = IF hand.src = Journal THEN dropped \cup LinesOf(hand) ELSE dropped

\* Mutant of DrainOn: the backlog is left to later exports.
DrainOnLater(n) == Accepted

\* drain_wal after n entries: the next one is sent, or nothing is left, enough
\* was done, or the head cannot be read, because the disk fails or, in any
\* weather, because it was indexed under a segment that a failed roll left out.
DrainOn(n) ==
    \/ /\ n < MaxDrain /\ LiveAt(queue') # {}
       /\ pc' = "attempt" /\ attempt' = 0 /\ drained' = n /\ UNCHANGED <<turn, hand>>
    \/ /\ n = MaxDrain \/ LiveAt(queue') = {} \/ ~Calm \/ parted
       /\ Accepted

\* The batch is appended, behind the backlog that is drained next or because
\* every attempt to send it failed.
AppendBatch ==
    /\ pc = "append"
    /\ \/ /\ Store(hand) /\ UNCHANGED dropped
          /\ IF Backlog THEN DrainOn(0) ELSE Accepted
       \/ StoreFails(hand) /\ Refused
    /\ UNCHANGED <<sourceVars, mode, envVars, restarts, goal, received>>

AttemptOk ==
    /\ pc = "attempt"
    /\ received' = received \cup LinesOf(Carried) /\ wire' = Fresh(wire, received')
    /\ IF Backlog THEN pc' = "ack" /\ UNCHANGED <<turn, hand, attempt, drained>> ELSE Accepted
    /\ UNCHANGED <<sourceVars, mode, queueVars, weather, faults, restarts, goal, evicted, dropped>>

\* Mutant of LastAttempt: a failed fresh batch is not persisted.
LastAttemptForgets == Accepted

\* Every attempt failed: the drain stops with a warning, or the fresh batch is
\* persisted.
LastAttempt ==
    IF Backlog THEN Accepted
    ELSE pc' = "append" /\ UNCHANGED <<turn, hand, attempt, drained>>

\* The attempt fails or times out; what it sent may still arrive.
AttemptFails ==
    /\ pc = "attempt" /\ ~Calm
    /\ \/ UNCHANGED wire
       \/ Cardinality(wire) < MaxWire /\ wire' = Fresh(wire \cup {Carried}, received)
    /\ IF attempt < Retries
       THEN attempt' = attempt + 1 /\ UNCHANGED <<pc, turn, hand, drained>>
       ELSE LastAttempt
    /\ UNCHANGED <<sourceVars, mode, queueVars, weather, histVars>>

Ack ==
    /\ pc = "ack"
    /\ AckHead /\ DrainOn(drained + 1)
    /\ UNCHANGED <<sourceVars, mode, parted, envVars, histVars>>

\* The cursor could not be persisted: the index has moved on, the disk not.
AckFails ==
    /\ pc = "ack" /\ ~Calm
    /\ queue' = [i \in DOMAIN queue |->
                    IF i = HeadAt THEN Entry(queue[i].batch, "dead") ELSE queue[i]]
    /\ Accepted
    /\ UNCHANGED <<sourceVars, mode, parted, envVars, histVars>>

-----------------------------------------------------------------------------
(* The loop and its sources *)

\* JournaldSource::ensure_running spawns a journalctl.
SpawnFollower ==
    IF follower = "suspect" \/ checkpoint[Journal] = 0
    THEN /\ follower' = "proven" /\ position' = written[Journal]
         /\ dropped' = dropped \cup
                ({Journal} \X ((checkpoint[Journal] + 1)..written[Journal]) \ Queued(queue))
    ELSE follower' = "unproven" /\ position' = checkpoint[Journal] /\ UNCHANGED dropped

KeepFollower == UNCHANGED <<follower, position, dropped>>

StartPolling ==
    /\ turn' = IF NumFiles = 0 THEN 0 ELSE 1
    /\ pc' = IF NumFiles = 0 THEN "select" ELSE "poll"

\* The ticker fires.
Tick ==
    /\ pc = "select"
    /\ IF follower \in {"none", "suspect"}
       THEN SpawnFollower \/ (~Calm /\ KeepFollower)
       ELSE KeepFollower
    /\ StartPolling
    /\ UNCHANGED <<written, checkpoint, mode, hand, attempt, drained, queueVars, envVars,
                   faults, restarts, goal, received, evicted>>

\* FileTailer::poll returns what was written behind the checkpoint, up to its
\* limit; lines written a moment later may still be in it.
PollFile ==
    /\ pc = "poll" /\ written[turn] > checkpoint[turn]
    /\ Export(Batch(turn, checkpoint[turn] + 1, PollEnd(turn)))
    /\ UNCHANGED <<sourceVars, mode, turn, queueVars, envVars, histVars>>

PollEmpty ==
    /\ pc = "poll" /\ written[turn] = checkpoint[turn]
    /\ GoOn
    /\ UNCHANGED <<sourceVars, mode, queueVars, envVars, histVars>>

\* The file cannot be stated, opened or read.
PollFails ==
    /\ pc = "poll" /\ ~Calm
    /\ Degrade
    /\ UNCHANGED <<sourceVars, mode, queueVars, envVars, histVars>>

\* The journald arm of select!.
JournalRecord ==
    /\ pc = "select" /\ follower \in {"unproven", "proven"} /\ position < written[Journal]
    /\ follower' = "proven" /\ position' = position + 1
    /\ Export(Batch(Journal, position', position'))
    /\ UNCHANGED <<written, checkpoint, mode, turn, queueVars, envVars, histVars>>

\* A record that is not followed, in calm weather only.
Chatter ==
    /\ Calm /\ pc = "select" /\ follower \in {"unproven", "proven"} /\ position = written[Journal]
    /\ follower' = "proven"
    /\ Export(Nothing)
    /\ UNCHANGED <<written, checkpoint, position, mode, turn, queueVars, envVars, histVars>>

\* journalctl dies.
FollowerDies ==
    /\ pc = "select" /\ ~Calm /\ follower \in {"unproven", "proven"}
    /\ follower' = IF follower = "unproven" THEN "suspect" ELSE "none"
    /\ position' = 0
    /\ UNCHANGED <<written, checkpoint, taskVars, queueVars, envVars, histVars>>

\* persist_checkpoint of the source whose batch was accepted.
Persist ==
    /\ pc = "persist"
    /\ checkpoint' = IF hand = Nothing THEN checkpoint
                     ELSE [checkpoint EXCEPT ![hand.src] = hand.to]
    /\ GoOn
    /\ UNCHANGED <<written, follower, position, mode, queueVars, envVars, histVars>>

PersistFails ==
    /\ pc = "persist" /\ ~Calm
    /\ Degrade
    /\ UNCHANGED <<sourceVars, mode, queueVars, envVars, histVars>>

-----------------------------------------------------------------------------
(* The environment *)

\* The agent is killed, or ends, and is started again, for ever or for one
\* pass: the index is what the disk holds.
Restart ==
    /\ ~Calm /\ restarts < MaxRestarts /\ restarts' = restarts + 1
    /\ queue' = [i \in DOMAIN queue |-> Entry(queue[i].batch, "live")]
    /\ parted' = FALSE
    /\ follower' = "none" /\ position' = 0
    /\ hand' = Nothing /\ attempt' = 0 /\ drained' = 0
    /\ mode' \in {"loop", "once"}
    /\ IF mode' = "loop" THEN pc' = "select" /\ turn' = 0 /\ goal' = [s \in Sources |-> 0]
       ELSE /\ pc' = IF NumFiles = 0 THEN "done" ELSE "poll"
            /\ turn' = IF NumFiles = 0 THEN 0 ELSE 1
            /\ goal' = PassGoal
    /\ UNCHANGED <<written, checkpoint, envVars, faults, received, evicted, dropped>>

\* A line is written.  Only polls and select! look, so it may as well happen
\* there.
Write(s) ==
    /\ pc \in {"select", "poll"} /\ written[s] < MaxLines(s)
    /\ written' = [written EXCEPT ![s] = @ + 1]
    /\ UNCHANGED <<checkpoint, follower, position, taskVars, queueVars, envVars, histVars>>

\* The request of an abandoned attempt reaches the collector.
ArriveLate ==
    /\ \E b \in wire : received' = received \cup LinesOf(b) /\ wire' = Fresh(wire, received')
    /\ UNCHANGED <<sourceVars, taskVars, queueVars, weather,
                   faults, restarts, goal, evicted, dropped>>

\* From some round of select! on nothing fails, and what was left of the bounds
\* on failures is given up.
Weather ==
    /\ pc = "select" /\ ~Calm /\ weather' = "calm"
    /\ faults' = MaxFaults /\ restarts' = MaxRestarts
    /\ UNCHANGED <<sourceVars, taskVars, queueVars, wire, goal, received, evicted, dropped>>

-----------------------------------------------------------------------------
\* What the task does between two rounds of select!.
Progress ==
    \/ PollFile \/ PollEmpty \/ PollFails
    \/ AppendBatch \/ AttemptOk \/ AttemptFails
    \/ Ack \/ AckFails \/ Persist \/ PersistFails

Next ==
    \/ Progress \/ Tick \/ JournalRecord \/ Chatter
    \/ FollowerDies \/ Restart \/ ArriveLate \/ Weather
    \/ \E s \in Sources : Write(s)

Spec == Init /\ [][Next]_vars

\* The runtime polls the task; select! picks among its ready arms at random,
\* so that neither is passed over for ever.
FairSpec == Spec /\ WF_vars(Progress) /\ SF_vars(Tick) /\ SF_vars(JournalRecord)
-----------------------------------------------------------------------------
(* Properties *)

Batches == [src : Sources, from : Nat \ {0}, to : Nat]
Entries == [batch : Batches, state : {"live", "dead"}]
Written(b) == b.to <= written[b.src]
Lines == UNION {{s} \X (1..written[s]) : s \in Sources}

TypeOK ==
    /\ written \in [Sources -> Nat] /\ checkpoint \in [Sources -> Nat]
    /\ \A s \in Sources : checkpoint[s] <= written[s] /\ written[s] <= MaxLines(s)
    /\ follower \in {"none", "suspect", "unproven", "proven"}
    /\ position \in 0..written[Journal]
    /\ mode \in {"loop", "once"} /\ turn \in Sources
    /\ pc \in {"select", "poll", "append", "attempt", "ack", "persist",
               "done", "failed"}
    /\ hand \in Batches /\ Written(hand)
    /\ attempt \in 0..Retries /\ drained \in 0..MaxDrain
    /\ queue \in Seq(Entries) /\ parted \in BOOLEAN
    /\ \A i \in DOMAIN queue : Written(queue[i].batch)
    /\ weather \in {"calm", "rough"}
    /\ \A b \in wire : b \in Batches /\ Written(b)
    /\ faults \in 0..MaxFaults /\ restarts \in 0..MaxRestarts
    /\ goal \in [Sources -> Nat]
    /\ received \subseteq Lines /\ evicted \subseteq Lines
    /\ dropped \subseteq {Journal} \X (1..written[Journal])

\* Lines nobody has to wait for.
Settled == received \cup evicted \cup dropped

\* Lines that need not come from their source again.
Held == Settled \cup Queued(queue)

\* The lines of source s before line l.
Below(s, l) == {s} \X (1..(l - 1))

\* "A successful return means the records were either accepted by the collector
\* or appended to the logs WAL, so source checkpoints may advance safely": every
\* line a checkpoint covers was received, or waits in the index of the running
\* process, or fell to the cap.  (Only lines of the journal are ever dropped.)
CheckpointCovered == \A s \in Sources : Below(s, checkpoint[s] + 1) \subseteq Held

\* "signal-specific strict-FIFO WAL": when the collector has a line, it has all
\* older lines of the same source but those that fell to the cap, were refused
\* or passed over: none is still queued, in hand or unread, across retries, late
\* answers, repeated batches, failed acknowledgements and restarts.
OrderKept ==
    \A s \in Sources : \A l \in 1..written[s] :
        <<s, l>> \in received => Below(s, l) \subseteq Settled

\* "the one-shot diagnostic mode should fail loudly on a broken source": a pass
\* that ends well has brought all it found, up to the poll limit, under the
\* checkpoints of all files.
OncePassStrict ==
    pc = "done" => \A f \in Files : checkpoint[f] >= goal[f]

\* Once the environment stays calm in a process in which no roll has failed, and
\* the journal keeps talking, time and again the backlog is gone and every line
\* of every source has arrived, unless the cap, a refusal or --since now took it:
\* no source starves behind the other arm of select!, and each export drains
\* more than it adds.  (After a failed roll the drain may stop at its head in
\* every export until a restart, logs.rs: drain_wal, wal.rs: append, next.)
EverythingArrives ==
    <>(Calm /\ ~parted) /\ SF_vars(Chatter) => []<>(Lines \subseteq Settled /\ ~Backlog)
-----------------------------------------------------------------------------
(* The structure that makes the safety properties inductive                *)

\* Where the task holds a batch it is the next one of its source, and once it
\* was accepted it is held.
HandInv ==
    /\ pc \notin {"append", "attempt", "ack", "persist"} => hand = Nothing
    /\ hand # Nothing =>
           /\ hand.src = turn /\ hand.from <= hand.to
           /\ IF turn = Journal
              THEN follower = "proven" /\ hand.from = position /\ hand.to = position
              ELSE hand.from = checkpoint[turn] + 1
    /\ pc = "persist" \/ (pc \in {"attempt", "ack"} /\ Backlog) =>
           LinesOf(hand) \subseteq Held
    /\ pc = "ack" => Backlog /\ LinesOf(queue[HeadAt].batch) \subseteq received

\* What journalctl has read is held or in hand.
JournalInv ==
    follower \in {"unproven", "proven"} =>
        Below(Journal, position + 1) \subseteq Held \cup LinesOf(hand)

\* What precedes a queued batch is settled or queued before it; what precedes a
\* late request is settled.
InOrder(q, S) ==
    \A i \in DOMAIN q :
        Below(q[i].batch.src, q[i].batch.from) \subseteq S \cup QueuedBefore(q, i)
QueueInv == InOrder(queue, Settled)
WireInv == \A b \in wire : Below(b.src, b.from) \subseteq Settled

\* The files a pass of run_logs_once has polled have reached their goal, those
\* to come can reach it with one poll.
OnceInv ==
    /\ mode = "loop" => pc \notin {"done", "failed"}
    /\ (pc = "poll" => turn \in Files) /\ (pc = "select" => turn = Journal)
    /\ mode = "once" =>
           /\ pc # "select"
           /\ pc \in {"append", "attempt", "ack", "persist"} => turn \in Files /\ hand # Nothing
           /\ hand # Nothing => goal[turn] <= hand.to
           /\ \A f \in Files :
                 /\ goal[f] <= written[f] /\ goal[f] <= checkpoint[f] + MaxPoll
                 /\ pc = "done" \/ f < turn => goal[f] <= checkpoint[f]

IInv ==
    /\ TypeOK /\ HandInv /\ JournalInv /\ QueueInv /\ WireInv /\ OnceInv
    /\ CheckpointCovered /\ OrderKept
=============================================================================
