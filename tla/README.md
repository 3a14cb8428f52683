# A verification project for crossx-agent

crossx-agent runs on a virtual machine, samples host metrics, tails log files
and the systemd journal, and ships both to an OTLP collector. What it cannot
deliver it keeps in a disk queue. It reaches the collector directly or through
a relay to which it holds one authenticated connection. This directory models
the parts of it that must survive crashes, failures and races, checks them with
TLC and proves the central invariants with TLAPS.

## The system

| component | state | operations | source |
|---|---|---|---|
| disk queue `Wal` | segment files, cursor file; in memory the active segment, its descriptor, the pending index | `open` `append` `next` `ack`, cap enforcement | `crossx-agent/src/wal.rs` |
| `MetricsExporter` | its `Wal`, the transport, a cached relay channel, the slot of pipes | `export_tick`: sample, queue or send, drain | `crossx-agent/src/export.rs`, `run_loop` in `main.rs` |
| `LogsExporter` and its loop | its `Wal`, all sources | `run_logs_loop`, `run_logs_once`, `export_records`, `drain_wal` | `crossx-agent/src/logs.rs` |
| `FileSource` / `FileTailer` | offset and signature, a checkpoint file | `poll_into`: stat, read, export, checkpoint | `crossx-agent/src/logs.rs`, `agent-telemetry/src/logs.rs` |
| `JournaldSource` / `JournaldFollower` | a `journalctl` child, the pending cursor, a cursor file, `skip_cursor` | respawn, next record, checkpoint, exit | `crossx-agent/src/logs.rs` |
| relay task | the backoff, the current `Peer` | connect, register, accept, route, sleep | `crossx-agent/src/relay.rs` |
| `Peer` and its driver | the socket, yamux, the queue of inbound streams | `connect` `register` `next_proxy` `dial`, drop | `crossx-relay-rs/src/peer.rs` |
| certificate chain, enrollment | none | `verify_chain` `within` `canonical` `verify` | `crossx-relay-rs/src/cert.rs`, `enroll.rs` |
| handshake, frames, protocol | none | `read_frame` `write_frame`, transcripts | `crossx-relay-rs/src/auth.rs`, `frame.rs`, `protocol.rs` |
| sampler, OTLP encoding, configuration | counters of the last sample | `sample`, `build_export_request`, `load` | `agent-telemetry/src`, `config.rs` |
| supervisor | none | `run_forever`, `run_once` | `main.rs`, `lib.rs` |

The supervisor joins three endless tasks on one runtime: the metrics loop, the
logs loop and, if configured, the relay task. The metrics and the logs loop
each own a `Wal`. The logs loop owns all sources and selects between its ticker
(respawn `journalctl`, poll every file) and the next journal line. The relay
task passes telemetry streams to the metrics exporter through an unbounded
channel, the *slot*; streams for other ports are forwarded to a local port by
tasks of their own. The only state that outlives the process is on disk: the two
queue directories and the checkpoint files.

What makes each part hard, and what makes it correct:

* **Disk queue.** Every operation is several durable steps and the process can
  die between any two; every file operation can fail and leave the process
  running. An accepted record must stay until it is acknowledged or evicted,
  records must come out in order, and the directory must stay below its cap.
* **Metrics export.** Timeouts abandon requests that may still arrive, cached
  connections and waiting pipes die unnoticed, and appends and acknowledgements
  fail in the middle of a tick. No batch may overtake an older one or be
  forgotten, no tick may hang, a backlog must drain.
* **File source.** Another program appends to, renames, deletes or truncates
  the file between any two system calls. Nothing written after the agent met
  the file may be skipped; replays must stay small; long lines must not stall it.
* **Journald source.** `journalctl` may die at any time, for good or bad
  reasons, which the agent has to guess. The checkpoint must not pass a record
  nobody has dealt with, and a bad cursor must not stop collection for ever.
* **Logs loop.** All sources share one exporter, one queue and one task. A
  checkpoint moves on the word of `export_records`, but checkpoint and queue are
  two files with a kill in between, the queue evicts and the backlog is drained
  only behind a fresh batch. No line below a checkpoint may be owed by nobody, the
  lines of a source must arrive in order, and no source may starve.
* **Letting a peer in.** Three certificates, an enrollment and a proof of possession,
  each with its own expiry, made by issuers who may be careless. Parts that are valid
  one by one must not add up to a trust nobody gave, and nobody with good papers
  may be locked out.
* **Relay.** The driver, the task, the exporter and the relay run concurrently;
  the connection breaks at any step. Sessions must not overlap, streams must be
  served in order and not be stranded, and registration must come back.

`PROJECT.json` lists the hazards at their lines with the properties for them. Some
are hazards the code accepts rather than avoids (a refused record is dropped, a
quiet follower's exit is taken for a rejected cursor, a stream without a header blocks
the loop); the models contain these steps, the properties allow them, and the entry
says so instead of naming a property.

## Modules

| module | models | role |
|---|---|---|
| `Wal` | `wal.rs` | the disk queue, one action per durable step |
| `DurableFifo` | what `wal.rs` promises | abstract specification |
| `MCWal` | | `Wal` with the refinement mapping to `DurableFifo` |
| `MetricsExporter` | `export.rs`, `run_loop`, the slot | a tick, attempt by attempt, over an abstract queue |
| `FileTailer` | `FileTailer`, `FileSource` | a tailed file and the program that writes it |
| `JournaldSource` | `JournaldSource`, `JournaldFollower` | the journal and its follower |
| `LogsLoop` | `run_logs_loop`, `run_logs_once`, `LogsExporter` | all sources over one abstract queue |
| `Enrollment` | `cert.rs`, `enroll.rs`, `auth.rs`, `connect_tls` and `authenticate` in `peer.rs` | the papers a peer presents, the decision on them, the handshake |
| `MCEnrollment` | | `Enrollment` with paths for TLC, and where a path leads |
| `RelaySession` | `relay.rs`, `Peer`, `drive_connection` | task, driver, relay and the fate of each stream |
| `OrderLemmas` | | minima, maxima and sums over finite sets of numbers, induction on them |
| `*Proofs` | | the theorems about the module of that name |

### Wal

Files are `linked` (the directory), `len`, `valid` (how far a scan gets) and
`disk` (the whole records); the cursor file is `dcursor`. The Rust value is
`active`, `handle` (the segment `active_file` really is a descriptor of, which
differs from `active` after a failed roll) and `records`. `pc` says which
durable step of which operation is next:

    append:  Append -> cap loop (CapEvict -> CapPersist)* -> CapDone
    ack:     AckPop -> AckPersist -> AckDelete* -> AckDone
    open:    Open   -> the same cap loop

`Crash` is enabled between all of them, `AppendCrash` in the middle of a write.
`Faults` names the operations that may return an error: opening a segment
(`roll`), writing, syncing, updating the cursor, removing a file; and bit rot.
`nextId`, `accepted`, `acked`, `evicted` and `corrupt` are history.
A torn tail is cut by `Open` as `scan_segment` does; `Scan` allows every outcome
of reading a torn header in front of other records.

`DurableFifo` is the queue its owner sees: records are stored at the back,
accepted, acknowledged in order, and leave from the front when settled or
evicted. A crash is no step of it. `KeepsPromise` (module `MCWal`) is that
specification under the mapping `stored <- ` *what a reopen would find*.

### MetricsExporter

The queue appears as the batches a restart would find (`stored`) and those in
the index (`pending`), because a failed acknowledgement makes them differ. It may
evict its oldest batches when full, and an append that returns an error may leave
its batch nowhere, on disk only, or queued. A batch whose append returned `Ok` stays
until it is acknowledged or evicted. That is the contract `Wal` keeps as long as no
write tears and no roll fails (`NoTearing` in module `Wal`, theorems `WalDurable`,
`WalDeliverable` and `WalKeepsPromise`); after findings 1 and 2 a reopen may lose such
a batch, which the abstract queue never does. What is said here of the exporter is
relative to that contract. Of a failed roll the module has the other half, what it does
to the running process: from then on (`parted`, until a restart) the index may name a
segment file that was never created, and `next` may fail on its head in any weather.
One action per way an attempt, a drain step or a tick ends;
`wire` holds requests whose attempt was abandoned, `slot` the pipes with their
state, and `weather` says whether the environment misbehaves.

### FileTailer

The file is a run of numbered bytes: `base` before its beginning, `written` its
end, `ends` its newlines. `Stat` and `Read` are separate so that a rotation can
fall between them, as it can between `metadata` and `File::open`. `Consumed` is
the split loop: whole lines up to the record cap, or a full window inside one
line. `Rotations` selects how the writer rotates. `identity` is "distinct" until a
truncation or a reused inode gives two contents of the path one signature; from
then on the agent, which looks at nothing but the signature and the length, cannot
tell them apart (see *Limitations*).

### JournaldSource

The tick arm is `Spawn`, the journald arm `NextRecord`, `ExportOk`/`ExportFails`,
`Persist`/`PersistFails`; `FollowerExit` is `on_follower_exit` with its guess
about the cursor. `barren` remembers the cursors behind which a `journalctl` died
without a record.

### LogsLoop

The composition of the two sources with `LogsExporter`. A source is a counter of lines
and the line its checkpoint covers; the offsets and cursors behind them are the
subject of the two source modules. `pc` is where the task is: at `select!`, polling
the file `turn`, in one of the steps of `export_records` (`append`, `attempt`, `ack`) or
about to write a checkpoint. `mode` is "once" in a process started with `run --once`,
where an error of one file ends the pass (`Degrade`); otherwise it is a warning. The
queue is that of `MetricsExporter`, with the same contract and the same `parted`, now
in front of checkpoints: an entry may be dead in the index and live after a restart. Abandoned requests that can still tell the
collector something are in `wire`.

### Enrollment

The relay's decision is not in this repository, but `verify_chain` is its "twin", and
the peer's half of the handshake is here; `Answer` is the relay. A signature is a term:
the key and the bytes it was made over. Issuers sign what the program lets them sign:
an issuing CA may certify a member directly, a member may certify another member, and
an org certificate may be edited after it was signed. `VerifyChain` makes the checks
of the code in their order and names the error; `Entitled` says who deserves
to be let in without one. `Restart` replaces one of the four files, which a process
reads once; `Tick` and `AddRoot` are the relay's clock and trust store.

### RelaySession

`place` says where each stream is: on its way, in the driver's queue, in
`next_proxy`, in the slot, with the exporter, forwarded or over. `ClosePeer` is
the drop of `Peer`: it happens at the start of the next round, after the sleep,
exactly where the Rust scope ends (a failed `connect` drops earlier). It aborts
the driver without waiting for it; until the runtime drops the aborted task
(`DriverDropped`) the old socket is open (`lingering`), and the relay may still
open streams on it that nobody accepts (`OpenStray`). Tasks that forward a stream
are not aborted and outlive their session.

## Runs

| run | about | states |
|---|---|---|
| `wal_main` | a cap below the segment size, kills, failing rolls, segment numbers running out: typing, bounded disk, bounded replay, termination | 38 thousand |
| `wal_faults` | a cap of more than a segment, kills, bit rot, failing sync, cursor, remove: durability, order, cursor, append keeps its record, refinement | 1.7 million |
| `wal_roll_fault`, `wal_torn_write`, `wal_small_cap` | findings about the disk queue | |
| `metrics_main` | both transports, failed rolls of the queue: order, accounting, ticks return, backlogs drain | 75 thousand |
| `tailer_main` | rename, reused inodes, truncation, restarts: nothing skipped, bounded replay, lines delivered | 326 thousand |
| `tailer_first_sight` | finding about the file source | |
| `journald_main` | deaths, rejected cursors, restarts: nothing lost, replays explained, everything settled | 43 thousand |
| `logs_main` | a file and the journal over one queue, in the loop or in one pass, failed rolls of the queue: checkpoints covered, order kept, strict pass, everything arrives | 922 thousand |
| `enrollment_main` | every chain of a small population of issuers, both paths: admitted and refused for cause, sessions open only when admitted, projects inside their namespace, expiry is final | 893 thousand |
| `relay_main` | reconnects, bad headers: one session, order, no stranded stream, registration resumes | 229 thousand |

Bounds. Four records of two lengths in at most three segments make rolls and
evictions happen; `wal_main` puts the cap below the segment size, so that the
open segment is evicted and the last segment number is reached, `wal_faults` puts
it above, so that two segments coexist and the cursor may name a deleted one; a
third length exceeds the cap. Two batches, one retry, one
drained entry per tick and a queue of one batch reach every pair of an older and
a younger batch in every pair of places (queue, hand, wire, collector); two
pipes allow a dead one in front of a live one. Four bytes, a window of two, a
record cap of one and two files give lines longer than the window, windows cut
by the record cap, a rotation inside a poll, and truncations that regrow past an
offset. (Of `ReplayBounded` they can break the half about lines; two polls of two bytes
cover the whole file, so the half about bytes rests on the theorem.) Three journal records and one
restart allow a cursor to be rejected, abandoned and a later one to be used.
In `logs_main` one file of two lines and one journal line share a queue of two batches:
enough for a batch of each source to be queued, for an eviction under a checkpoint, for
a failed acknowledgement or append before the restart, and for a late request. Two
entries are drained per export, the least that lets a backlog shrink, since each
export adds one. With one file a single pass cannot fail behind a file it has already
delivered; that part of `OncePassStrict` rests on the theorem, which has any number. In `enrollment_main` one trust anchor may hold either of two
root keys, two orgs share one issuing CA, one member signs enrollments for the peer or
for another, and every certificate may run out at either of two times under a
clock that passes both; the paths include one that merely continues the namespace's
name and one that climbs out of it.
Three streams of four kinds allow one to be served, one in hand and one queued
when the connection breaks. The theorems below do not depend on these bounds.

Deadlock checks are on, except in `logs_main`, where a single pass ends. Every run in the list that passes checks properties
each of which a plausible change to the code breaks (`mutants` in
`PROJECT.json`; the changed definitions stand next to the real ones).

### Fairness

* `Wal`: weak fairness of the steps inside an operation. They are synchronous
  code; nothing in them waits.
* `MetricsExporter`: weak fairness of everything its task does when polled,
  timers included. It says nothing about which outcome an attempt has.
  `BacklogDrains` assumes in addition that the environment is calm from some
  time on, in a process in which no roll of the queue has failed, and that the
  collector keeps dialling telemetry streams, all stated in the property.
* `FileTailer`: weak fairness of polling (the ticker), strong fairness of
  a successful export and checkpoint: the collector or the disk accepts a batch
  now and then. Without it a full disk keeps lines undelivered for ever, rightly.
* `JournaldSource`: the same for its two arms; a `journalctl` given a bad cursor
  exits. A healthy one need never exit, and no fairness says it does.
* `LogsLoop`: weak fairness of the task between two rounds of `select!`, strong
  fairness of its two arms: tokio polls the arms in random order, so a ready arm is
  not passed over for ever. `EverythingArrives` assumes besides that the weather is calm
  from some time on (the collector answers, disk and files work, nothing is killed), in a
  process in which no roll of the queue has failed, and that the journal goes on
  talking; without fresh lines the code never drains a backlog. The premise about rolls
  is needed: once one has failed, a later entry may name a segment that does not exist,
  `next` fails on it for the rest of the process, and neither an acknowledgement nor the
  cap removes it (finding 1). Otherwise a head that cannot be read is the disk's doing,
  which `WalDeliverable` shows, and a half-written record is no exception: it is not
  in the index, and what a reopen makes of it fails its checksum and is skipped.
* `Enrollment` has safety properties only.
* `RelaySession`: weak fairness of the task, of the driver and of the relay's
  answer to `register` while the connection holds. Nothing forces the relay to
  open streams or headers to arrive: a stream of kind `silent` has none, and
  `StreamsSettled` excludes it, since `next_proxy` reads headers without timeout.

## Proofs

TLAPS proves the following for all values of the constants. Each module of proofs has
one lemma per group of actions and part of the invariant, then the theorems.

* **Wal** (`WalProofs`). `WalTypeCorrect` holds for every fault set. `WalDurable`,
  `WalDeliverable`, `WalFifo` and `WalCursorAdvances` assume `NoTearing`: no
  failed roll and no half-written record *in a process that lives on* (kills in
  the middle of a write are included). The three `wal_*` violation runs show that
  the assumption is needed. `WalDeliverable` says of the index both that
  it holds every owed record and that each of its entries names bytes `next` can read:
  no head blocks the queue. The inductive invariant `IInv` adds to `Durable`:
  whole records lie inside the scannable part and position order is id order
  (`DiskInv`), the open file is the newest and no tail is torn while running
  (`ActiveInv`), the cursor is never ahead of where the next record goes
  (`CursorInv`), and the index is the recoverable records short of settled ones
  (`IndexInv`, `JobInv`). `CursorInv` is what makes an eviction followed by a kill
  safe. `WalAppendKeepsItsRecord` assumes moreover that the cap is at least a
  segment (`RoomyCap`) and adds `RoomInv`: the record being appended is in the
  active segment, which is not the oldest of a directory over its cap.
  `WalKeepsPromise` is the refinement: under `NoTearing` each step is a step of
  `DurableFifo` or a stutter. An append, also one that then fails or dies with the
  bytes written, is `Store`; an eviction or a persisted cursor takes the records up to
  some id (`FrontCut`, from position order being id order), and what a cursor leaves behind
  is settled because the index lacks nothing that is owed. `WalAtMostOneReplay`
  assumes that nothing fails but opening or removing a segment (a failed sync or cursor
  update lets more records be offered again, which TLC shows). A failed roll is among
  them, after which `IInv` no longer holds and the cursor may even move back; its
  invariant `ReplayInv` therefore stands alone. Files hold what they say in the order
  of ids while `handle` and `active` are apart (`PlaceInv`); the index never places a
  record in front of where it, or an older one, is on disk (`QueueInv`); what a reopen
  would find is in the index, but for the head just taken (`GapInv`). Hence only the
  oldest record a reopen would find can be acknowledged. `WalDiskBounded` assumes that
  nothing but opening a segment fails: an append whose write, sync or cursor update
  fails returns before the cap is enforced, so a disk that fails and accepts by turns
  may be filled, and a segment that cannot be removed counts for ever. `SizeInv` says
  that no file outgrows its room, that no segment is newer than the active one, which
  makes the next one empty, and that between operations the sum is within `Room`. A
  failed roll splits `active` from `handle`, not the sum, and is therefore allowed.
* **MetricsExporter** (`MetricsExporterProofs`), for all constants over a queue that keeps
  `Wal`'s contract (see *Modules*; a failed roll may stall the queue but, here, not lose
  what it accepted): `IInv` says what
  a tick holds (`HandInv`: a sampled batch only while nothing is queued, or the head
  of the queue), that disk and index differ only in settled batches (`CoverInv`),
  and that no abandoned request carries a batch younger than one still owed
  (`WireInv`). `NoOvertaking` needs the last: a late answer is harmless because
  nothing younger was ever sent.
* **FileTailer** (`FileTailerProofs`): typing unconditionally; `NothingSkipped` for a
  file that has a checkpoint (`Known`) and every way of rotating,
  from `CoverInv`: each of the four offsets the tailer may start from, in memory,
  in a poll, in the hand-over and on disk, has only delivered bytes before it *if
  its signature is that of the present file*. This is why a rotation between stat
  and open is harmless: the wrong offset carries a signature that is gone.
  `TailerReplayBounded` holds for such a file even when signatures lie. `ReplayInv`
  keeps two witnesses of how the present file was read: every poll of it starts at the
  same offset (`PollsFrom`: its beginning, or the checkpoint), so that together they
  return no more than the longest of them, but one, which raced the rotation, starts
  anywhere. Hence two polls (`Extent`) and not one. Without a checkpoint each restart
  could start elsewhere, and the replay would have no bound.
* **JournaldSource** (`JournaldProofs`), unconditionally: `HandInv`, `AheadInv` and
  `SuspectInv` tie the pending cursor to the record in hand, and `skip_cursor` to a
  cursor that was tried in vain.
* **LogsLoop** (`LogsLoopProofs`), for any number of files, over a queue that keeps the
  same contract:
  `LogsCheckpointCovered`, `LogsOrderKept`, `LogsOncePassStrict`. The inductive `IInv` adds
  what the task holds (`HandInv`: the next batch of its source, and where it counts as
  accepted, one that is received or queued), what `journalctl` has read
  (`JournalInv`), and that before each queued batch, and before each abandoned request,
  nothing of the same source is owed by anybody who comes later (`QueueInv`, `WireInv`).
  `QueueInv` speaks of dead entries too: a failed acknowledgement leaves one on
  disk, a restart revives it, and its repetition must not overtake anything.
  `OnceInv` carries the goal of a single pass through its files.
* **Enrollment** (`EnrollmentProofs`), for every population of keys, roots, namespaces and
  expiries: `EnrollmentAdmittedForCause` and `EnrollmentRefusedForCause` are the two halves of
  "the relay admits exactly those entitled", from lemmas that unfold the chain of checks;
  `EnrollmentExpiredStaysOut` rests on the clock never going back and the expiry checks
  coming before the root store is asked. `EnrollmentOpenIsAdmitted` needs `IInv`: only
  acceptance is answered with "ok". `EnrollmentProjectInNamespace` follows the reading of
  a path character by character (`IsReading`): a project below a namespace is read
  like it up to the slash, where the namespace's directory is reached, and from there
  on each segment is one between two adjacent slashes, hence no dots, and only leads
  down (`WithinLeadsBelow`).
* **RelaySession** (`RelayProofs`), unconditionally: `StreamInv` (the streams in
  being are the first `opened`; the driver queues none before an older one)
  carries `OneSession` and `ServedInOrder`.

* **OrderLemmas** holds what several of them rest on: the least and the greatest element
  of a finite set, how a sum over a directory splits, grows and shrinks, and the two
  inductions the others use in first-order form, on positions (`Climb`) and on the size
  of a set (`SmallerSet`). The library's induction theorems take an operator as parameter,
  which the provers cannot instantiate; these take a set, and what a fold computes
  is reached through the table of its partial results (`SumTableExists`, `LocationReads`).

Every safety property of the passing runs is a theorem. Only model-checked are the liveness
properties, which are out of the prover's reach: `OperationsReturn`, `TickReturns`,
`BacklogDrains`, `LinesDelivered`, `RecordsSettled`, `StreamsSettled`,
`KeepsRegistering` and `EverythingArrives`.

## Findings

1. **A failed roll splits number and descriptor** (`wal.rs:91`, `217`; run
   `wal_roll_fault`). `active_segment` is incremented before the new segment opens.
   If that fails, the next append writes to the old file, indexes the record under
   the new number and returns `Ok`. The next `ack` moves the cursor past its bytes, so
   that a reopen loses it. Until then the entry also stops the queue: once it is the
   head, every `next` fails to open a file that was never created (`wal.rs:132`),
   `enforce_cap` drops only entries of segments it finds in the directory
   (`wal.rs:228`), and both drains end at it (`logs.rs:74`, `export.rs:130`), however
   well disk and collector are by then. The configuration of the run violates
   `Deliverable` too, by the same three operations.
2. **A failed write is not rolled back** (`wal.rs:101`; run `wal_torn_write`). Torn
   bytes of a failed `write_all` stay in front of the next record; the next open
   misreads them, as the comment at `wal.rs:285` describes for crashes.
3. **A cap below the segment size** (`wal.rs:216`; run `wal_small_cap`). The append
   that passes the cap evicts the active segment with the record it has just
   written and returns `Ok`, which the comment at `wal.rs:77` wants to rule out.
4. **First acquaintance is not persisted** (`agent-telemetry/src/logs.rs:67`; run
   `tailer_first_sight`). A new file's start offset is in memory until a batch was
   delivered. If it is rotated, or the agent restarted, before, the source starts
   at the end again and skips what was written meanwhile.

## Limitations the models make precise

* **Truncate and regrow** (`agent-telemetry/src/logs.rs:86`). A file emptied in place, or
  replaced under the same inode, that has grown past the old offset by the next poll is
  read from the old offset. `NothingSkipped` therefore speaks of contents that
  signatures tell apart, and `LinesDelivered` promises only that the tailer gets past
  such lines. No property forbids the skip. Dropping `identity = "distinct"` from `NothingSkipped` makes TLC show
  the skip in a few steps.
* **A backlog waits for a fresh line** (`crossx-agent/src/logs.rs:53`). `drain_wal` runs only in
  `export_records` of a batch that is not empty and that was appended first. On a
  silent host the last batches stay queued after the collector is back; with
  `MaxDrain = 1` the queue would never get shorter. The metrics exporter drains at
  every tick.
* **The claims' version** (`crossx-relay-rs/src/enroll.rs:13`). "Verifiers reject any other
  value", but neither `verify` nor `verify_chain` looks at `v`, which `canonical` signs
  and nothing decides on; it is left out of the model for that reason.
* **Losses the code accepts.** A fresh metrics batch whose append fails is gone
  (`crossx-agent/src/export.rs:115`; `unsaved`), a journal record the logs queue refuses is
  dropped while the checkpoint moves on (`logs.rs:142`; `dropped`), and a healthy
  `journalctl` that exits before its first record makes the next one start from now
  (`logs.rs:545`). The models have these steps and the properties count what is lost as
  settled: they show that nothing else is lost.
* **What a new session does not wait for** (`crossx-agent/src/relay.rs:61`). `OneSession` is
  about the task's own driver and the streams it left; the old socket may still be open
  (`lingering`) while the next session begins. A stream whose header never comes blocks
  the accept loop for as long as its connection holds (`peer.rs:204`).
* **Refused for ever** (`crossx-agent/src/relay.rs:101`). Papers are read once per process and
  every refusal is retried; after an expiry all retries are in vain
  (`ExpiredStaysOut`) until somebody restarts the agent with new files.

## Not modelled

* Power loss. Kills keep what `write` and `rename` did; directory entries are never
  synced by the code, and what a power cut leaves is the file system's business.
* `run --once` beside a running daemon: both open the same directories without a
  lock. `Wal` has one owner.
* A head of the queue that passes its checksum and does not decode: the queue
  holds what the exporter itself encoded.
* The supervisor's join. The three tasks share nothing but the slot and end only with
  errors of their first, synchronous steps (opening the queues, reading the keys);
  a kill at any step, which the models have, is worse.
* Windows' two-step replacement of a checkpoint; signatures from creation times.
* A half-open connection to the relay, which no timeout or keepalive would end, and
  the driver's wait for an outbound stream (`peer.rs:457`), which in an agent happens
  only once, before the first inbound stream.
* TLS, hashing, the bytes of signatures, frames and JSON, OTLP and the sampler:
  conversions without a state of their own, or with a state that belongs to a library
  (the sampler's counters are sysinfo's, including what becomes of the rates of an
  interface that was created anew). (`load_peer_config` omits the field `chain` of the client's
  configuration, so at this commit the binary does not compile; the model is of
  the session logic, which that field does not influence.)

## Plan

Done, in this order: the disk queue, since every promise of the agent ends there; the
exporter above it; the sources that move checkpoints on its word; the relay; the logs
loop that composes sources and queue; the papers a peer presents. What is left, by
what it would add:

1. The queue view of `MetricsExporter` and `LogsLoop` as a refinement: their queue
   implemented by `Wal`'s recoverable records and index. Today the two views
   are related by a contract stated on both sides (`NoTearing`), not by a checked mapping,
   and the losses of findings 1 and 2 do not reach the upper modules.
2. The slot as an abstract specification that `RelaySession` and `MetricsExporter` both
   implement.
3. Two owners of one queue directory (`run --once` beside the daemon).
