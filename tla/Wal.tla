-------------------------------- MODULE Wal --------------------------------
(***************************************************************************)
(* The disk queue of crossx-agent (crates/crossx-agent/src/wal.rs): CRC    *)
(* framed records in numbered segment files, a cursor file naming the      *)
(* first unacknowledged record, and a byte cap that evicts whole segments, *)
(* oldest first.  One owner calls append, next and ack; the process may    *)
(* be killed between any two durable steps and opens the directory again.  *)
(*                                                                         *)
(* Simplifications:                                                        *)
(*  - a payload is the number of the append that wrote it (id); sizes are  *)
(*    abstract bytes, header included;                                     *)
(*  - what write() and rename() did survives the kill of the process; the  *)
(*    loss of un-synced directory entries at a power cut is not modelled;  *)
(*  - the deque `records` is the set of its members, in position order;    *)
(*  - a missing cursor file is the cursor (0, 0): it admits every record;  *)
(*  - bit rot strikes payloads and checksums, never a length field.        *)
(***************************************************************************)
EXTENDS Integers, FiniteSets, FiniteSetsExt

CONSTANTS
    MaxBytes,    \* the configured cap, wal_max_bytes
    SegmentMax,  \* SEGMENT_MAX_BYTES
    MaxSeg,      \* the largest segment number, u64::MAX in the code
    Sizes,       \* record lengths (header + payload) the caller produces
    MaxRecords,  \* bound on the number of appends
    Faults       \* the file-system operations that may return an error

FaultKinds == {"roll", "write", "sync", "cursor", "remove", "rot"}

ASSUME CapAssumption == MaxBytes \in Nat /\ SegmentMax \in Nat
ASSUME SegAssumption == MaxSeg \in Nat
ASSUME SizesAssumption == Sizes \subseteq Nat \ {0}
ASSUME RecordsAssumption == MaxRecords \in Nat
ASSUME FaultsAssumption == Faults \subseteq FaultKinds

VARIABLES
    \* the directory
    linked,    \* numbers of the segment files present
    len,       \* len[s]: length of segment file s, 0 when there is none
    valid,     \* valid[s]: end of the whole records a scan of s can walk
    disk,      \* the whole records in the files
    dcursor,   \* content of the cursor file
    \* the Wal value, meaningless while pc = "down"
    pc,        \* what the owner is executing
    job,       \* id of the append being executed, 0 if none
    active,    \* active_segment
    handle,    \* the segment file that active_file is a descriptor of
    records,   \* records, the pending index
    \* history
    nextId,    \* id of the next append
    accepted,  \* appends that returned Ok
    acked,     \* records handed to ack as the head of the queue
    evicted,   \* records deleted, unacknowledged, to enforce the cap
    corrupt    \* records whose bytes rotted on disk

dirVars == <<linked, len, valid, disk, dcursor>>
memVars == <<pc, job, active, handle, records>>
histVars == <<nextId, accepted, acked, evicted, corrupt>>
vars == <<dirVars, memVars, histVars>>

Segs == 0..MaxSeg
Ids == 1..MaxRecords

Record == [id : Ids, seg : Segs, off : Nat, len : Sizes]
Position == [seg : Segs, off : Nat]

\* p lies before q in the queue; a record counts as its position.
Before(p, q) == p.seg < q.seg \/ (p.seg = q.seg /\ p.off < q.off)

IdsOf(R) == {r.id : r \in R}
Front(R) == CHOOSE r \in R : \A q \in R : ~Before(q, r)

\* total_segment_bytes over the segments in the directory.
TotalBytes == SumFunctionOnSet(len, linked)

\* Mutants of HeadCursor: the head is forgotten; the end is the start.
HeadCursorAtEnd == [seg |-> active, off |-> len[handle]]
HeadCursorAtStart ==
    IF records # {}
    THEN [seg |-> Front(records).seg, off |-> Front(records).off]
    ELSE [seg |-> active, off |-> 0]

\* Where the cursor goes: the head of the queue, or the end of the open file.
HeadCursor ==
    IF records # {}
    THEN [seg |-> Front(records).seg, off |-> Front(records).off]
    ELSE [seg |-> active, off |-> len[handle]]

\* What opening the directory now would put in the queue.
Recoverable ==
    {r \in disk : r.seg \in linked /\ r.off < valid[r.seg] /\ ~Before(r, dcursor)}

Init ==
    /\ linked = {} /\ disk = {}
    /\ len = [s \in Segs |-> 0] /\ valid = [s \in Segs |-> 0]
    /\ dcursor = [seg |-> 0, off |-> 0]
    /\ pc = "down" /\ job = 0 /\ active = 0 /\ handle = 0 /\ records = {}
    /\ nextId = 1
    /\ accepted = {} /\ acked = {} /\ evicted = {} /\ corrupt = {}

-----------------------------------------------------------------------------
(* Appending *)

NeedsRoll(n) == len[handle] > 0 /\ len[handle] + n > SegmentMax

\* The number the index will hold for the next record of length n, the file
\* its bytes go to, and their offset there.
Target(n) ==
    IF NeedsRoll(n) THEN [seg |-> active + 1, file |-> active + 1, off |-> 0]
                    ELSE [seg |-> active, file |-> handle, off |-> len[handle]]

\* Mutants of CanAppend: checked_add, or the size check, is left out.
CanAppendUnchecked(n) == pc = "idle" /\ nextId <= MaxRecords /\ n <= MaxBytes
CanAppendAnySize(n) ==
    /\ pc = "idle" /\ nextId <= MaxRecords
    /\ NeedsRoll(n) => active < MaxSeg

CanAppend(n) ==
    /\ pc = "idle" /\ nextId <= MaxRecords
    /\ n <= MaxBytes
    /\ NeedsRoll(n) => active < MaxSeg

\* Roll if needed, then k of the record's n bytes reach the file.  A record
\* that does not start where the scannable part ends cannot be scanned; one
\* written through a descriptor of a deleted file is in no directory.
Write(n, k) ==
    LET t == Target(n) IN
    /\ linked' = IF NeedsRoll(n) THEN linked \cup {t.file} ELSE linked
    /\ len' = [len EXCEPT ![t.file] = t.off + k]
    /\ valid' = [valid EXCEPT ![t.file] =
                    IF k = n /\ @ = t.off THEN t.off + n ELSE @]
    /\ disk' = IF k = n /\ t.file \in linked'
               THEN disk \cup {[id |-> nextId, seg |-> t.file, off |-> t.off, len |-> n]}
               ELSE disk
    /\ nextId' = nextId + 1
    /\ UNCHANGED <<dcursor, accepted, acked, evicted, corrupt>>

\* append up to push_back; enforce_cap follows.
Append(n) ==
    /\ CanAppend(n)
    /\ Write(n, n)
    /\ LET t == Target(n) IN
        /\ active' = t.seg /\ handle' = t.file
        /\ records' = records \cup
               {[id |-> nextId, seg |-> t.seg, off |-> t.off, len |-> n]}
    /\ pc' = "cap" /\ job' = nextId

\* A write (k < n) or the sync (k = n) fails: append returns the error at
\* once and leaves the file as it is.
AppendFails(n, k) ==
    /\ CanAppend(n)
    /\ (IF k < n THEN "write" ELSE "sync") \in Faults
    /\ Write(n, k)
    /\ active' = Target(n).seg /\ handle' = Target(n).file
    /\ UNCHANGED <<pc, job, records>>

\* Opening the fresh segment fails after active_segment was incremented.
RollFails(n) ==
    /\ CanAppend(n) /\ NeedsRoll(n) /\ "roll" \in Faults
    /\ active' = active + 1
    /\ nextId' = nextId + 1
    /\ UNCHANGED <<dirVars, pc, job, handle, records, accepted, acked, evicted, corrupt>>

\* The process is killed with k of the bytes written.
AppendCrash(n, k) ==
    /\ CanAppend(n)
    /\ Write(n, k)
    /\ pc' = "down" /\ job' = 0 /\ active' = 0 /\ handle' = 0 /\ records' = {}

-----------------------------------------------------------------------------
(* enforce_cap: at "cap" the loop condition is evaluated, at "evicted" a    *)
(* segment is gone and the cursor not yet persisted.                        *)

\* Mutants: the open segment is not counted; the listing is in the wrong order.
OverCapClosedOnly == SumFunctionOnSet(len, linked \ {active}) > MaxBytes /\ linked # {}
Newest == Max(linked)

OverCap == TotalBytes > MaxBytes /\ linked # {}
Oldest == Min(linked)

\* Mutant of Unlink: the file is left in the directory.
UnlinkNothing(s) == s \in linked /\ UNCHANGED <<linked, disk, len, valid>>

\* The file of segment s is unlinked.
Unlink(s) ==
    /\ linked' = linked \ {s}
    /\ disk' = {r \in disk : r.seg # s}
    /\ len' = [len EXCEPT ![s] = IF s = handle THEN @ ELSE 0]
    /\ valid' = [valid EXCEPT ![s] = IF s = handle THEN @ ELSE 0]

CapRoll ==
    /\ pc = "cap" /\ OverCap /\ Oldest = active /\ active < MaxSeg
    /\ active' = active + 1 /\ handle' = active + 1
    /\ linked' = linked \cup {active + 1}
    /\ UNCHANGED <<len, valid, disk, dcursor, pc, job, records, histVars>>

CapEvict ==
    /\ pc = "cap" /\ OverCap /\ Oldest # active
    /\ Unlink(Oldest)
    /\ records' = {r \in records : r.seg # Oldest}
    /\ evicted' = evicted \cup (IdsOf({r \in Recoverable : r.seg = Oldest}) \ acked)
    /\ pc' = "evicted"
    /\ UNCHANGED <<dcursor, job, active, handle, nextId, accepted, acked, corrupt>>

CapPersist ==
    /\ pc = "evicted"
    /\ dcursor' = HeadCursor
    /\ pc' = "cap"
    /\ UNCHANGED <<linked, len, valid, disk, job, active, handle, records, histVars>>

\* append (or open) returns Ok.
CapDone ==
    /\ pc = "cap" /\ ~OverCap
    /\ accepted' = accepted \cup ({job} \ {0})
    /\ pc' = "idle" /\ job' = 0
    /\ UNCHANGED <<dirVars, active, handle, records, nextId, acked, evicted, corrupt>>

-----------------------------------------------------------------------------
(* Consuming *)

\* The entry next would return: its bytes are where the index says.
Readable(r) == r \in disk

\* ack of the entry next returned: the head leaves the index.
AckPop ==
    /\ pc = "idle" /\ records # {}
    /\ LET r == Front(records) IN
        /\ Readable(r) /\ r.id \notin corrupt
        /\ records' = records \ {r}
        /\ acked' = acked \cup {r.id}
    /\ pc' = "popped"
    /\ UNCHANGED <<dirVars, job, active, handle, nextId, accepted, evicted, corrupt>>

\* Mutant: the cursor update is skipped.
AckForget ==
    /\ pc = "popped"
    /\ pc' = "persisted"
    /\ UNCHANGED <<dirVars, job, active, handle, records, histVars>>

AckPersist ==
    /\ pc = "popped"
    /\ dcursor' = HeadCursor
    /\ pc' = "persisted"
    /\ UNCHANGED <<linked, len, valid, disk, job, active, handle, records, histVars>>

\* Mutant: the segment the cursor is in goes too.
AckedThrough == {s \in linked : s <= dcursor.seg /\ s # active}

\* delete_fully_acked_segments, one file at a time in ascending order.
FullyAcked == {s \in linked : s < dcursor.seg /\ s # active}

AckDelete ==
    /\ pc = "persisted" /\ FullyAcked # {}
    /\ Unlink(Min(FullyAcked))
    /\ UNCHANGED <<dcursor, memVars, histVars>>

AckDone ==
    /\ pc = "persisted" /\ FullyAcked = {}
    /\ pc' = "idle"
    /\ UNCHANGED <<dirVars, job, active, handle, records, histVars>>

\* Mutant: the head is dropped before its checksum is compared.
SkipUnchecked ==
    /\ pc = "idle" /\ records # {}
    /\ records' = records \ {Front(records)}
    /\ UNCHANGED <<dirVars, pc, job, active, handle, histVars>>

\* next drops a head whose checksum does not match, in memory only.
SkipCorrupt ==
    /\ pc = "idle" /\ records # {}
    /\ LET r == Front(records) IN
        /\ Readable(r) /\ r.id \in corrupt
        /\ records' = records \ {r}
    /\ UNCHANGED <<dirVars, pc, job, active, handle, histVars>>

-----------------------------------------------------------------------------
(* Failure in the middle of an operation, crash and reopen *)

Forget == job' = 0 /\ active' = 0 /\ handle' = 0 /\ records' = {}

\* The operation returns an error: append and ack to their caller, open by
\* ending the agent.
ReturnError ==
    IF job = 0 /\ pc \in {"cap", "evicted"}
    THEN pc' = "down" /\ Forget
    ELSE pc' = "idle" /\ job' = 0 /\ UNCHANGED <<active, handle, records>>

\* A deletion or the cursor update fails; nothing has changed by then.
OpFails ==
    /\ \/ pc = "cap" /\ OverCap /\ Oldest # active /\ "remove" \in Faults
       \/ pc \in {"evicted", "popped"} /\ "cursor" \in Faults
       \/ pc = "persisted" /\ FullyAcked # {} /\ "remove" \in Faults
    /\ ReturnError
    /\ UNCHANGED <<dirVars, histVars>>

\* "WAL segment sequence exhausted" in enforce_cap.
CapExhausted ==
    /\ pc = "cap" /\ OverCap /\ Oldest = active /\ active = MaxSeg
    /\ ReturnError
    /\ UNCHANGED <<dirVars, histVars>>

\* enforce_cap's fresh segment does not open; active_segment was incremented.
\* (When open was running, this is Crash.)
CapRollFails ==
    /\ pc = "cap" /\ job # 0 /\ OverCap /\ Oldest = active /\ active < MaxSeg
    /\ "roll" \in Faults
    /\ active' = active + 1
    /\ pc' = "idle" /\ job' = 0
    /\ UNCHANGED <<dirVars, handle, records, histVars>>

\* The process is killed, or open failed and the agent exits.
Crash ==
    /\ pc # "down"
    /\ pc' = "down" /\ Forget
    /\ UNCHANGED <<dirVars, histVars>>

\* Records a torn write hides from the scan of s.
Buried(s) == {r \in disk : r.seg = s /\ r.off >= valid[s]}

\* scan_segment of s, torn or not: the offset from which buried records are
\* indexed and the file's length afterwards.  The torn header reads as the
\* header of a longer record; either that runs past the end of the file,
\* which is then cut there, or it swallows at least the next record and the
\* scan resumes behind what it swallowed.
Scan(s) ==
    IF s \notin linked THEN {[from |-> 0, end |-> 0]}
    ELSE IF Buried(s) = {} THEN {[from |-> len[s], end |-> valid[s]]}
    ELSE {[from |-> len[s], end |-> valid[s]], [from |-> len[s], end |-> len[s]]}
         \cup {[from |-> r.off, end |-> len[s]] :
                 r \in {q \in Buried(s) : \E p \in Buried(s) : Before(p, q)}}

\* Mutant: the listing is not sorted.
FirstSegment(S) == Min(S)

LastSegment(S) == Max(S)

Open ==
    /\ pc = "down"
    /\ LET found == IF linked = {} THEN {0} ELSE linked IN
       \E scan \in [found -> UNION {Scan(s) : s \in found}] :
        /\ \A s \in found : scan[s] \in Scan(s)
        /\ linked' = found
        /\ active' = LastSegment(found) /\ handle' = LastSegment(found)
        /\ len' = [s \in Segs |-> IF s \in linked THEN scan[s].end ELSE 0]
        /\ valid' = len'
        /\ disk' = {r \in disk : r.seg \in linked /\
                       (r.off < valid[r.seg] \/ r.off >= scan[r.seg].from)}
        /\ records' = {r \in disk' : ~Before(r, dcursor)}
    /\ pc' = "cap" /\ job' = 0
    /\ UNCHANGED <<dcursor, histVars>>

\* The environment: a stored payload loses its checksum.
Rot ==
    /\ "rot" \in Faults
    /\ \E r \in disk : r.id \notin corrupt /\ corrupt' = corrupt \cup {r.id}
    /\ UNCHANGED <<dirVars, memVars, nextId, accepted, acked, evicted>>

-----------------------------------------------------------------------------
\* What the code does once it is inside an operation, whoever calls it.
Internal ==
    \/ CapRoll \/ CapEvict \/ CapPersist \/ CapDone \/ CapExhausted
    \/ AckPersist \/ AckDelete \/ AckDone

Next ==
    \/ \E n \in Sizes : Append(n) \/ RollFails(n)
    \/ \E n \in Sizes : \E k \in 0..n : AppendFails(n, k) \/ AppendCrash(n, k)
    \/ Internal
    \/ AckPop \/ SkipCorrupt
    \/ OpFails \/ CapRollFails \/ Crash \/ Open \/ Rot

Spec == Init /\ [][Next]_vars

\* An operation that was called is executed: nothing in it waits.
FairSpec == Spec /\ WF_vars(Internal)
-----------------------------------------------------------------------------
(* Properties *)

TypeOK ==
    /\ linked \subseteq Segs
    /\ len \in [Segs -> Nat] /\ valid \in [Segs -> Nat]
    /\ disk \subseteq Record /\ dcursor \in Position
    /\ pc \in {"down", "idle", "cap", "evicted", "popped", "persisted"}
    /\ job \in Ids \cup {0}
    /\ active \in Segs /\ handle \in Segs
    /\ records \subseteq Record
    /\ nextId \in 1..(MaxRecords + 1)
    /\ accepted \subseteq Ids /\ acked \subseteq Ids
    /\ evicted \subseteq Ids /\ corrupt \subseteq Ids

\* Records the queue answers for: append returned Ok, the consumer has not
\* acknowledged them, the cap has not evicted them, the disk has kept them.
Owed == accepted \ (acked \cup evicted \cup corrupt)

\* append "appends and durably flushes": whatever the instant at which the
\* process dies, reopening the directory finds every record that is owed
\* (wal.rs: append, ack, enforce_cap, open).
Durable == Owed \subseteq IdsOf(Recoverable)

\* No record waits for a restart, and none stops those behind it: while the
\* process runs, every owed record is in the pending index, and whatever is in
\* the index is where next looks for it (wal.rs: append, next, enforce_cap).
Deliverable ==
    pc # "down" => Owed \subseteq IdsOf(records) /\ \A r \in records : Readable(r)

\* The comment in append: an append never evicts the record it just wrote and
\* still returns Ok, so a caller may advance its checkpoints on Ok.
AppendKeepsItsRecord ==
    [][\A i \in accepted' \ accepted : i \in IdsOf(records')]_vars

\* Strict FIFO backfill: position order in the segment files is append order,
\* through rolls, evictions, torn tails and reopens.
Fifo == \A p, q \in Recoverable : Before(p, q) => p.id < q.id

\* At-least-once, but barely: a reopened queue offers at most one record that
\* had been acknowledged, the one whose cursor update the crash prevented.
AtMostOneReplay == Cardinality({r \in records : r.id \in acked}) <= 1

\* What the directory may hold between two appends, and what one may add.
Room == Max({MaxBytes, SegmentMax})
Spare == Max({n \in Sizes : n <= MaxBytes} \cup {0})

\* The directory stays within the cap, or a segment where that is more, plus the
\* record being appended, however often the process crashes and reopens and
\* segments cannot be opened: torn tails never pile up.
DiskBounded == TotalBytes <= Room + Spare

\* The persisted cursor never moves backwards, so no step re-exposes records
\* behind it (wal.rs: ack, enforce_cap, open).
CursorAdvances == [][~Before(dcursor', dcursor)]_vars

\* Every append, ack and open returns: enforce_cap's loop, which may create
\* the segment it then spares, and the deletion loop of ack terminate.
OperationsReturn ==
    (pc \in {"cap", "evicted", "popped", "persisted"}) ~> (pc \in {"idle", "down"})

-----------------------------------------------------------------------------
(* The structure that makes the properties inductive, in a process whose     *)
(* segment files open and whose writes are whole or followed by a restart.   *)

NoTearing == Faults \cap {"roll", "write"} = {}

\* A record on disk is in a file of the directory, inside the part a scan
\* walks, and carries an id that was used; the order of positions is the
\* order of ids.
DiskInv ==
    /\ \A r \in disk : r.seg \in linked /\ r.off < valid[r.seg] /\ r.id < nextId
    /\ \A p, q \in disk :
           p = q \/ (Before(p, q) /\ p.id < q.id) \/ (Before(q, p) /\ q.id < p.id)
    /\ \A s \in Segs : valid[s] <= len[s] /\ (s \notin linked => len[s] = 0)

\* The open file is the newest of the directory and, while the process runs,
\* no file has a torn tail.
ActiveInv ==
    pc # "down" =>
        /\ handle = active /\ active \in linked
        /\ \A s \in linked : s <= active /\ valid[s] = len[s]

\* The persisted cursor does not point past the place of the next record.
CursorInv ==
    /\ linked = {} => dcursor = [seg |-> 0, off |-> 0]
    /\ linked # {} => \E s \in linked : dcursor.seg <= s
    /\ dcursor.seg \in linked => dcursor.off <= valid[dcursor.seg]

\* The index holds records a reopen would find, and every one of those that
\* is still owed or being appended.
IndexInv ==
    /\ records \subseteq Recoverable
    /\ pc # "down" => \A r \in Recoverable :
           r.id \in (accepted \cup {job}) \ (acked \cup corrupt) => r \in records

\* The record of the append being executed is in the index unless the cap
\* evicted it, and ids are used once.
JobInv ==
    /\ job # 0 => /\ pc \in {"cap", "evicted"} /\ job \notin acked
                  /\ job \in IdsOf(records) \cup evicted
    /\ job < nextId
    /\ \A i \in accepted \cup acked : i < nextId

IInv ==
    /\ TypeOK /\ DiskInv /\ ActiveInv /\ CursorInv /\ IndexInv /\ JobInv
    /\ Durable

\* With segments no larger than the cap, no file ever outgrows the cap and the
\* record being appended stays in the open segment, which is never the oldest
\* of a directory over its cap.
RoomInv ==
    /\ \A s \in Segs : len[s] <= MaxBytes
    /\ job # 0 => \E r \in records : r.id = job /\ r.seg = active

\* An operation may fail only where a segment file is opened or removed.
OnlySegmentsFail == Faults \subseteq {"roll", "remove"}

\* Nothing is written behind the active segment, or in front of what a file
\* holds, even while active_segment and active_file have parted.
PlaceInv ==
    /\ \A d \in disk : d.seg \in linked /\ d.off < valid[d.seg] /\ d.id < nextId
    /\ \A p, q \in disk :
           p = q \/ (Before(p, q) /\ p.id < q.id) \/ (Before(q, p) /\ q.id < p.id)
    /\ pc # "down" =>
           /\ handle <= active
           /\ \A s \in linked : s <= handle /\ valid[s] = len[s]
           /\ \A s \in Segs : s > active => len[s] = 0 /\ valid[s] = 0

\* The index is in append order and places no record in front of where it, or
\* an older one, is on disk; on disk there is nothing younger that it lacks.
QueueInv ==
    /\ pc = "down" => records = {}
    /\ \A x \in records :
           /\ x.id < nextId
           /\ x.seg < active \/ (x.seg = active /\ x.off < len[handle])
    /\ \A x, y \in records :
           x = y \/ (Before(x, y) /\ x.id < y.id) \/ (Before(y, x) /\ y.id < x.id)
    /\ \A d \in disk, x \in records :
           /\ d.id <= x.id => d = x \/ Before(d, x)
           /\ x.id < d.id => d.id \in IdsOf(records)

\* What a reopen would find is in the index, but for the head an ack has just
\* taken.
GapInv ==
    pc # "down" => \A r \in Recoverable :
        \/ r.id \in IdsOf(records)
        \/ pc = "popped" /\ \A x \in records : r.id < x.id

\* What was acknowledged is the oldest of what a reopen would find, and the
\* oldest of the index, or older.
ReplayInv ==
    /\ PlaceInv /\ QueueInv /\ GapInv
    /\ corrupt = {} /\ \A i \in acked : i < nextId
    /\ \A r, q \in Recoverable : r.id \in acked => q = r \/ Before(r, q)
    /\ \A d \in disk, x \in records : d.id \in acked => d = x \/ d.id < x.id
    /\ \A x, y \in records : x.id \in acked => x.id <= y.id

\* An operation may fail only where a segment file is opened.
OnlyOpeningFails == Faults \subseteq {"roll", "rot"}

\* Between operations the directory is within its room, as is every file; no
\* segment is newer than the active one, and the next one starts empty.
SizeInv ==
    /\ pc \in {"idle", "popped", "persisted"} => TotalBytes <= Room
    /\ \A s \in Segs : valid[s] <= len[s] /\ len[s] <= Room
    /\ pc # "down" =>
           /\ handle <= active
           /\ \A s \in linked : s <= active
           /\ \A s \in Segs : s > active => len[s] = 0
=============================================================================
