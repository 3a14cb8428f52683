----------------------------- MODULE FileTailer -----------------------------
(***************************************************************************)
(* One tailed log file: FileTailer (crates/agent-telemetry/src/logs.rs)    *)
(* under FileSource::poll_into (crates/crossx-agent/src/logs.rs), and the  *)
(* program that writes, truncates and rotates the file meanwhile.  A poll  *)
(* stats the path, opens and reads it, hands the complete lines to the     *)
(* exporter and, once they are accepted, persists a checkpoint: an offset  *)
(* and the signature (device and inode) of the file it belongs to.         *)
(*                                                                         *)
(* Simplifications:                                                        *)
(*  - the file is a run of bytes numbered in the order they were written   *)
(*    to the path: those after `base`, up to `written`; `ends` are the     *)
(*    newlines among them;                                                 *)
(*  - what an open file descriptor reads is read at the open;              *)
(*  - the checkpoint file is replaced by one rename, as on Unix;           *)
(*  - LogsExporter::export_records either accepts the batch or not.        *)
(***************************************************************************)
EXTENDS Integers, FiniteSets, FiniteSetsExt

CONSTANTS
    MaxBytes,    \* bound on the bytes written
    MaxFiles,    \* bound on the files created
    MaxCrashes,  \* bound on the restarts of the agent
    Window,      \* MAX_POLL_BYTES
    MaxRecords,  \* MAX_POLL_RECORDS
    Known,       \* whether the agent has a checkpoint of the first file
    Rotations    \* how the writer rotates: "rename", "truncate", "reuse"

ASSUME BoundsAssumption ==
    MaxBytes \in Nat /\ MaxFiles \in Nat \ {0} /\ MaxCrashes \in Nat
ASSUME PollAssumption == Window \in Nat \ {0} /\ MaxRecords \in Nat \ {0}
ASSUME KnownAssumption == Known \in BOOLEAN
ASSUME RotationsAssumption == Rotations \subseteq {"rename", "truncate", "reuse"}

VARIABLES
    \* the file at the path
    inode,      \* its signature, 0 while there is no file
    files,      \* signatures given out so far
    base,       \* bytes written to earlier contents of the path
    written,    \* bytes written in all
    ends,       \* bytes that are newlines
    \* the source and its tailer
    pc,         \* where poll_into is: "idle", "read", "export", "persist"
    tailer,     \* FileSource::tailer, "none" or "some"
    offset,     \* FileTailer::offset
    signature,  \* FileTailer::signature
    start,      \* start_offset of the poll; then pending_offset
    polled,     \* the signature the poll saw, pending_signature
    batch,      \* bytes of the records returned by poll
    checkpoint, \* the checkpoint file; signature 0 when there is none
    \* history
    crashes,    \* restarts so far
    firstSeen,  \* bytes that precede the agent's acquaintance with the file;
                \* Unseen when it has not met it
    delivered,  \* bytes accepted by the exporter
    identity    \* "distinct" until two contents of the path share a signature

fileVars == <<inode, files, base, written, ends>>
pollVars == <<pc, start, polled, batch>>
tailerVars == <<tailer, offset, signature>>
histVars == <<crashes, firstSeen, delivered, identity>>
vars == <<fileVars, pollVars, tailerVars, checkpoint, histVars>>

Bytes == 1..MaxBytes
Unseen == -1

\* metadata.len() of the file at the path.
FileLen == written - base

Init ==
    /\ inode = 1 /\ files = 1 /\ base = 0 /\ written = 0 /\ ends = {}
    /\ pc = "idle" /\ start = 0 /\ polled = 0 /\ batch = {}
    /\ tailer = "none" /\ offset = 0 /\ signature = 0
    /\ checkpoint = [offset |-> 0, signature |-> IF Known THEN 1 ELSE 0]
    /\ crashes = 0 /\ delivered = {} /\ identity = "distinct"
    /\ firstSeen = IF Known THEN 0 ELSE Unseen

-----------------------------------------------------------------------------
(* FileTailer::new *)

\* Where a tailer created now would start.
InitialOffset ==
    IF checkpoint.signature = 0 THEN FileLen
    ELSE IF checkpoint.signature = inode /\ checkpoint.offset <= FileLen
    THEN checkpoint.offset
    ELSE 0

OpenTailer ==
    /\ pc = "idle" /\ tailer = "none" /\ inode # 0
    /\ tailer' = "some" /\ offset' = InitialOffset /\ signature' = inode
    /\ firstSeen' = IF firstSeen = Unseen THEN written ELSE firstSeen
    /\ UNCHANGED <<fileVars, pollVars, checkpoint, crashes, delivered, identity>>

\* poll's stat or open does not find the file: the source drops its tailer.
DropTailer ==
    /\ pc \in {"idle", "read"} /\ tailer = "some" /\ inode = 0
    /\ tailer' = "none" /\ offset' = 0 /\ signature' = 0
    /\ pc' = "idle" /\ start' = 0 /\ polled' = 0
    /\ UNCHANGED <<fileVars, batch, checkpoint, histVars>>

-----------------------------------------------------------------------------
(* FileTailer::poll *)

\* Where a poll that stats the file now would start.
StartOffset == IF inode # signature \/ FileLen < offset THEN 0 ELSE offset

Stat ==
    /\ pc = "idle" /\ tailer = "some" /\ inode # 0
    /\ pc' = "read" /\ start' = StartOffset /\ polled' = inode
    /\ UNCHANGED <<fileVars, tailerVars, batch, checkpoint, histVars>>

\* Mutants of Consumed: the newline is counted twice; a line that exceeds the
\* window is never split.
ConsumedNewlineTwice(from, to) ==
    LET E == ends \cap (from + 1)..to
        full == {e \in E : Cardinality({f \in E : f <= e}) <= MaxRecords} IN
    IF E # {} THEN Max(full) + 1
    ELSE IF to - from = Window THEN to
    ELSE from
ConsumedWhole(from, to) ==
    LET E == ends \cap (from + 1)..to
        full == {e \in E : Cardinality({f \in E : f <= e}) <= MaxRecords} IN
    IF E # {} THEN Max(full) ELSE from

\* The last byte consumed of the window (from, to]: the last complete line the
\* record cap admits, or all of a full window inside one line.
Consumed(from, to) ==
    LET E == ends \cap (from + 1)..to
        full == {e \in E : Cardinality({f \in E : f <= e}) <= MaxRecords} IN
    IF E # {} THEN Max(full)
    ELSE IF to - from = Window THEN to
    ELSE from

\* The file that is at the path by now is opened and read at start_offset.
Read ==
    /\ pc = "read" /\ inode # 0
    /\ LET from == base + start
           to   == Min({from + Window, written})
           end  == IF from < to THEN Consumed(from, to) ELSE from IN
        /\ batch' = (from + 1)..end
        /\ start' = start + (end - from)
        /\ pc' = IF end = from THEN "idle" ELSE "export"
    /\ UNCHANGED <<fileVars, polled, tailerVars, checkpoint, histVars>>

-----------------------------------------------------------------------------
(* FileSource::poll_into after the poll *)

Return == pc' = "idle" /\ start' = 0 /\ polled' = 0 /\ batch' = {}

ExportOk ==
    /\ pc = "export"
    /\ delivered' = delivered \cup batch
    /\ pc' = "persist"
    /\ UNCHANGED <<fileVars, start, polled, batch, tailerVars, checkpoint,
                   crashes, firstSeen, identity>>

\* Mutant of ExportFails: the error is swallowed.
ExportFailsSilently ==
    /\ pc = "export"
    /\ pc' = "persist"
    /\ UNCHANGED <<fileVars, start, polled, batch, tailerVars, checkpoint, histVars>>

\* The same lines are read again by the next poll.
ExportFails ==
    /\ pc = "export"
    /\ Return
    /\ UNCHANGED <<fileVars, tailerVars, checkpoint, histVars>>

\* Mutant of Persist: the checkpoint is written only when the file changed.
PersistRotation ==
    /\ pc = "persist"
    /\ checkpoint' = IF polled # signature
                     THEN [offset |-> start, signature |-> polled] ELSE checkpoint
    /\ offset' = start /\ signature' = polled
    /\ Return
    /\ UNCHANGED <<fileVars, tailer, histVars>>

Persist ==
    /\ pc = "persist"
    /\ checkpoint' = [offset |-> start, signature |-> polled]
    /\ offset' = start /\ signature' = polled
    /\ Return
    /\ UNCHANGED <<fileVars, tailer, histVars>>

PersistFails ==
    /\ pc = "persist"
    /\ Return
    /\ UNCHANGED <<fileVars, tailerVars, checkpoint, histVars>>

\* The agent is killed and started again.  Without a checkpoint it is about to
\* see the file for the first time.
Restart ==
    /\ crashes < MaxCrashes /\ crashes' = crashes + 1
    /\ tailer' = "none" /\ offset' = 0 /\ signature' = 0
    /\ Return
    /\ firstSeen' = IF checkpoint.signature = 0 THEN Unseen ELSE firstSeen
    /\ UNCHANGED <<fileVars, checkpoint, delivered, identity>>

-----------------------------------------------------------------------------
(* The program that owns the log file *)

Append ==
    /\ inode # 0 /\ written < MaxBytes
    /\ written' = written + 1
    /\ \E newline \in BOOLEAN :
          ends' = IF newline THEN ends \cup {written'} ELSE ends
    /\ UNCHANGED <<inode, files, base, pollVars, tailerVars, checkpoint, histVars>>

\* The file is renamed away, or deleted.
Remove ==
    /\ inode # 0
    /\ \/ "rename" \in Rotations /\ files < MaxFiles
       \/ "reuse" \in Rotations
    /\ inode' = 0
    /\ UNCHANGED <<files, base, written, ends, pollVars, tailerVars, checkpoint, histVars>>

\* An empty file takes its place.  A file system may give it the inode of a
\* file that no longer exists.
Create ==
    /\ inode = 0
    /\ \/ /\ files < MaxFiles /\ inode' = files + 1 /\ files' = files + 1
          /\ UNCHANGED identity
       \/ /\ "reuse" \in Rotations /\ inode' \in 1..files /\ UNCHANGED files
          /\ identity' = "shared"
    /\ base' = written
    /\ UNCHANGED <<written, ends, pollVars, tailerVars, checkpoint,
                   crashes, firstSeen, delivered>>

\* copytruncate: the same file is emptied.
Truncate ==
    /\ "truncate" \in Rotations /\ inode # 0
    /\ base' = written /\ identity' = "shared"
    /\ UNCHANGED <<inode, files, written, ends, pollVars, tailerVars, checkpoint,
                   crashes, firstSeen, delivered>>

-----------------------------------------------------------------------------
Poll == OpenTailer \/ DropTailer \/ Stat \/ Read

Next ==
    \/ Poll
    \/ ExportOk \/ ExportFails \/ Persist \/ PersistFails
    \/ Restart
    \/ Append \/ Remove \/ Create \/ Truncate

Spec == Init /\ [][Next]_vars

\* The loop polls every source at each tick; the collector or the disk queue
\* accepts a batch now and then, and a checkpoint can be written now and then.
FairSpec == Spec /\ WF_vars(Poll) /\ SF_vars(ExportOk) /\ SF_vars(Persist)
-----------------------------------------------------------------------------
(* Properties *)

TypeOK ==
    /\ inode \in 0..MaxFiles /\ files \in 1..MaxFiles
    /\ base \in 0..written /\ written \in 0..MaxBytes /\ ends \subseteq 1..written
    /\ pc \in {"idle", "read", "export", "persist"}
    /\ tailer \in {"none", "some"}
    /\ offset \in 0..MaxBytes /\ start \in 0..MaxBytes
    /\ signature \in 0..MaxFiles /\ polled \in 0..MaxFiles
    /\ batch \subseteq 1..written
    /\ checkpoint \in [offset : 0..MaxBytes, signature : 0..MaxFiles]
    /\ crashes \in 0..MaxCrashes
    /\ firstSeen \in Unseen..MaxBytes /\ delivered \subseteq 1..written
    /\ identity \in {"distinct", "shared"}

\* Where the source will resume, with the tailer it has or the one it creates.
ResumeOffset == IF tailer = "some" THEN StartOffset ELSE InitialOffset

\* "so nothing is skipped": the next poll starts no later than the first byte
\* that was written since the agent met the file and is not yet delivered,
\* whatever failed, crashed or was rotated in between, as long as the contents
\* of the path could be told apart by their signatures.
NothingSkipped ==
    (identity = "distinct" /\ inode # 0 /\ firstSeen # Unseen) =>
        \A b \in (base + 1)..(base + ResumeOffset) : b > firstSeen => b \in delivered

\* A line of the file that is there to be read, none of whose predecessors the
\* agent may ignore, is delivered unless the file is rotated away first: long
\* lines, record floods and failed checkpoints never stall the tailer.  Where
\* the agent cannot tell new contents from old, it still gets past every line:
\* it never waits behind the end of a file that was truncated under it.
LinesDelivered ==
    \A b \in Bytes :
        (b \in ends /\ firstSeen \in 0..(b - 1))
            ~> (\/ b \in delivered \/ b <= base \/ inode = 0
                \/ identity = "shared" /\ b <= base + offset /\ offset <= FileLen)

\* A restart replays little: what is delivered beyond the checkpoint of the
\* present file never exceeds what two polls return, in bytes and in lines (one
\* poll when no rotation raced it).
ReplayBounded ==
    LET replayed == {b \in delivered : b > base + checkpoint.offset} IN
    checkpoint.signature = inode =>
        /\ Cardinality(replayed) <= 2 * Window
        /\ Cardinality(replayed \cap ends) <= 2 * MaxRecords

-----------------------------------------------------------------------------
(* The structure that makes NothingSkipped inductive, for a file the agent   *)
(* knows.                                                                    *)

\* If sig is the signature of the present file, the off bytes it starts with
\* exist and are all in D.
Covered(sig, off, D) ==
    (inode # 0 /\ sig = inode) =>
        off <= FileLen /\ \A b \in (base + 1)..(base + off) : b \in D

\* While signatures tell contents apart, the present file is the newest and
\* nothing refers to a file that never was.
AgeInv ==
    /\ firstSeen = 0 /\ inode <= files
    /\ checkpoint.signature \in 1..files
    /\ signature <= files /\ polled <= files
    /\ pc # "idle" => polled # 0
    /\ identity = "distinct" => inode \in {0, files}

\* Every offset the tailer may start from, in memory, in a poll or on disk, has
\* only delivered bytes before it, the batch in hand counting as delivered.
CoverInv ==
    identity = "distinct" =>
        /\ Covered(checkpoint.signature, checkpoint.offset, delivered)
        /\ tailer = "some" => Covered(signature, offset, delivered)
        /\ pc \in {"read", "persist"} => Covered(polled, start, delivered)
        /\ pc = "export" => Covered(polled, start, delivered \cup batch)

IInv == TypeOK /\ AgeInv /\ CoverInv

-----------------------------------------------------------------------------
(* The structure that makes ReplayBounded inductive, for a file the agent    *)
(* knows, whether or not signatures tell its contents apart.                 *)

\* S is no more than one poll returns.
OnePoll(S) ==
    /\ S \subseteq 1..written
    /\ Cardinality(S) <= Window /\ Cardinality(S \cap ends) <= MaxRecords

\* Delivered bytes of the present file that lie beyond its first off bytes.
Beyond(off) == {b \in delivered : b > base + off}

\* Polls of the present file start at off: its beginning, or the checkpoint
\* when that is in the file and any tailer there is holds it too.
PollsFrom(off) ==
    \/ off = 0
    \/ /\ off = checkpoint.offset /\ checkpoint.signature = inode /\ off <= FileLen
       /\ tailer = "some" => offset = off /\ signature = inode

\* The poll in progress starts at off too, or it raced a rotation and is the
\* first to read the present file.
InStep(off) ==
    /\ pc = "read" => Beyond(0) = {} \/ (polled = inode /\ start = off)
    /\ pc = "export" =>
           \/ Beyond(0) = {}
           \/ /\ polled = inode /\ start \in off..FileLen
              /\ batch = (base + off + 1)..(base + start)
    /\ pc = "persist" =>
           \/ Beyond(0) \subseteq batch
           \/ polled = inode /\ start \in off..FileLen

\* All polls of the present file but one start at off: what is delivered beyond
\* it is what the longest of them and the odd one, which raced a rotation,
\* returned.
Extent(raced, off, end) ==
    /\ PollsFrom(off) /\ InStep(off)
    /\ OnePoll(raced) /\ OnePoll((base + off + 1)..end)
    /\ Beyond(off) \subseteq raced \cup (base + off + 1)..end

ReplayInv ==
    /\ OnePoll(batch)
    /\ pc \in {"export", "persist"} => \A b \in batch : b <= base + start
    /\ tailer = "some" =>
           offset = 0 \/ (offset = checkpoint.offset /\ signature = checkpoint.signature)
    /\ inode # 0 =>
           \E raced \in SUBSET (1..written), off, end \in 0..written : Extent(raced, off, end)
=============================================================================
