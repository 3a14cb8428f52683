--------------------------- MODULE JournaldSource ---------------------------
(***************************************************************************)
(* Following the systemd journal (crates/crossx-agent/src/logs.rs): the    *)
(* journald arm of run_logs_loop, JournaldSource, which respawns a         *)
(* journalctl that died, and JournaldFollower, which reads one.  The       *)
(* checkpoint is the cursor of the last record that was exported;          *)
(* journalctl is started behind it, or at the end of the journal when      *)
(* there is none or when it looks rejected.                                *)
(*                                                                         *)
(* Simplifications:                                                        *)
(*  - a record is its place in the journal, and its cursor too;            *)
(*  - every line journalctl prints carries a cursor;                       *)
(*  - an unread line of a dead journalctl is one it did not print;         *)
(*  - the checkpoint file is replaced by one rename, as on Unix;           *)
(*  - only records behind the checkpoint are vacuumed from the journal;    *)
(*  - LogsExporter::export_records either accepts the record or not;       *)
(*  - a failed spawn changes nothing and is no action.                     *)
(***************************************************************************)
EXTENDS Integers

CONSTANTS
    MaxRecords,   \* bound on the records written to the journal
    MaxRestarts   \* bound on the restarts of the agent

ASSUME BoundsAssumption == MaxRecords \in Nat /\ MaxRestarts \in Nat

VARIABLES
    \* the journal
    written,     \* records written so far
    noise,       \* records that parse_journald_line ignores
    vacuumed,    \* records no longer in the journal: a cursor that names
                 \* one of them is rejected
    \* JournaldSource and its follower
    pc,          \* run_logs_loop: "select", "export" or "persist"
    follower,    \* "none", "running", or "rejected": given a bad cursor
    position,    \* last record the follower has read
    withCursor,  \* spawned_with_cursor, "yes" or "no"
    produced,    \* produced_any_record, "yes" or "no"
    pending,     \* pending_cursor, 0 if None
    skip,        \* skip_cursor, "yes" or "no"
    record,      \* the record being exported, 0 if none
    checkpoint,  \* the cursor file, 0 if there is none
    \* history
    restarts,    \* restarts so far
    delivered,   \* records export_records accepted
    dropped,     \* records it rejected
    skipped,     \* records passed over by a spawn with --since now
    unsaved,     \* accepted records whose checkpoint was not written
    barren       \* cursors whose last follower died without a record

journalVars == <<written, noise, vacuumed>>
followerVars == <<follower, position, withCursor, produced, pending>>
histVars == <<restarts, delivered, dropped, skipped, unsaved, barren>>
vars == <<journalVars, pc, followerVars, skip, record, checkpoint, histVars>>

Records == 1..MaxRecords
Flag == {"yes", "no"}
FlagOf(b) == IF b THEN "yes" ELSE "no"

Init ==
    /\ written = 0 /\ noise = {} /\ vacuumed = 0
    /\ pc = "select" /\ follower = "none" /\ position = 0
    /\ withCursor = "no" /\ produced = "no" /\ pending = 0
    /\ skip = "no" /\ record = 0 /\ checkpoint = 0
    /\ restarts = 0 /\ delivered = {} /\ dropped = {} /\ skipped = {}
    /\ unsaved = {} /\ barren = {}

\* Records nobody has to come back for.
Settled == delivered \cup dropped \cup skipped \cup noise

NoFollower ==
    follower' = "none" /\ position' = 0 /\ withCursor' = "no" /\ produced' = "no"
    /\ pending' = 0

-----------------------------------------------------------------------------
(* ensure_running, on the tick arm *)

\* JournaldFollower::spawn behind the stored cursor.
SpawnAfterCursor ==
    /\ pc = "select" /\ follower = "none"
    /\ skip = "no" /\ checkpoint # 0
    /\ follower' = IF checkpoint <= vacuumed THEN "rejected" ELSE "running"
    /\ position' = checkpoint
    /\ withCursor' = "yes" /\ produced' = "no" /\ pending' = 0
    /\ UNCHANGED <<journalVars, pc, skip, record, checkpoint, histVars>>

\* JournaldFollower::spawn with --since now.
SpawnSinceNow ==
    /\ pc = "select" /\ follower = "none"
    /\ skip = "yes" \/ checkpoint = 0
    /\ follower' = "running" /\ position' = written
    /\ withCursor' = "no" /\ produced' = "no" /\ pending' = 0
    /\ skipped' = skipped \cup ((checkpoint + 1)..written \ Settled)
    /\ UNCHANGED <<journalVars, pc, skip, record, checkpoint,
                   restarts, delivered, dropped, unsaved, barren>>

-----------------------------------------------------------------------------
(* next_record and the body of the journald arm *)

\* Mutant of LineReady: the end of the output is taken for a line.
LineReadyAtEof == pc = "select" /\ follower = "running" /\ position < MaxRecords

LineReady == pc = "select" /\ follower = "running" /\ position < written

SkipNoise ==
    /\ LineReady /\ position + 1 \in noise
    /\ position' = position + 1
    /\ UNCHANGED <<journalVars, pc, follower, withCursor, produced, pending, skip,
                   record, checkpoint, histVars>>

TakeRecord ==
    /\ LineReady /\ position + 1 \notin noise
    /\ position' = position + 1 /\ record' = position + 1
    /\ produced' = "yes" /\ pc' = "export"
    /\ UNCHANGED <<journalVars, follower, withCursor, skip, histVars>>

\* Mutants of NextRecord: the checkpoint is written before the record is
\* exported; the cursor kept is that of the line before.
NextRecordEarly == TakeRecord /\ checkpoint' = position + 1 /\ pending' = 0
NextRecordStale == TakeRecord /\ pending' = position /\ UNCHANGED checkpoint

NextRecord == TakeRecord /\ pending' = position + 1 /\ UNCHANGED checkpoint

ExportOk ==
    /\ pc = "export"
    /\ delivered' = delivered \cup {record}
    /\ pc' = "persist"
    /\ UNCHANGED <<journalVars, followerVars, skip, record, checkpoint,
                   restarts, dropped, skipped, unsaved, barren>>

\* "journald record dropped; logs WAL rejected it"
ExportFails ==
    /\ pc = "export"
    /\ dropped' = dropped \cup {record}
    /\ pc' = "select" /\ record' = 0
    /\ UNCHANGED <<journalVars, followerVars, skip, checkpoint,
                   restarts, delivered, skipped, unsaved, barren>>

Persist ==
    /\ pc = "persist"
    /\ checkpoint' = IF pending = 0 THEN checkpoint ELSE pending
    /\ pending' = 0
    /\ pc' = "select" /\ record' = 0
    /\ UNCHANGED <<journalVars, follower, position, withCursor, produced, skip, histVars>>

\* The cursor was taken before the file operation that failed.
PersistFails ==
    /\ pc = "persist"
    /\ pending' = 0
    /\ pc' = "select" /\ record' = 0
    /\ unsaved' = unsaved \cup {record}
    /\ UNCHANGED <<journalVars, follower, position, withCursor, produced, skip,
                   checkpoint, restarts, delivered, dropped, skipped, barren>>

-----------------------------------------------------------------------------
(* journalctl exits, or its output cannot be read: on_follower_exit *)

\* Mutants of Suspect: a cursor is never suspected, or for ever.
SuspectNever == FALSE
SuspectSticky == skip = "yes" \/ (withCursor = "yes" /\ produced = "no")

\* journald_should_skip_cursor_on_restart
Suspect == withCursor = "yes" /\ produced = "no"

FollowerExit ==
    /\ pc = "select" /\ follower # "none"
    /\ skip' = FlagOf(Suspect)
    /\ barren' = IF withCursor = "no" THEN barren
                 ELSE IF produced = "no" THEN barren \cup {checkpoint}
                 ELSE barren \ {checkpoint}
    /\ NoFollower
    /\ UNCHANGED <<journalVars, pc, record, checkpoint,
                   restarts, delivered, dropped, skipped, unsaved>>

\* A follower with a rejected cursor does nothing but exit.
RejectedExit == follower = "rejected" /\ FollowerExit

\* The agent is killed and started again.
Restart ==
    /\ restarts < MaxRestarts /\ restarts' = restarts + 1
    /\ pc' = "select" /\ record' = 0 /\ skip' = "no"
    /\ NoFollower
    /\ unsaved' = IF pc = "persist" THEN unsaved \cup {record} ELSE unsaved
    /\ UNCHANGED <<journalVars, checkpoint, delivered, dropped, skipped, barren>>

-----------------------------------------------------------------------------
(* The journal *)

Write ==
    /\ written < MaxRecords /\ written' = written + 1
    /\ noise' \in {noise, noise \cup {written'}}
    /\ UNCHANGED <<vacuumed, pc, followerVars, skip, record, checkpoint, histVars>>

\* Old records are deleted; a follower that is running has read them.
Vacuum ==
    /\ vacuumed < checkpoint /\ vacuumed' \in (vacuumed + 1)..checkpoint
    /\ UNCHANGED <<written, noise, pc, followerVars, skip, record, checkpoint, histVars>>

-----------------------------------------------------------------------------
Spawn == SpawnAfterCursor \/ SpawnSinceNow
Follow == SkipNoise \/ NextRecord \/ ExportOk \/ ExportFails \/ Persist \/ PersistFails

Next ==
    \/ Spawn \/ Follow \/ FollowerExit
    \/ Restart \/ Write \/ Vacuum

Spec == Init /\ [][Next]_vars

\* The loop takes the journald arm when a line is there and ticks for ever; a
\* journalctl can be spawned in the end, and one that was given a bad cursor
\* exits; now and then a record is accepted and a checkpoint written.
FairSpec ==
    /\ Spec
    /\ WF_vars(Spawn) /\ WF_vars(Follow) /\ WF_vars(RejectedExit)
    /\ SF_vars(ExportOk) /\ SF_vars(Persist)
-----------------------------------------------------------------------------
(* Properties *)

TypeOK ==
    /\ written \in 0..MaxRecords /\ noise \subseteq 1..written
    /\ vacuumed \in 0..checkpoint
    /\ pc \in {"select", "export", "persist"}
    /\ follower \in {"none", "running", "rejected"}
    /\ position \in 0..written /\ pending \in 0..written
    /\ withCursor \in Flag /\ produced \in Flag /\ skip \in Flag
    /\ record \in 0..written /\ checkpoint \in 0..written
    /\ restarts \in 0..MaxRestarts
    /\ delivered \subseteq 1..written /\ dropped \subseteq 1..written
    /\ skipped \subseteq 1..written /\ unsaved \subseteq 1..written
    /\ barren \subseteq 1..written

\* Neither the checkpoint nor the follower ever stands behind a record that is
\* still to be exported, except the one in hand: a death of journalctl or of
\* the agent at any step loses no record that the journal still has, other
\* than by a spawn with --since now.
NothingLost ==
    /\ \A r \in 1..checkpoint : r \in Settled
    /\ follower = "running" => \A r \in 1..position : r \in Settled \cup {record}

\* "falling back to --since now when the stored cursor looks rejected": a
\* stored cursor is passed over only if the last journalctl it was given to
\* died without a record, never because an older cursor had been bad.
FreshCursorTried ==
    [][\A r \in skipped' \ skipped : checkpoint = 0 \/ checkpoint \in barren]_vars

\* A record comes twice only when its checkpoint could not be written: what is
\* delivered beyond the checkpoint is unsaved, or about to be saved.
ReplayExplained ==
    \A r \in delivered :
        r > checkpoint => r \in unsaved \/ (pc = "persist" /\ r = record)

\* "instead of crash-looping on --after-cursor": every record is exported,
\* rejected by the WAL or passed over, whatever cursor is rejected, however
\* often journalctl dies.
RecordsSettled == \A r \in Records : (r <= written) ~> (r \in Settled)

-----------------------------------------------------------------------------
(* The structure that makes the safety properties inductive.                *)

\* The cursor in hand is that of the record in hand, the last one read.
HandInv ==
    /\ pc = "select" <=> record = 0
    /\ pc # "select" => follower = "running" /\ record = position
    /\ pc # "select" => pending = record
    /\ pc = "persist" => record \in delivered
    /\ pending <= position

\* The follower is never behind the checkpoint, nor was it given one that is
\* not there.
AheadInv ==
    /\ follower # "none" => checkpoint <= position
    /\ withCursor = "yes" => checkpoint # 0

\* A suspected cursor is one whose last journalctl died without a record.
SuspectInv == skip = "yes" /\ follower = "none" => checkpoint \in barren

IInv ==
    /\ TypeOK /\ HandInv /\ AheadInv /\ SuspectInv
    /\ NothingLost /\ ReplayExplained
=============================================================================
