--------------------------- MODULE JournaldProofs ---------------------------
(***************************************************************************)
(* The journald source never loses its place, for every number of records, *)
(* restarts and deaths of journalctl.                                      *)
(***************************************************************************)
EXTENDS JournaldSource, TLAPS

LEMMA JournaldInit == Init => IInv
BY BoundsAssumption
   DEF Init, IInv, TypeOK, HandInv, AheadInv, SuspectInv, NothingLost,
       ReplayExplained, Settled, Flag

\* Every step preserves the invariant.
LEMMA JournaldStep == IInv /\ [Next]_vars => IInv'
<1> SUFFICES ASSUME IInv, [Next]_vars PROVE IInv'
    OBVIOUS
<1> USE BoundsAssumption DEF IInv, TypeOK, HandInv, AheadInv, SuspectInv,
        NothingLost, ReplayExplained, Settled, Flag, journalVars, followerVars, histVars
<1>1. CASE SpawnAfterCursor
      BY <1>1 DEF SpawnAfterCursor
<1>2. CASE SpawnSinceNow
      BY <1>2 DEF SpawnSinceNow
<1>3. CASE SkipNoise
      BY <1>3 DEF SkipNoise, LineReady
<1>4. CASE NextRecord
      BY <1>4 DEF NextRecord, TakeRecord, LineReady
<1>5. CASE ExportOk
      BY <1>5 DEF ExportOk
<1>6. CASE ExportFails
      BY <1>6 DEF ExportFails
<1>7. CASE Persist
      BY <1>7 DEF Persist
<1>8. CASE PersistFails
      BY <1>8 DEF PersistFails
<1>9. CASE FollowerExit
      BY <1>9 DEF FollowerExit, NoFollower, Suspect, FlagOf
<1>10. CASE Restart
      BY <1>10 DEF Restart, NoFollower
<1>11. CASE Write
      BY <1>11 DEF Write
<1>12. CASE Vacuum
      BY <1>12 DEF Vacuum
<1>13. CASE UNCHANGED vars
      BY <1>13 DEF vars
<1> QED
    BY <1>1, <1>2, <1>3, <1>4, <1>5, <1>6, <1>7, <1>8, <1>9, <1>10, <1>11, <1>12, <1>13
       DEF Next, Spawn, Follow

LEMMA JournaldInvariant == Spec => []IInv
<1>1. Init => IInv
      BY JournaldInit
<1>2. IInv /\ [Next]_vars => IInv'
      BY JournaldStep
<1> QED
    BY <1>1, <1>2, PTL DEF Spec

\* The state of the journald source keeps its types (logs.rs: JournaldSource,
\* JournaldFollower).
THEOREM JournaldTypeCorrect == Spec => []TypeOK
<1>1. IInv => TypeOK
      BY DEF IInv
<1> QED
    BY <1>1, JournaldInvariant, PTL

\* No record is left behind the checkpoint or the follower, whatever dies when
\* (logs.rs: next_record, persist_checkpoint, spawn).
THEOREM JournaldNothingLost == Spec => []NothingLost
<1>1. IInv => NothingLost
      BY DEF IInv
<1> QED
    BY <1>1, JournaldInvariant, PTL

\* Only a record whose checkpoint could not be written is read again
\* (logs.rs: persist_checkpoint).
THEOREM JournaldReplayExplained == Spec => []ReplayExplained
<1>1. IInv => ReplayExplained
      BY DEF IInv
<1> QED
    BY <1>1, JournaldInvariant, PTL

\* A stored cursor is passed over only after it was tried in vain (logs.rs:
\* journald_should_skip_cursor_on_restart, on_follower_exit).
THEOREM JournaldFreshCursorTried == Spec => FreshCursorTried
<1> DEFINE Tried == \A r \in skipped' \ skipped : checkpoint = 0 \/ checkpoint \in barren
<1>1. IInv /\ [Next]_vars => [Tried]_vars
  <2> SUFFICES ASSUME IInv, Next PROVE Tried
      BY DEF Tried
  <2>1. CASE SpawnSinceNow
        BY <2>1 DEF SpawnSinceNow, IInv, SuspectInv
  <2>2. CASE skipped' = skipped
        BY <2>2
  <2> QED
      BY <2>1, <2>2 DEF Next, Spawn, Follow, SpawnAfterCursor, SkipNoise, NextRecord,
         TakeRecord, ExportOk, ExportFails, Persist, PersistFails, FollowerExit,
         Restart, Write, Vacuum, histVars
<1> QED
    BY <1>1, JournaldInvariant, PTL DEF Spec, FreshCursorTried
=============================================================================
