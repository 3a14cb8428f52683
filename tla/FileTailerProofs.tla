-------------------------- MODULE FileTailerProofs --------------------------
(***************************************************************************)
(* Proofs about FileTailer, for every window and record limit and every    *)
(* number of bytes, files and restarts.                                    *)
(***************************************************************************)
EXTENDS FileTailer, OrderLemmas, FiniteSetTheorems, TLAPS

-----------------------------------------------------------------------------
(* What a poll consumes *)

\* Consumed stays within the window: the record limit admits at least the first
\* line end, and a window is consumed whole only when it is full (poll).
LEMMA ConsumedRange ==
    ASSUME NEW from \in Nat, NEW to \in Nat, from < to, ends \subseteq Nat
    PROVE  Consumed(from, to) \in from..to
  <1> DEFINE E == ends \cap (from + 1)..to
             full == {e \in E : Cardinality({f \in E : f <= e}) <= MaxRecords}
  <1>1. CASE E = {}
    BY <1>1 DEF Consumed
  <1>2. CASE E # {}
    <2>1. PICK e \in E : \A f \in E : e <= f
      BY <1>2, LeastNatural
    <2>2. {f \in E : f <= e} = {e}
      BY <2>1
    <2>3. Cardinality({f \in E : f <= e}) = 1
      BY <2>2, FS_Singleton
    <2>4. e \in full
      BY <2>3, PollAssumption
    <2>5. full \subseteq E
      OBVIOUS
    <2> HIDE DEF full
    <2>6. Max(full) \in full
      <3>1. full # {} /\ full \subseteq Nat /\ \A f \in full : f <= to
        BY <2>4, <2>5
      <3> QED BY <3>1, MaxIsGreatest
    <2>7. Consumed(from, to) = Max(full)
      BY <1>2 DEF Consumed, full
    <2>8. Max(full) \in (from + 1)..to
      BY <2>5, <2>6
    <2> QED BY <2>7, <2>8
  <1> QED BY <1>1, <1>2

\* The byte the read stops before: the end of the window or of the file.
LEMMA ReadEnd ==
    ASSUME NEW a \in Nat, NEW b \in Nat
    PROVE  Min({a, b}) \in Nat /\ Min({a, b}) <= a /\ Min({a, b}) <= b
  <1>1. {a, b} \subseteq Nat /\ {a, b} # {} /\ a \in {a, b} /\ b \in {a, b}
    OBVIOUS
  <1>2. Min({a, b}) \in {a, b} /\ \A y \in {a, b} : Min({a, b}) <= y
    BY <1>1, MinIsLeast
  <1> QED BY <1>2

\* What Read leaves: a batch that begins at start_offset, ends within the file
\* and is counted in the pending offset.
LEMMA ReadFacts ==
    ASSUME TypeOK, Read
    PROVE  \E end \in (base + start)..(written + start) :
              /\ batch' = (base + start + 1)..end
              /\ start' = end - base
              /\ end > base + start => end <= written
              /\ pc' = IF end = base + start THEN "idle" ELSE "export"
  <1> USE BoundsAssumption, PollAssumption
  <1> DEFINE from == base + start
             to == Min({from + Window, written})
             end == IF from < to THEN Consumed(from, to) ELSE from
  <1>1. from \in Nat /\ written \in Nat /\ base \in Nat /\ start \in Nat /\ base <= written
    BY DEF TypeOK
  <1>2. to \in Nat /\ to <= written
    BY <1>1, ReadEnd
  <1> HIDE DEF to
  <1>3. end \in from..(written + start) /\ (end > from => end <= written)
    <2>1. CASE from < to
      <3>1. Consumed(from, to) \in from..to
        BY <1>1, <1>2, <2>1, ConsumedRange DEF TypeOK
      <3> QED BY <3>1, <1>1, <1>2, <2>1
    <2>2. CASE ~(from < to)
      BY <1>1, <2>2
    <2> QED BY <2>1, <2>2
  <1>4. batch' = (from + 1)..end /\ start' = start + (end - from)
        /\ pc' = IF end = from THEN "idle" ELSE "export"
    BY DEF Read, to
  <1> HIDE DEF end
  <1> QED BY <1>1, <1>3, <1>4

-----------------------------------------------------------------------------
(* Type correctness *)

LEMMA TypeStep == TypeOK /\ [Next]_vars => TypeOK'
  <1> SUFFICES ASSUME TypeOK, [Next]_vars PROVE TypeOK'
    OBVIOUS
  <1> USE BoundsAssumption, PollAssumption
  <1>1. CASE OpenTailer
    <2>1. InitialOffset \in 0..MaxBytes
      BY <1>1 DEF InitialOffset, FileLen, TypeOK
    <2> QED BY <1>1, <2>1 DEF OpenTailer, TypeOK, fileVars, pollVars, Unseen
  <1>2. CASE DropTailer
    BY <1>2 DEF DropTailer, TypeOK, fileVars, histVars
  <1>3. CASE Stat
    <2>1. StartOffset \in 0..MaxBytes
      BY DEF StartOffset, TypeOK
    <2> QED BY <1>3, <2>1 DEF Stat, TypeOK, fileVars, tailerVars, histVars
  <1>4. CASE Read
    <2>1. PICK end \in (base + start)..(written + start) :
              /\ batch' = (base + start + 1)..end
              /\ start' = end - base
              /\ end > base + start => end <= written
              /\ pc' = IF end = base + start THEN "idle" ELSE "export"
      BY <1>4, ReadFacts
    <2>2. batch' \subseteq 1..written /\ start' \in 0..MaxBytes
      BY <2>1 DEF TypeOK
    <2>3. UNCHANGED <<fileVars, polled, tailerVars, checkpoint, histVars>>
      BY <1>4 DEF Read
    <2> QED BY <2>1, <2>2, <2>3 DEF TypeOK, fileVars, tailerVars, histVars
  <1>5. CASE ExportOk
    BY <1>5 DEF ExportOk, TypeOK, fileVars, tailerVars
  <1>6. CASE ExportFails
    BY <1>6 DEF ExportFails, Return, TypeOK, fileVars, tailerVars, histVars
  <1>11. CASE Persist
    BY <1>11 DEF Persist, Return, TypeOK, fileVars, histVars
  <1>12. CASE PersistFails
    BY <1>12 DEF PersistFails, Return, TypeOK, fileVars, tailerVars, histVars
  <1>7. CASE Restart
    BY <1>7 DEF Restart, Return, TypeOK, fileVars, Unseen
  <1>8. CASE Append
    BY <1>8 DEF Append, TypeOK, pollVars, tailerVars, histVars
  <1>9. CASE Remove
    BY <1>9 DEF Remove, TypeOK, pollVars, tailerVars, histVars
  <1>13. CASE Create
    BY <1>13 DEF Create, TypeOK, pollVars, tailerVars, histVars
  <1>14. CASE Truncate
    BY <1>14 DEF Truncate, TypeOK, pollVars, tailerVars, histVars
  <1>10. CASE UNCHANGED vars
    BY <1>10 DEF vars, TypeOK, fileVars, pollVars, tailerVars, histVars
  <1> QED BY <1>1, <1>2, <1>3, <1>4, <1>5, <1>6, <1>7, <1>8, <1>9, <1>10, <1>11,
            <1>12, <1>13, <1>14 DEF Next, Poll

LEMMA TypeInit == Init => TypeOK
  BY BoundsAssumption, KnownAssumption DEF Init, TypeOK, Unseen

\* The tailer's state stays well typed: no offset, in memory or on disk, ever
\* exceeds what was written, and no batch contains bytes that are not in the
\* file (FileTailer::poll, persist_checkpoint), however the file is rotated.
THEOREM TailerTypeCorrect == Spec => []TypeOK
  BY TypeInit, TypeStep, PTL DEF Spec

-----------------------------------------------------------------------------
(* Nothing is skipped *)

LEMMA CoverStep == Known /\ IInv /\ [Next]_vars => AgeInv' /\ CoverInv'
  <1> SUFFICES ASSUME Known, IInv, [Next]_vars PROVE AgeInv' /\ CoverInv'
    OBVIOUS
  <1> USE BoundsAssumption, PollAssumption
  <1>0. TypeOK /\ TypeOK'
    BY TypeStep DEF IInv
  <1>1. CASE OpenTailer
    <2>1. (identity = "distinct" /\ inode # 0) =>
              InitialOffset <= FileLen
              /\ \A b \in (base + 1)..(base + InitialOffset) : b \in delivered
      BY <1>0, <1>1 DEF OpenTailer, InitialOffset, IInv, AgeInv, CoverInv, Covered, TypeOK, FileLen
    <2>2. AgeInv'
      BY <1>0, <1>1 DEF OpenTailer, IInv, AgeInv, TypeOK, Unseen, fileVars, pollVars
    <2> QED BY <1>1, <2>1, <2>2 DEF OpenTailer, IInv, CoverInv, Covered, FileLen, fileVars, pollVars
  <1>2. CASE DropTailer
    BY <1>0, <1>2 DEF DropTailer, IInv, AgeInv, CoverInv, Covered, FileLen, TypeOK, fileVars, histVars
  <1>3. CASE Stat
    <2>1. identity = "distinct" => Covered(inode, StartOffset, delivered)
      BY <1>0, <1>3 DEF Stat, StartOffset, IInv, CoverInv, Covered, FileLen, TypeOK
    <2> QED BY <1>0, <1>3, <2>1 DEF Stat, IInv, AgeInv, CoverInv, Covered, FileLen, TypeOK, fileVars, tailerVars, histVars
  <1>4. CASE Read
    <2>1. PICK end \in (base + start)..(written + start) :
              /\ batch' = (base + start + 1)..end
              /\ start' = end - base
              /\ end > base + start => end <= written
              /\ pc' = IF end = base + start THEN "idle" ELSE "export"
      BY <1>0, <1>4, ReadFacts
    <2>2. UNCHANGED <<fileVars, polled, tailerVars, checkpoint, histVars>> /\ pc = "read"
      BY <1>4 DEF Read
    <2>3. AgeInv'
      BY <2>2 DEF IInv, AgeInv, fileVars, tailerVars, histVars
    <2>4. identity = "distinct" /\ pc' = "export" =>
              Covered(polled, start', delivered \cup batch')
      <3> SUFFICES ASSUME identity = "distinct", pc' = "export", inode # 0, polled = inode
                   PROVE  /\ start' <= FileLen
                          /\ \A b \in (base + 1)..(base + start') : b \in delivered \cup batch'
        BY DEF Covered
      <3>1. end > base + start /\ end <= written
        BY <1>0, <2>1 DEF TypeOK
      <3>2. \A b \in (base + 1)..(base + start) : b \in delivered
        BY <2>2 DEF IInv, CoverInv, Covered
      <3> QED BY <1>0, <2>1, <3>1, <3>2 DEF TypeOK, FileLen
    <2> QED BY <2>1, <2>2, <2>3, <2>4 DEF IInv, CoverInv, Covered, FileLen, fileVars, tailerVars, histVars
  <1>5. CASE ExportOk
    BY <1>0, <1>5 DEF ExportOk, IInv, AgeInv, CoverInv, Covered, FileLen, TypeOK, fileVars, tailerVars
  <1>6. CASE ExportFails
    BY <1>0, <1>6 DEF ExportFails, Return, IInv, AgeInv, CoverInv, Covered, FileLen, TypeOK, fileVars, tailerVars, histVars
  <1>14. CASE PersistFails
    BY <1>0, <1>14 DEF PersistFails, Return, IInv, AgeInv, CoverInv, Covered, FileLen, TypeOK, fileVars, tailerVars, histVars
  <1>7. CASE Persist
    <2>1. polled \in 1..files
      BY <1>0, <1>7 DEF Persist, IInv, AgeInv, TypeOK
    <2> QED BY <1>0, <1>7, <2>1 DEF Persist, Return, IInv, AgeInv, CoverInv, Covered, FileLen, TypeOK, fileVars, histVars
  <1>8. CASE Restart
    BY <1>0, <1>8 DEF Restart, Return, IInv, AgeInv, CoverInv, Covered, FileLen, TypeOK, fileVars
  <1>9. CASE Append
    BY <1>0, <1>9 DEF Append, IInv, AgeInv, CoverInv, Covered, FileLen, TypeOK, pollVars, tailerVars, histVars
  <1>10. CASE Remove
    BY <1>0, <1>10 DEF Remove, IInv, AgeInv, CoverInv, Covered, FileLen, TypeOK, pollVars, tailerVars, histVars
  <1>11. CASE Create
    <2>1. identity' = "distinct" => inode' = files + 1 /\ files' = files + 1 /\ identity = "distinct"
      BY <1>11 DEF Create
    <2>2. AgeInv'
      BY <1>0, <1>11, <2>1 DEF Create, IInv, AgeInv, TypeOK, pollVars, tailerVars
    <2>3. CoverInv'
      BY <1>0, <1>11, <2>1 DEF Create, IInv, AgeInv, CoverInv, Covered, FileLen, TypeOK, pollVars, tailerVars
    <2> QED BY <2>2, <2>3
  <1>12. CASE Truncate
    BY <1>0, <1>12 DEF Truncate, IInv, AgeInv, CoverInv, TypeOK, pollVars, tailerVars
  <1>13. CASE UNCHANGED vars
    BY <1>13 DEF vars, IInv, AgeInv, CoverInv, Covered, FileLen, fileVars, pollVars, tailerVars, histVars
  <1> QED BY <1>1, <1>2, <1>3, <1>4, <1>5, <1>6, <1>7, <1>8, <1>9, <1>10, <1>11, <1>12, <1>13, <1>14
          DEF Next, Poll

LEMMA IInvInit == Known /\ Init => IInv
  BY TypeInit DEF Init, IInv, AgeInv, CoverInv, Covered, FileLen

LEMMA TailerStructure == Known /\ Spec => []IInv
  <1> SUFFICES ASSUME Known PROVE Spec => []IInv
    OBVIOUS
  <1>1. Init => IInv
    BY IInvInit
  <1>2. IInv /\ [Next]_vars => IInv'
    BY TypeStep, CoverStep DEF IInv
  <1> QED BY <1>1, <1>2, PTL DEF Spec

\* "so nothing is skipped" (FileTailer::new, poll, FileSource::poll_into): for a
\* file the agent knows, no poll ever starts behind an undelivered byte until
\* the file is truncated in place or a signature is given out twice.
THEOREM TailerNothingSkipped == Known /\ Spec => []NothingSkipped
  <1>1. IInv => NothingSkipped
    <2> SUFFICES ASSUME IInv, identity = "distinct", inode # 0
                 PROVE  \A b \in (base + 1)..(base + ResumeOffset) : b \in delivered
      BY DEF NothingSkipped
    <2>1. CASE tailer = "some"
      BY <2>1, BoundsAssumption DEF ResumeOffset, StartOffset, IInv, CoverInv, Covered, TypeOK
    <2>2. CASE tailer = "none"
      BY <2>2, BoundsAssumption DEF ResumeOffset, InitialOffset, IInv, AgeInv, CoverInv, Covered, TypeOK
    <2> QED BY <2>1, <2>2 DEF IInv, TypeOK
  <1> QED BY <1>1, TailerStructure, PTL
-----------------------------------------------------------------------------
(* Little is replayed *)

\* Consumed passes no more line ends than the record limit.
LEMMA ConsumedLines ==
    ASSUME NEW from \in Nat, NEW to \in Nat, from < to, ends \subseteq Nat
    PROVE  Cardinality(((from + 1)..Consumed(from, to)) \cap ends) <= MaxRecords
  <1> DEFINE E == ends \cap (from + 1)..to
             full == {e \in E : Cardinality({f \in E : f <= e}) <= MaxRecords}
  <1>1. CASE E = {}
    <2>1. Consumed(from, to) \in {from, to}
      BY <1>1 DEF Consumed
    <2>2. ((from + 1)..Consumed(from, to)) \cap ends = {}
      BY <1>1, <2>1
    <2> QED BY <2>2, FS_EmptySet, PollAssumption
  <1>2. CASE E # {}
    <2>1. PICK e \in E : \A f \in E : e <= f
      BY <1>2, LeastNatural
    <2>2. {f \in E : f <= e} = {e}
      BY <2>1
    <2>3. Cardinality({f \in E : f <= e}) = 1
      BY <2>2, FS_Singleton
    <2>4. e \in full
      BY <2>3, PollAssumption
    <2>5. full \subseteq E
      OBVIOUS
    <2> HIDE DEF full
    <2>6. Max(full) \in full
      <3>1. full # {} /\ full \subseteq Nat /\ \A f \in full : f <= to
        BY <2>4, <2>5
      <3> QED BY <3>1, MaxIsGreatest
    <2>7. Consumed(from, to) = Max(full)
      BY <1>2 DEF Consumed, full
    <2>8. ((from + 1)..Max(full)) \cap ends = {f \in E : f <= Max(full)}
      <3>1. Max(full) \in Nat /\ Max(full) <= to
        <4>1. Max(full) \in E
          BY <2>5, <2>6
        <4>2. \A m \in E : m \in Nat /\ m <= to
          OBVIOUS
        <4> QED BY <4>1, <4>2
      <3>2. ASSUME NEW f \in ends
            PROVE  f \in (from + 1)..Max(full) <=> (f \in (from + 1)..to /\ f <= Max(full))
        BY <3>1
      <3> QED BY <3>2
    <2>9. Cardinality({f \in E : f <= Max(full)}) <= MaxRecords
      BY <2>6 DEF full
    <2> QED BY <2>7, <2>8, <2>9
  <1> QED BY <1>1, <1>2

\* What Read hands on is no more than one poll returns.
LEMMA ReadIsOnePoll ==
    ASSUME TypeOK, TypeOK', Read
    PROVE  OnePoll(batch)'
  <1> USE PollAssumption
  <1> DEFINE from == base + start
             to == Min({from + Window, written})
             end == IF from < to THEN Consumed(from, to) ELSE from
  <1>1. from \in Nat /\ written \in Nat /\ from + Window \in Nat /\ ends \subseteq Nat
    BY BoundsAssumption DEF TypeOK
  <1>2. to \in Nat /\ to <= from + Window
    BY <1>1, ReadEnd
  <1>3. batch' = (from + 1)..end /\ ends' = ends
    BY DEF Read, fileVars
  <1> HIDE DEF to
  <1>4. end \in Nat /\ end >= from /\ end - from <= Window
        /\ Cardinality(((from + 1)..end) \cap ends) <= MaxRecords
    <2> HIDE DEF from
    <2>1. CASE from < to
      <3>1. end = Consumed(from, to)
        BY <2>1
      <3>2. Consumed(from, to) \in from..to
            /\ Cardinality(((from + 1)..Consumed(from, to)) \cap ends) <= MaxRecords
        BY <1>1, <1>2, <2>1, ConsumedRange, ConsumedLines
      <3> HIDE DEF end
      <3> QED BY <1>1, <1>2, <3>1, <3>2
    <2>2. CASE ~(from < to)
      <3>1. end = from
        BY <2>2
      <3> HIDE DEF end
      <3>2. ((from + 1)..end) \cap ends = {}
        BY <1>1, <3>1
      <3> QED BY <1>1, <3>1, <3>2, FS_EmptySet
    <2> QED BY <2>1, <2>2
  <1> HIDE DEF from, end
  <1>5. Cardinality((from + 1)..end) <= Window
    <2>1. from + 1 \in Int /\ end \in Int
      BY <1>1, <1>4
    <2>2. Cardinality((from + 1)..end) = IF from + 1 > end THEN 0 ELSE end - (from + 1) + 1
      BY <2>1, FS_Interval
    <2> QED BY <1>1, <1>4, <2>2
  <1>6. batch' \subseteq 1..written'
    BY DEF TypeOK
  <1> QED BY <1>3, <1>4, <1>5, <1>6 DEF OnePoll

\* A part of what one poll may return is too.
LEMMA OnePollPart ==
    ASSUME TypeOK, NEW S, OnePoll(S), NEW T, T \subseteq S
    PROVE  OnePoll(T)
  <1>1. written \in Nat /\ IsFiniteSet(S) /\ IsFiniteSet(S \cap ends)
    <2>1. written \in Nat
      BY BoundsAssumption DEF TypeOK
    <2>2. IsFiniteSet(1..written)
      BY <2>1, FS_Interval
    <2> QED BY <2>1, <2>2, FS_Subset DEF OnePoll
  <1>2. Cardinality(T) <= Cardinality(S) /\ Cardinality(T) \in Nat /\ Cardinality(S) \in Nat
    BY <1>1, FS_Subset, FS_CardinalityType
  <1>3. T \cap ends \subseteq S \cap ends
    OBVIOUS
  <1>4. Cardinality(T \cap ends) <= Cardinality(S \cap ends) /\ Cardinality(T \cap ends) \in Nat
        /\ Cardinality(S \cap ends) \in Nat
    BY <1>1, <1>3, FS_Subset, FS_CardinalityType
  <1> QED BY <1>2, <1>4, PollAssumption DEF OnePoll

\* It stays so when the file has grown.
LEMMA OnePollLater ==
    ASSUME TypeOK, TypeOK', written <= written', NEW S, OnePoll(S),
           \A e \in 1..written : e \in ends' <=> e \in ends
    PROVE  S \subseteq 1..written' /\ Cardinality(S) <= Window
           /\ Cardinality(S \cap ends') <= MaxRecords
  <1>1. written \in Nat /\ written' \in Nat
    BY BoundsAssumption DEF TypeOK
  <1>2. S \cap ends' = S \cap ends
    BY <1>1 DEF OnePoll
  <1>3. S \subseteq 1..written'
    BY <1>1 DEF OnePoll
  <1> QED BY <1>2, <1>3 DEF OnePoll

\* A file at the path that nothing was delivered of.
LEMMA FreshExtent ==
    ASSUME TypeOK', OnePoll(batch)', Beyond(0)' = {},
           pc' \in {"export", "persist"} => \A b \in batch' : b <= base' + start',
           tailer' = "some" => offset' = 0 \/
               (offset' = checkpoint'.offset /\ signature' = checkpoint'.signature)
    PROVE  ReplayInv'
  <1>1. base' \in 0..written' /\ written' \in Nat
    BY BoundsAssumption DEF TypeOK
  <1>2. PICK b : b = base'
    OBVIOUS
  <1>3. OnePoll({})' /\ (base' + 0 + 1)..b = {}
    <2>1. {} \cap ends' = {}
      OBVIOUS
    <2>2. OnePoll({})'
      BY <2>1, FS_EmptySet, PollAssumption DEF OnePoll
    <2>3. ASSUME NEW x \in (base' + 0 + 1)..b PROVE FALSE
      <3>1. b \in Int /\ base' = b
        BY <1>1, <1>2
      <3>2. x \in (b + 0 + 1)..b
        BY <3>1
      <3> QED BY <3>1, <3>2
    <2>4. (base' + 0 + 1)..b = {}
      BY <2>3
    <2> QED BY <2>2, <2>4
  <1>4. Extent({}, 0, b)'
    <2>1. InStep(0)'
      BY DEF InStep
    <2>2. PollsFrom(0)'
      BY DEF PollsFrom
    <2> QED BY <1>3, <2>1, <2>2 DEF Extent
  <1> QED BY <1>1, <1>2, <1>4 DEF ReplayInv

\* A poll that is given up leaves what was delivered where it was.
LEMMA GiveUp ==
    ASSUME TypeOK, ReplayInv, pc' = "idle", batch' = {},
           UNCHANGED <<inode, base, written, ends, checkpoint, delivered>>,
           tailer' = "none" \/ UNCHANGED <<tailer, offset, signature>>
    PROVE  ReplayInv'
  <1>1. OnePoll(batch)'
    <2>1. OnePoll({})
      BY OnePollPart DEF ReplayInv
    <2> QED BY <2>1 DEF OnePoll
  <1>2. ASSUME inode # 0
        PROVE  \E raced \in SUBSET (1..written'), off, end \in 0..written' : Extent(raced, off, end)'
    <2>1. PICK raced \in SUBSET (1..written), off \in 0..written, end \in 0..written :
              Extent(raced, off, end)
      BY <1>2 DEF ReplayInv
    <2>2. PollsFrom(off)' /\ InStep(off)'
      BY <2>1 DEF Extent, PollsFrom, InStep, FileLen
    <2>3. Extent(raced, off, end)'
      BY <2>1, <2>2 DEF Extent, OnePoll, Beyond
    <2> QED BY <2>3
  <1> QED BY <1>1, <1>2 DEF ReplayInv

\* Every step of the agent and of the writer keeps the bound's structure.
LEMMA ReplayStep == IInv /\ IInv' /\ ReplayInv /\ [Next]_vars => ReplayInv'
  <1> SUFFICES ASSUME IInv, IInv', ReplayInv, [Next]_vars PROVE ReplayInv'
    OBVIOUS
  <1> USE BoundsAssumption, PollAssumption
  <1>0. TypeOK /\ TypeOK' /\ OnePoll(batch)
        /\ base \in Nat /\ written \in Nat /\ base <= written /\ start \in Nat /\ offset \in Nat
        /\ checkpoint.offset \in Nat /\ delivered \subseteq 1..written
    BY DEF IInv, TypeOK, ReplayInv
  <1>1. CASE OpenTailer
    <2>1. UNCHANGED <<inode, base, written, ends, batch, pc, start, checkpoint, delivered, polled>>
          /\ pc = "idle" /\ tailer' = "some" /\ offset' = InitialOffset /\ signature' = inode
          /\ inode # 0
      BY <1>1 DEF OpenTailer, fileVars, pollVars
    <2>2. InitialOffset = 0
          \/ (InitialOffset = checkpoint.offset /\ checkpoint.signature = inode)
      BY DEF InitialOffset, IInv, AgeInv
    <2>3. PICK raced \in SUBSET (1..written), off \in 0..written, end \in 0..written :
              Extent(raced, off, end)
      BY <2>1 DEF ReplayInv
    <2>4. PollsFrom(off)'
      BY <2>1, <2>3 DEF Extent, PollsFrom, InitialOffset, FileLen, IInv, AgeInv
    <2>5. Extent(raced, off, end)'
      BY <2>1, <2>3, <2>4 DEF Extent, InStep, OnePoll, Beyond
    <2> QED BY <2>1, <2>2, <2>5 DEF ReplayInv, OnePoll
  <1>2. CASE DropTailer
    BY <1>2 DEF DropTailer, ReplayInv, OnePoll, fileVars, histVars
  <1>3. CASE Stat
    <2>1. UNCHANGED <<inode, base, written, ends, batch, checkpoint, delivered, tailer, offset, signature>>
          /\ pc' = "read" /\ start' = StartOffset /\ polled' = inode /\ inode # 0 /\ tailer = "some"
      BY <1>3 DEF Stat, fileVars, tailerVars, histVars
    <2>2. PICK raced \in SUBSET (1..written), off \in 0..written, end \in 0..written :
              Extent(raced, off, end)
      BY <2>1 DEF ReplayInv
    <2>3. PICK from : from = StartOffset
      OBVIOUS
    <2>4. off <= from /\ from \in 0..written /\ PollsFrom(from)
      BY <1>0, <2>1, <2>2, <2>3 DEF Extent, PollsFrom, StartOffset, FileLen, ReplayInv
    <2>5. PollsFrom(from)'
      BY <2>1, <2>4 DEF PollsFrom, FileLen
    <2>6. OnePoll((base + from + 1)..end)
      <3>1. (base + from + 1)..end \subseteq (base + off + 1)..end
        BY <1>0, <2>4
      <3> QED BY <1>0, <2>2, <3>1, OnePollPart DEF Extent
    <2>7. Beyond(from) \subseteq raced \cup (base + from + 1)..end
      <3>1. ASSUME NEW b \in Beyond(from), b \notin raced PROVE b \in (base + from + 1)..end
        <4>1. b \in Nat /\ b > base + from
          BY <1>0, <3>1 DEF Beyond
        <4>2. b \in Beyond(off)
          BY <1>0, <2>4, <3>1, <4>1 DEF Beyond
        <4>3. b \in (base + off + 1)..end
          BY <2>2, <3>1, <4>2 DEF Extent
        <4> QED BY <1>0, <2>4, <4>1, <4>3
      <3> QED BY <3>1
    <2>8. Extent(raced, from, end)'
      <3>1. InStep(from)'
        BY <2>1, <2>3 DEF InStep
      <3> QED BY <2>1, <2>2, <2>5, <2>6, <2>7, <3>1 DEF Extent, OnePoll, Beyond
    <2> QED BY <2>1, <2>4, <2>8 DEF ReplayInv, OnePoll
  <1>4. CASE Read
    <2>1. PICK last \in (base + start)..(written + start) :
              /\ batch' = (base + start + 1)..last
              /\ start' = last - base
              /\ last > base + start => last <= written
              /\ pc' = IF last = base + start THEN "idle" ELSE "export"
      BY <1>0, <1>4, ReadFacts
    <2>2. OnePoll(batch)'
      BY <1>0, <1>4, ReadIsOnePoll
    <2>3. UNCHANGED <<inode, base, written, ends, polled, tailer, offset, signature, checkpoint, delivered>>
          /\ pc = "read" /\ inode # 0
      BY <1>4 DEF Read, fileVars, tailerVars, histVars
    <2>4. \A b \in batch' : b <= base' + start'
      BY <1>0, <2>1, <2>3
    <2>5. CASE Beyond(0) = {}
      <3>1. Beyond(0)' = {}
        BY <2>3, <2>5 DEF Beyond
      <3>2. tailer' = "some" => offset' = 0 \/
               (offset' = checkpoint'.offset /\ signature' = checkpoint'.signature)
        BY <2>3 DEF ReplayInv
      <3> QED BY <1>0, <2>2, <2>4, <3>1, <3>2, FreshExtent
    <2>6. CASE Beyond(0) # {}
      <3>1. PICK raced \in SUBSET (1..written), off \in 0..written, end \in 0..written :
              Extent(raced, off, end)
        BY <2>3 DEF ReplayInv
      <3>2. polled = inode /\ start = off
        BY <2>3, <2>6, <3>1 DEF Extent, InStep
      <3>3. InStep(off)'
        <4>1. pc' = "export" => start' \in off..(written - base)
          BY <1>0, <2>1, <3>2
        <4>2. batch' = (base + off + 1)..(base + start')
          BY <1>0, <2>1, <3>2
        <4> QED BY <2>1, <2>3, <3>2, <4>1, <4>2 DEF InStep, FileLen
      <3>4. PollsFrom(off)'
        BY <2>3, <3>1 DEF Extent, PollsFrom, FileLen
      <3>5. Extent(raced, off, end)'
        BY <2>3, <3>1, <3>3, <3>4 DEF Extent, OnePoll, Beyond
      <3> QED BY <2>2, <2>3, <2>4, <3>5 DEF ReplayInv
    <2> QED BY <2>5, <2>6
  <1>5. CASE ExportOk
    <2>1. UNCHANGED <<inode, base, written, ends, start, polled, batch, tailer, offset, signature, checkpoint>>
          /\ pc = "export" /\ pc' = "persist" /\ delivered' = delivered \cup batch
      BY <1>5 DEF ExportOk, fileVars, tailerVars
    <2>2. ASSUME inode # 0
          PROVE  \E raced \in SUBSET (1..written'), off, end \in 0..written' : Extent(raced, off, end)'
      <3>1. PICK raced \in SUBSET (1..written), off \in 0..written, end \in 0..written :
              Extent(raced, off, end)
        BY <2>2 DEF ReplayInv
      <3>2. PollsFrom(0)' /\ PollsFrom(off)'
        BY <2>1, <3>1 DEF Extent, PollsFrom, FileLen
      <3>3. CASE Beyond(0) = {}
        <4>1. PICK B, b : B = batch /\ b = base
          OBVIOUS
        <4>2. Beyond(0)' \subseteq batch
          BY <2>1, <3>3 DEF Beyond
        <4>3. (base + 0 + 1)..b = {}
          <5>1. ASSUME NEW x \in (b + 0 + 1)..b PROVE FALSE
            BY <1>0, <4>1
          <5> QED BY <4>1, <5>1
        <4>4. InStep(0)'
          BY <2>1, <4>2 DEF InStep
        <4>5. OnePoll(B)' /\ OnePoll({})'
          BY <1>0, <2>1, <4>1, OnePollPart DEF OnePoll
        <4>6. Extent(B, 0, b)'
          BY <2>1, <3>2, <4>1, <4>2, <4>3, <4>4, <4>5 DEF Extent
        <4> QED BY <1>0, <2>1, <4>1, <4>6 DEF OnePoll
      <3>4. CASE Beyond(0) # {}
        <4>1. polled = inode /\ start \in off..FileLen /\ batch = (base + off + 1)..(base + start)
          BY <2>1, <3>1, <3>4 DEF Extent, InStep
        <4>2. InStep(off)'
          BY <2>1, <4>1 DEF InStep, FileLen
        <4>3. PICK s : s = base + start
          OBVIOUS
        <4>4. s \in 0..written
          BY <1>0, <4>1, <4>3 DEF FileLen
        <4>5. CASE end <= s
          <5>1. OnePoll((base + off + 1)..s)
            BY <1>0, <4>1, <4>3
          <5>2. Beyond(off)' \subseteq raced \cup (base + off + 1)..s
            BY <1>0, <2>1, <3>1, <4>1, <4>3, <4>5 DEF Beyond, Extent
          <5>3. Extent(raced, off, s)'
            BY <2>1, <3>1, <3>2, <4>2, <5>1, <5>2 DEF Extent, OnePoll
          <5> QED BY <2>1, <4>4, <5>3
        <4>6. CASE ~(end <= s)
          <5>1. Beyond(off)' \subseteq raced \cup (base + off + 1)..end
            BY <1>0, <2>1, <3>1, <4>1, <4>3, <4>4, <4>6 DEF Beyond, Extent
          <5>2. Extent(raced, off, end)'
            BY <2>1, <3>1, <3>2, <4>2, <5>1 DEF Extent, OnePoll
          <5> QED BY <2>1, <5>2
        <4> QED BY <4>5, <4>6
      <3> QED BY <3>3, <3>4
    <2> QED BY <2>1, <2>2 DEF ReplayInv, OnePoll
  <1>6. CASE ExportFails \/ PersistFails \/ Restart
    <2>1. /\ pc' = "idle" /\ batch' = {}
          /\ UNCHANGED <<inode, base, written, ends, checkpoint, delivered>>
          /\ tailer' = "none" \/ UNCHANGED <<tailer, offset, signature>>
      BY <1>6 DEF ExportFails, PersistFails, Restart, Return, fileVars, tailerVars, histVars
    <2> QED BY <1>0, <2>1, GiveUp
  <1>7. CASE Persist
    <2>1. UNCHANGED <<inode, base, written, ends, tailer, delivered>> /\ pc = "persist" /\ pc' = "idle"
          /\ checkpoint' = [offset |-> start, signature |-> polled]
          /\ offset' = start /\ signature' = polled /\ batch' = {}
      BY <1>7 DEF Persist, Return, fileVars, histVars
    <2>2. OnePoll({})' /\ OnePoll({})
      BY <1>0, <2>1, OnePollPart DEF OnePoll
    <2>3. ASSUME inode # 0
          PROVE  \E raced \in SUBSET (1..written'), off, end \in 0..written' : Extent(raced, off, end)'
      <3>1. PICK raced \in SUBSET (1..written), off \in 0..written, end \in 0..written :
              Extent(raced, off, end)
        BY <2>3 DEF ReplayInv
      <3>2. CASE Beyond(0) \subseteq batch
        <4>1. PICK B, b : B = batch /\ b = base
          OBVIOUS
        <4>2. (base + 0 + 1)..b = {}
          <5>1. ASSUME NEW x \in (b + 0 + 1)..b PROVE FALSE
            BY <1>0, <4>1
          <5> QED BY <4>1, <5>1
        <4>3. InStep(0)' /\ PollsFrom(0)'
          BY <2>1 DEF InStep, PollsFrom
        <4>4. OnePoll(B)' /\ Beyond(0)' \subseteq B
          BY <1>0, <2>1, <3>2, <4>1 DEF OnePoll, Beyond
        <4>5. Extent(B, 0, b)'
          BY <2>1, <2>2, <4>1, <4>2, <4>3, <4>4 DEF Extent
        <4> QED BY <1>0, <2>1, <4>1, <4>5 DEF OnePoll
      <3>3. CASE ~(Beyond(0) \subseteq batch)
        <4>1. PICK s : s = start
          OBVIOUS
        <4>2. polled = inode /\ s \in off..FileLen /\ s \in 0..written
          BY <1>0, <2>1, <3>1, <3>3, <4>1 DEF Extent, InStep, FileLen
        <4>3. InStep(s)' /\ PollsFrom(s)'
          BY <1>0, <2>1, <4>1, <4>2 DEF InStep, PollsFrom, FileLen
        <4>4. OnePoll((base + s + 1)..end)
          <5>1. (base + s + 1)..end \subseteq (base + off + 1)..end
            BY <1>0, <4>2
          <5> QED BY <1>0, <3>1, <5>1, OnePollPart DEF Extent
        <4>5. Beyond(s) \subseteq raced \cup (base + s + 1)..end
          <5>1. ASSUME NEW b \in Beyond(s), b \notin raced PROVE b \in (base + s + 1)..end
            <6>1. b \in Nat /\ b > base + s
              BY <1>0, <5>1 DEF Beyond
            <6>2. b \in Beyond(off)
              BY <1>0, <4>2, <5>1, <6>1 DEF Beyond
            <6>3. b \in (base + off + 1)..end
              BY <3>1, <5>1, <6>2 DEF Extent
            <6> QED BY <1>0, <4>2, <6>1, <6>3
          <5> QED BY <5>1
        <4>6. Extent(raced, s, end)'
          BY <2>1, <3>1, <4>3, <4>4, <4>5 DEF Extent, OnePoll, Beyond
        <4> QED BY <2>1, <4>2, <4>6
      <3> QED BY <3>2, <3>3
    <2> QED BY <2>1, <2>2, <2>3 DEF ReplayInv
  <1>8. CASE Append
    <2>1. written' = written + 1
          /\ UNCHANGED <<inode, base, batch, pc, start, polled, tailer, offset, signature, checkpoint, delivered>>
          /\ \A e \in 1..written : e \in ends' <=> e \in ends
      BY <1>0, <1>8 DEF Append, pollVars, tailerVars, histVars
    <2>2. written <= written' /\ written \in 0..written' /\ 0..written \subseteq 0..written'
          /\ 1..written \subseteq 1..written'
      BY <1>0, <2>1
    <2>3. OnePoll(batch)'
      BY <1>0, <2>1, <2>2, OnePollLater DEF OnePoll
    <2>4. ASSUME inode # 0
          PROVE  \E raced \in SUBSET (1..written'), off, end \in 0..written' : Extent(raced, off, end)'
      <3>1. PICK raced \in SUBSET (1..written), off \in 0..written, end \in 0..written :
              Extent(raced, off, end)
        BY <2>4 DEF ReplayInv
      <3>2. OnePoll(raced)'
        BY <1>0, <2>1, <2>2, <3>1, OnePollLater DEF OnePoll, Extent
      <3>3. OnePoll((base + off + 1)..end)'
        <4>1. OnePoll((base + off + 1)..end)
          BY <3>1 DEF Extent
        <4> QED BY <1>0, <2>1, <2>2, <4>1, OnePollLater DEF OnePoll
      <3>4. PollsFrom(off)'
        <4>1. off <= FileLen => off <= FileLen'
          BY <1>0, <2>1, <3>1 DEF FileLen
        <4> QED BY <2>1, <3>1, <4>1 DEF Extent, PollsFrom
      <3>5. InStep(off)'
        <4>1. \A x \in off..FileLen : x \in off..FileLen'
          BY <1>0, <2>1, <3>1 DEF FileLen
        <4>2. Beyond(0)' = Beyond(0)
          BY <2>1 DEF Beyond
        <4> QED BY <2>1, <3>1, <4>1, <4>2 DEF Extent, InStep
      <3>6. Extent(raced, off, end)'
        BY <2>1, <3>1, <3>2, <3>3, <3>4, <3>5 DEF Extent, Beyond
      <3> QED BY <2>2, <3>1, <3>6
    <2> QED BY <2>1, <2>3, <2>4 DEF ReplayInv
  <1>9. CASE Remove
    BY <1>9 DEF Remove, ReplayInv, OnePoll, pollVars, tailerVars, histVars
  <1>10. CASE Create \/ Truncate
    <2>1. base' = written
          /\ UNCHANGED <<written, ends, batch, pc, start, tailer, offset, signature, checkpoint, delivered>>
      BY <1>10 DEF Create, Truncate, pollVars, tailerVars
    <2>2. OnePoll(batch)'
      BY <1>0, <2>1 DEF OnePoll
    <2>3. Beyond(0)' = {}
      <3>1. ASSUME NEW b \in Beyond(0)' PROVE FALSE
        <4>1. b \in delivered /\ b > written + 0
          BY <2>1, <3>1 DEF Beyond
        <4> QED BY <1>0, <4>1
      <3> QED BY <3>1
    <2>4. \A b \in batch' : b <= base' + start'
      BY <1>0, <2>1 DEF OnePoll
    <2>5. tailer' = "some" => offset' = 0 \/
              (offset' = checkpoint'.offset /\ signature' = checkpoint'.signature)
      BY <2>1 DEF ReplayInv
    <2> QED BY <1>0, <2>2, <2>3, <2>4, <2>5, FreshExtent
  <1>11. CASE UNCHANGED vars
    <2>1. UNCHANGED <<inode, base, written, ends, batch, pc, start, polled, tailer, offset, signature,
                      checkpoint, delivered>>
      BY <1>11 DEF vars, fileVars, pollVars, tailerVars, histVars
    <2>2. ASSUME inode # 0
          PROVE  \E raced \in SUBSET (1..written'), off, end \in 0..written' : Extent(raced, off, end)'
      <3>1. PICK raced \in SUBSET (1..written), off \in 0..written, end \in 0..written :
              Extent(raced, off, end)
        BY <2>2 DEF ReplayInv
      <3>2. PollsFrom(off)' /\ InStep(off)'
        BY <2>1, <3>1 DEF Extent, PollsFrom, InStep, FileLen, Beyond
      <3>3. Extent(raced, off, end)'
        BY <2>1, <3>1, <3>2 DEF Extent, OnePoll, Beyond
      <3> QED BY <2>1, <3>3
    <2> QED BY <2>1, <2>2 DEF ReplayInv, OnePoll
  <1> QED BY <1>1, <1>2, <1>3, <1>4, <1>5, <1>6, <1>7, <1>8, <1>9, <1>10, <1>11 DEF Next, Poll

\* For a file the agent knows, what a restart replays is bounded by two polls, in
\* bytes and in lines (FileTailer::new, poll, FileSource::poll_into): failed
\* checkpoints do not add up, and neither do rotations, however the writer
\* rotates and whether or not signatures are given out twice.
THEOREM TailerReplayBounded == Known /\ Spec => []ReplayBounded
  <1> SUFFICES ASSUME Known PROVE Spec => []ReplayBounded
    OBVIOUS
  <1>1. Init => ReplayInv
    <2> SUFFICES ASSUME Init PROVE ReplayInv
      OBVIOUS
    <2>1. OnePoll({})
      <3>1. {} \cap ends = {}
        OBVIOUS
      <3> QED BY <3>1, FS_EmptySet, PollAssumption DEF OnePoll
    <2>2. Extent({}, 0, 0)
      <3>1. (base + 0 + 1)..0 = {} /\ Beyond(0) = {}
        BY DEF Init, Beyond
      <3>2. PollsFrom(0) /\ InStep(0)
        BY DEF Init, PollsFrom, InStep
      <3> QED BY <2>1, <3>1, <3>2 DEF Extent
    <2>3. 0 \in 0..written /\ {} \in SUBSET (1..written)
      BY DEF Init
    <2> QED BY <2>1, <2>2, <2>3 DEF Init, ReplayInv
  <1>2. IInv /\ IInv' /\ ReplayInv /\ [Next]_vars => ReplayInv'
    BY ReplayStep
  <1>3. IInv /\ ReplayInv => ReplayBounded
    <2> SUFFICES ASSUME IInv, ReplayInv, checkpoint.signature = inode
                 PROVE  /\ Cardinality(Beyond(checkpoint.offset)) <= 2 * Window
                        /\ Cardinality(Beyond(checkpoint.offset) \cap ends) <= 2 * MaxRecords
      BY DEF ReplayBounded, Beyond
    <2>1. base \in Nat /\ written \in Nat /\ checkpoint.offset \in Nat /\ delivered \subseteq 1..written
          /\ inode # 0 /\ TypeOK
      BY BoundsAssumption DEF IInv, TypeOK, AgeInv
    <2>2. PICK raced \in SUBSET (1..written), off \in 0..written, end \in 0..written :
              Extent(raced, off, end)
      BY <2>1 DEF ReplayInv
    <2> DEFINE longest == (base + off + 1)..end
               replayed == Beyond(checkpoint.offset)
    <2>3. OnePoll(raced) /\ OnePoll(longest)
      BY <2>2 DEF Extent
    <2>4. replayed \subseteq raced \cup longest
      <3>1. off = 0 \/ off = checkpoint.offset
        BY <2>2 DEF Extent, PollsFrom
      <3>2. Beyond(checkpoint.offset) \subseteq Beyond(off)
        <4>1. ASSUME NEW b \in Beyond(checkpoint.offset) PROVE b \in Beyond(off)
          <5>1. b \in delivered /\ b \in Nat /\ b > base + checkpoint.offset
            BY <2>1 DEF Beyond
          <5>2. b > base + off
            BY <2>1, <3>1, <5>1
          <5> QED BY <5>1, <5>2 DEF Beyond
        <4> QED BY <4>1
      <3> QED BY <2>2, <3>2 DEF Extent
    <2> HIDE DEF longest, replayed
    <2>5. IsFiniteSet(raced) /\ IsFiniteSet(longest)
      <3>1. IsFiniteSet(1..written)
        BY <2>1, FS_Interval
      <3> QED BY <2>3, <3>1, FS_Subset DEF OnePoll
    <2>6. ASSUME NEW R, NEW S, IsFiniteSet(R), IsFiniteSet(S), NEW T, T \subseteq R \cup S, NEW n \in Nat,
                 Cardinality(R) <= n, Cardinality(S) <= n
          PROVE  Cardinality(T) <= 2 * n
      <3>1. IsFiniteSet(R \cup S)
            /\ Cardinality(R \cup S) = Cardinality(R) + Cardinality(S) - Cardinality(R \cap S)
        BY <2>6, FS_Union
      <3>2. IsFiniteSet(R \cap S) /\ IsFiniteSet(T) /\ Cardinality(T) <= Cardinality(R \cup S)
        BY <2>6, <3>1, FS_Subset
      <3>3. Cardinality(R) \in Nat /\ Cardinality(S) \in Nat /\ Cardinality(R \cap S) \in Nat
            /\ Cardinality(T) \in Nat
        BY <2>6, <3>2, FS_CardinalityType
      <3> QED BY <2>6, <3>1, <3>2, <3>3
    <2>7. Cardinality(replayed) <= 2 * Window
      BY <2>3, <2>4, <2>5, <2>6, PollAssumption DEF OnePoll
    <2>8. Cardinality(replayed \cap ends) <= 2 * MaxRecords
      <3>1. replayed \cap ends \subseteq (raced \cap ends) \cup (longest \cap ends)
        BY <2>4
      <3>2. IsFiniteSet(raced \cap ends) /\ IsFiniteSet(longest \cap ends)
        BY <2>5, FS_Subset
      <3> QED BY <2>3, <3>1, <3>2, <2>6, PollAssumption DEF OnePoll
    <2> QED BY <2>7, <2>8 DEF replayed
  <1> QED BY <1>1, <1>2, <1>3, TailerStructure, PTL DEF Spec
=============================================================================
