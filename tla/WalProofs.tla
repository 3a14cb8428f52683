----------------------------- MODULE WalProofs -----------------------------
(***************************************************************************)
(* Proofs about Wal, for every cap, segment size, set of record lengths    *)
(* and number of records.                                                  *)
(***************************************************************************)
EXTENDS MCWal, OrderLemmas, FiniteSetTheorems, TLAPS

USE CapAssumption, SegAssumption, SizesAssumption, RecordsAssumption, FaultsAssumption

-----------------------------------------------------------------------------
(* Least elements, for Min, Max and Front *)

\* Segment numbers and record ids are naturals.
LEMMA SegFacts == 0 \in Segs /\ Segs \subseteq Nat /\ Ids \subseteq Nat
  <1>1. MaxSeg \in Nat /\ MaxRecords \in Nat
    BY SegAssumption, RecordsAssumption
  <1> QED BY <1>1 DEF Segs, Ids


\* The oldest segment of a non-empty directory is one of its segments and no
\* segment is older (segment_sequences sorts).
LEMMA OldestSegment ==
    ASSUME NEW T, T \subseteq Segs, T # {}
    PROVE  Min(T) \in T /\ \A s \in T : Min(T) <= s
  <1>1. T \subseteq Nat
    BY SegFacts
  <1> QED BY <1>1, MinIsLeast

\* Likewise the newest.
LEMMA NewestSegment ==
    ASSUME NEW T, T \subseteq Segs, T # {}
    PROVE  Max(T) \in T /\ \A s \in T : s <= Max(T)
  <1>1. T \subseteq Nat /\ \A s \in T : s <= MaxSeg
    BY SegAssumption DEF Segs
  <1> QED BY <1>1, SegAssumption, MaxIsGreatest

\* A non-empty index has a head, and nothing in it lies before its head.
LEMMA FrontExists ==
    ASSUME NEW R, R \subseteq Record, R # {}
    PROVE  Front(R) \in R /\ \A q \in R : ~Before(q, Front(R))
  <1>1. PICK s \in {r.seg : r \in R} : \A t \in {r.seg : r \in R} : s <= t
    <2>1. {r.seg : r \in R} \subseteq Nat /\ {r.seg : r \in R} # {}
      BY DEF Record, Segs
    <2> QED BY <2>1, LeastNatural
  <1> DEFINE F == {r \in R : r.seg = s}
  <1>2. PICK o \in {r.off : r \in F} : \A t \in {r.off : r \in F} : o <= t
    <2>1. {r.off : r \in F} \subseteq Nat /\ {r.off : r \in F} # {}
      BY <1>1 DEF Record
    <2> QED BY <2>1, LeastNatural
  <1>3. PICK f \in F : f.off = o
    BY <1>2
  <1>4. \A q \in R : ~Before(q, f)
    BY <1>1, <1>2, <1>3 DEF Before, Record, Segs
  <1> QED BY <1>3, <1>4 DEF Front

\* The bytes of a directory of one segment.
LEMMA SumOfOne ==
    ASSUME NEW f, NEW s, f[s] \in Nat
    PROVE  SumFunctionOnSet(f, {s}) = f[s]
  <1>1. IsFiniteSet({s}) /\ IsFiniteSet({}) /\ {s} \ {s} = {}
    BY FS_Singleton, FS_EmptySet
  <1>2. SumFunctionOnSet(f, {s}) = f[s] + SumFunctionOnSet(f, {s} \ {s})
    <2>1. \A x \in {s} : f[x] \in Nat
      OBVIOUS
    <2>2. s \in {s}
      OBVIOUS
    <2> QED BY <1>1, <2>1, <2>2, SumSplit
  <1>3. SumFunctionOnSet(f, {}) = 0
    BY <1>1, SumSplit
  <1>4. SumFunctionOnSet(f, {s} \ {s}) = 0
    BY <1>1, <1>3, Zenon
  <1> QED BY <1>2, <1>4

-----------------------------------------------------------------------------
(* Type correctness *)

\* The cursor computed from the index is a position.
LEMMA HeadCursorType ==
    ASSUME TypeOK
    PROVE  HeadCursor \in Position
  <1>1. CASE records = {}
    BY <1>1 DEF HeadCursor, TypeOK, Position
  <1>2. CASE records # {}
    BY <1>2, FrontExists DEF HeadCursor, TypeOK, Position, Record
  <1> QED BY <1>1, <1>2

\* Where the next record goes is a segment of the number range.
LEMMA TargetType ==
    ASSUME TypeOK, NEW n \in Sizes, CanAppend(n)
    PROVE  /\ n \in Nat /\ n > 0
           /\ nextId \in Ids
           /\ Target(n).seg \in Segs /\ Target(n).file \in Segs
           /\ Target(n).off \in Nat
  BY DEF TypeOK, CanAppend, Target, Segs, Ids

\* What append leaves in the directory is well typed.
LEMMA WriteType ==
    ASSUME TypeOK, NEW n \in Sizes, NEW k \in 0..n, CanAppend(n), Write(n, k)
    PROVE  /\ linked' \subseteq Segs
           /\ len' \in [Segs -> Nat] /\ valid' \in [Segs -> Nat]
           /\ disk' \subseteq Record /\ dcursor' \in Position
           /\ nextId' \in 1..(MaxRecords + 1)
           /\ accepted' \subseteq Ids /\ acked' \subseteq Ids
           /\ evicted' \subseteq Ids /\ corrupt' \subseteq Ids
  <1> DEFINE t == Target(n)
  <1>1. t.seg \in Segs /\ t.file \in Segs /\ t.off \in Nat /\ n \in Nat
    BY TargetType
  <1>2. linked' \subseteq Segs
    BY <1>1 DEF Write, TypeOK
  <1>3. len' \in [Segs -> Nat]
    BY <1>1 DEF Write, TypeOK
  <1>4. valid' \in [Segs -> Nat]
    BY <1>1 DEF Write, TypeOK
  <1>5. disk' \subseteq Record
    BY <1>1, TargetType DEF Write, TypeOK, Record
  <1> QED BY <1>2, <1>3, <1>4, <1>5, TargetType DEF Write, TypeOK, Ids

\* TypeOK is inductive.
LEMMA TypeStep == TypeOK /\ [Next]_vars => TypeOK'
  <1> SUFFICES ASSUME TypeOK, [Next]_vars PROVE TypeOK'
    OBVIOUS
  <1>1. ASSUME NEW n \in Sizes, Append(n) PROVE TypeOK'
    <2>1. Write(n, n) /\ CanAppend(n) /\ n \in 0..n
      BY <1>1, SizesAssumption DEF Append
    <2>2. records' \subseteq Record
      BY <1>1, <2>1, TargetType DEF Append, TypeOK, Record
    <2> QED BY <1>1, <2>1, <2>2, WriteType, TargetType DEF Append, TypeOK
  <1>2. ASSUME NEW n \in Sizes, RollFails(n) PROVE TypeOK'
    BY <1>2 DEF RollFails, CanAppend, TypeOK, dirVars, Segs
  <1>3. ASSUME NEW n \in Sizes, NEW k \in 0..n, AppendFails(n, k) PROVE TypeOK'
    BY <1>3, WriteType, TargetType DEF AppendFails, TypeOK
  <1>4. ASSUME NEW n \in Sizes, NEW k \in 0..n, AppendCrash(n, k) PROVE TypeOK'
    <2>1. 0 \in Segs
      BY DEF Segs
    <2> QED BY <1>4, <2>1, WriteType DEF AppendCrash, TypeOK
  <1>5. CASE CapRoll
    BY <1>5 DEF CapRoll, TypeOK, histVars, Segs
  <1>6. CASE CapEvict
    <2>1. Oldest \in Segs
      BY <1>6, OldestSegment DEF CapEvict, OverCap, Oldest, TypeOK
    <2>2. evicted' \subseteq Ids
      BY <1>6 DEF CapEvict, TypeOK, IdsOf, Recoverable, Record
    <2> QED BY <1>6, <2>1, <2>2 DEF CapEvict, Unlink, TypeOK
  <1>7. CASE CapPersist
    BY <1>7, HeadCursorType DEF CapPersist, TypeOK, histVars
  <1>8. CASE CapDone
    BY <1>8 DEF CapDone, TypeOK, dirVars
  <1>9. CASE AckPersist
    BY <1>9, HeadCursorType DEF AckPersist, TypeOK, histVars
  <1>10. CASE AckDelete
    BY <1>10 DEF AckDelete, Unlink, TypeOK, memVars, histVars
  <1>11. CASE AckDone
    BY <1>11 DEF AckDone, TypeOK, dirVars, histVars
  <1>12. CASE AckPop
    <2>1. Front(records) \in Record
      BY <1>12, FrontExists DEF AckPop, TypeOK
    <2> QED BY <1>12, <2>1 DEF AckPop, TypeOK, dirVars, Record
  <1>13. CASE SkipCorrupt
    BY <1>13 DEF SkipCorrupt, TypeOK, dirVars, histVars
  <1>14. CASE OpFails \/ CapExhausted
    BY <1>14, SegFacts DEF OpFails, CapExhausted, ReturnError, Forget, TypeOK, dirVars, histVars
  <1>15. CASE CapRollFails
    BY <1>15 DEF CapRollFails, TypeOK, dirVars, histVars, Segs
  <1>16. CASE Crash
    BY <1>16, SegFacts DEF Crash, Forget, TypeOK, dirVars, histVars
  <1>17. CASE Open
    <2> DEFINE found == IF linked = {} THEN {0} ELSE linked
    <2>1. found \subseteq Segs /\ found # {}
      BY SegFacts DEF TypeOK
    <2>2. LastSegment(found) \in Segs
      BY <2>1, NewestSegment DEF LastSegment
    <2>3. PICK scan \in [found -> UNION {Scan(s) : s \in found}] :
            /\ \A s \in found : scan[s] \in Scan(s)
            /\ linked' = found
            /\ active' = LastSegment(found) /\ handle' = LastSegment(found)
            /\ len' = [s \in Segs |-> IF s \in linked THEN scan[s].end ELSE 0]
            /\ valid' = len'
            /\ disk' = {r \in disk : r.seg \in linked /\
                           (r.off < valid[r.seg] \/ r.off >= scan[r.seg].from)}
            /\ records' = {r \in disk' : ~Before(r, dcursor)}
      BY <1>17 DEF Open
    <2>4. \A s \in linked : \A e \in Scan(s) : e.end \in Nat
      BY DEF Scan, TypeOK
    <2>5. len' \in [Segs -> Nat]
      BY <2>3, <2>4 DEF TypeOK
    <2> QED BY <1>17, <2>1, <2>2, <2>3, <2>5 DEF Open, TypeOK, histVars
  <1>18. CASE Rot
    BY <1>18 DEF Rot, TypeOK, dirVars, memVars, Record
  <1>19. CASE UNCHANGED vars
    BY <1>19 DEF TypeOK, vars, dirVars, memVars, histVars
  <1> QED
    BY <1>1, <1>2, <1>3, <1>4, <1>5, <1>6, <1>7, <1>8, <1>9, <1>10, <1>11, <1>12,
       <1>13, <1>14, <1>15, <1>16, <1>17, <1>18, <1>19 DEF Next, Internal

\* Every reachable state is well typed, whatever fails and whenever the process
\* is killed (the whole of wal.rs).
THEOREM WalTypeCorrect == Spec => []TypeOK
  <1>1. Init => TypeOK
    BY DEF Init, TypeOK, Segs, Position
  <1> QED BY <1>1, TypeStep, PTL DEF Spec

-----------------------------------------------------------------------------
(* Durability *)

\* The directory and the cursor, hence what a reopen would find, are untouched.
LEMMA DirUnchanged ==
    ASSUME UNCHANGED dirVars
    PROVE  Recoverable' = Recoverable
  BY DEF Recoverable, dirVars, Before

\* The structure of the directory survives a step that leaves it alone.
LEMMA DirStable ==
    ASSUME DiskInv, CursorInv, TypeOK, TypeOK', UNCHANGED dirVars, nextId <= nextId'
    PROVE  DiskInv' /\ CursorInv'
  <1>1. DiskInv'
    BY DEF DiskInv, TypeOK, dirVars, Before, Record, Ids
  <1>2. CursorInv'
    BY DEF CursorInv, dirVars
  <1> QED BY <1>1, <1>2

\* In a running process the next record starts at the end of the scannable
\* part of its file, and the cursor admits it.
LEMMA TargetFacts ==
    ASSUME IInv, NEW n \in Sizes, CanAppend(n)
    PROVE  LET t == Target(n) IN
           /\ t.file = t.seg /\ valid[t.file] = t.off /\ len[t.file] = t.off
           /\ \A s \in linked : s <= t.file
           /\ t.file \in linked \cup {active + 1}
           /\ NeedsRoll(n) => t.file = active + 1 /\ t.file \notin linked
           /\ ~NeedsRoll(n) => t.file = active
           /\ ~Before([seg |-> t.file, off |-> t.off], dcursor)
  <1> DEFINE t == Target(n)
  <1> USE DEF IInv
  <1>1. pc # "down" /\ handle = active /\ active \in linked
        /\ \A s \in linked : s <= active /\ valid[s] = len[s]
    BY DEF CanAppend, ActiveInv
  <1>2. linked \subseteq Nat /\ active \in Nat /\ dcursor.seg \in Nat /\ dcursor.off \in Nat
    BY SegFacts DEF TypeOK, Position
  <1>3. dcursor.seg <= active
    BY <1>1, <1>2 DEF CursorInv
  <1>4. CASE NeedsRoll(n)
    <2>1. active + 1 \in Segs /\ active + 1 \notin linked
      BY <1>1, <1>2, <1>4, TargetType DEF Target
    <2>2. valid[active + 1] = 0 /\ len[active + 1] = 0
      BY <2>1 DEF DiskInv, TypeOK
    <2>3. t = [seg |-> active + 1, file |-> active + 1, off |-> 0]
      BY <1>4 DEF Target
    <2>4. \A s \in linked : s <= active + 1
      BY <1>1, <1>2
    <2>5. ~Before([seg |-> active + 1, off |-> 0], dcursor)
      BY <1>2, <1>3 DEF Before
    <2> QED BY <1>4, <2>1, <2>2, <2>3, <2>4, <2>5
  <1>5. CASE ~NeedsRoll(n)
    <2>1. t = [seg |-> active, file |-> active, off |-> len[active]]
      BY <1>1, <1>5 DEF Target
    <2>2. valid[active] = len[active] /\ len[active] \in Nat
      BY <1>1 DEF TypeOK
    <2>3. dcursor.seg = active => dcursor.off <= len[active]
      BY <1>1, <2>2 DEF CursorInv
    <2>4. ~Before([seg |-> active, off |-> len[active]], dcursor)
      BY <1>2, <1>3, <2>2, <2>3 DEF Before
    <2> QED BY <1>1, <1>5, <2>1, <2>2, <2>4
  <1> QED BY <1>4, <1>5

\* A whole record written by append is the youngest of the directory and a
\* reopen would find it with all that it would have found before.
LEMMA WriteWhole ==
    ASSUME IInv, NEW n \in Sizes, CanAppend(n), Write(n, n), TypeOK'
    PROVE  LET t == Target(n)
               new == [id |-> nextId, seg |-> t.seg, off |-> t.off, len |-> n] IN
           /\ DiskInv' /\ CursorInv'
           /\ Recoverable' = Recoverable \cup {new}
           /\ \A r \in Recoverable : Before(r, new) /\ r.id < nextId
           /\ linked' = linked \cup {t.file}
           /\ valid'[t.file] = len'[t.file]
           /\ \A s \in linked : s # t.file => valid'[s] = valid[s] /\ len'[s] = len[s]
  <1> DEFINE t == Target(n)
             new == [id |-> nextId, seg |-> t.seg, off |-> t.off, len |-> n]
  <1> USE DEF IInv
  <1>1. /\ t.file = t.seg /\ valid[t.file] = t.off /\ len[t.file] = t.off
        /\ \A s \in linked : s <= t.file
        /\ NeedsRoll(n) => t.file = active + 1 /\ t.file \notin linked
        /\ ~NeedsRoll(n) => t.file = active
        /\ ~Before([seg |-> t.file, off |-> t.off], dcursor)
    BY TargetFacts
  <1>2. n \in Nat /\ n > 0 /\ t.file \in Segs /\ t.off \in Nat /\ nextId \in Ids
    BY TargetType
  <1>3. active \in linked
    BY DEF CanAppend, ActiveInv
  <1>4. linked' = linked \cup {t.file}
    BY <1>1, <1>3 DEF Write
  <1>5. len' = [len EXCEPT ![t.file] = t.off + n] /\ valid' = [valid EXCEPT ![t.file] = t.off + n]
    BY <1>1, <1>2 DEF Write, TypeOK
  <1>6. disk' = disk \cup {new}
    BY <1>1, <1>4 DEF Write
  <1>7. nextId' = nextId + 1 /\ dcursor' = dcursor
    BY DEF Write
  <1>8. /\ len'[t.file] = t.off + n /\ valid'[t.file] = t.off + n
        /\ \A s \in Segs : s # t.file => valid'[s] = valid[s] /\ len'[s] = len[s]
    BY <1>2, <1>5 DEF TypeOK
  <1>9. \A s \in Segs : valid[s] <= valid'[s]
    BY <1>1, <1>2, <1>8 DEF TypeOK
  <1>10. \A r \in disk : Before(r, new) /\ r.id < nextId /\ r.off < valid[r.seg]
                          /\ r.seg \in linked /\ r.seg \in Segs /\ r.off \in Nat /\ r.id \in Nat
    <2> TAKE r \in disk
    <2>1. r.id < nextId /\ r.off < valid[r.seg] /\ r.seg \in linked
      BY DEF DiskInv
    <2>2. r.seg \in Segs /\ r.seg \in Nat /\ r.off \in Nat /\ r.id \in Nat
      <3>1. r \in Record
        BY DEF TypeOK
      <3>2. r.seg \in Segs /\ r.off \in Nat /\ r.id \in Ids
        BY <3>1 DEF Record
      <3> QED BY <3>2, SegFacts
    <2>3. r.seg <= t.file /\ (r.seg = t.file => r.off < t.off) /\ t.file \in Nat
      BY <1>1, <1>2, <2>1, SegFacts
    <2>4. new.seg = t.file /\ new.off = t.off
      BY <1>1
    <2>5. Before(r, new)
      BY <2>2, <2>3, <2>4 DEF Before
    <2> QED BY <2>1, <2>2, <2>5
  <1>11. DiskInv'
    <2>1. \A r \in disk' : r.seg \in linked' /\ r.off < valid'[r.seg] /\ r.id < nextId'
      BY <1>1, <1>2, <1>4, <1>6, <1>7, <1>8, <1>9, <1>10 DEF TypeOK, Ids
    <2>2. \A p, q \in disk' :
             p = q \/ (Before(p, q) /\ p.id < q.id) \/ (Before(q, p) /\ q.id < p.id)
      BY <1>6, <1>10 DEF DiskInv
    <2>3. \A s \in Segs : valid'[s] <= len'[s] /\ (s \notin linked' => len'[s] = 0)
      BY <1>2, <1>4, <1>8 DEF DiskInv
    <2> QED BY <2>1, <2>2, <2>3 DEF DiskInv, Before
  <1>12. CursorInv'
    <2>1. dcursor.seg \in linked' => dcursor.seg \in linked \/ dcursor.seg = t.file
      BY <1>4
    <2>2. dcursor.seg = t.file => dcursor.off <= t.off
      BY <1>1, <1>2 DEF Before, TypeOK, Position
    <2>3. dcursor.seg \in linked' => dcursor.off <= valid'[dcursor.seg]
      BY <1>2, <1>8, <2>1, <2>2 DEF CursorInv, TypeOK, Position
    <2>4. \E s \in linked' : dcursor.seg <= s
      BY <1>3, <1>4 DEF CursorInv
    <2> QED BY <1>4, <1>7, <2>3, <2>4 DEF CursorInv
  <1>13. Recoverable' = Recoverable \cup {new}
    <2>0. \A r \in disk : r \in disk' /\ r.seg \in linked' /\ r.off < valid'[r.seg]
      BY <1>6, <1>11 DEF DiskInv
    <2>1. \A r \in disk : r \in Recoverable' <=> r \in Recoverable
      BY <1>7, <1>10, <2>0 DEF Recoverable, Before
    <2>2. new \in Recoverable'
      BY <1>1, <1>2, <1>4, <1>6, <1>7, <1>8 DEF Recoverable, Before
    <2>3. Recoverable' \subseteq disk' /\ Recoverable \subseteq disk
      BY DEF Recoverable
    <2> QED BY <1>6, <2>1, <2>2, <2>3
  <1>14. \A r \in Recoverable : Before(r, new) /\ r.id < nextId
    BY <1>10 DEF Recoverable
  <1> QED BY <1>4, <1>8, <1>11, <1>12, <1>13, <1>14 DEF TypeOK

\* A record torn by the kill of the process leaves every whole record where a
\* reopen finds it.
LEMMA WriteTorn ==
    ASSUME IInv, NEW n \in Sizes, NEW k \in 0..n, k < n, CanAppend(n), Write(n, k), TypeOK'
    PROVE  DiskInv' /\ CursorInv' /\ Recoverable' = Recoverable
  <1> DEFINE t == Target(n)
  <1> USE DEF IInv
  <1>1. /\ valid[t.file] = t.off /\ len[t.file] = t.off
        /\ \A s \in linked : s <= t.file
        /\ NeedsRoll(n) => t.file = active + 1 /\ t.file \notin linked
        /\ ~NeedsRoll(n) => t.file = active
        /\ ~Before([seg |-> t.file, off |-> t.off], dcursor)
    BY TargetFacts
  <1>2. n \in Nat /\ k \in Nat /\ t.file \in Segs /\ t.off \in Nat
    BY TargetType
  <1>3. active \in linked
    BY DEF CanAppend, ActiveInv
  <1>4. linked' = linked \cup {t.file}
    BY <1>1, <1>3 DEF Write
  <1>5. disk' = disk /\ valid' = valid /\ dcursor' = dcursor /\ nextId' = nextId + 1
    BY <1>2 DEF Write, TypeOK
  <1>6. len'[t.file] = t.off + k /\ \A s \in Segs : s # t.file => len'[s] = len[s]
    BY <1>2 DEF Write, TypeOK
  <1>7. DiskInv'
    <2>1. \A r \in disk' : r.seg \in linked' /\ r.off < valid'[r.seg] /\ r.id < nextId'
      BY <1>4, <1>5 DEF DiskInv, TypeOK, Record, Ids
    <2>2. \A p, q \in disk' :
             p = q \/ (Before(p, q) /\ p.id < q.id) \/ (Before(q, p) /\ q.id < p.id)
      BY <1>5 DEF DiskInv
    <2>3. \A s \in Segs : valid'[s] <= len'[s] /\ (s \notin linked' => len'[s] = 0)
      BY <1>1, <1>2, <1>4, <1>5, <1>6 DEF DiskInv, TypeOK
    <2> QED BY <2>1, <2>2, <2>3 DEF DiskInv, Before
  <1>8. CursorInv'
    <2>1. dcursor.seg = t.file => dcursor.off <= t.off
      BY <1>1, <1>2 DEF Before, TypeOK, Position
    <2>2. dcursor.seg \in linked' => dcursor.off <= valid'[dcursor.seg]
      BY <1>1, <1>4, <1>5, <2>1 DEF CursorInv
    <2>3. \E s \in linked' : dcursor.seg <= s
      BY <1>3, <1>4 DEF CursorInv
    <2> QED BY <1>4, <1>5, <2>2, <2>3 DEF CursorInv
  <1>9. Recoverable' = Recoverable
    BY <1>4, <1>5 DEF Recoverable, DiskInv, Before
  <1> QED BY <1>7, <1>8, <1>9

\* The cursor computed from the index lies between the persisted one and the
\* records it must keep admitting, all of which are in the index.
LEMMA HeadCursorFacts ==
    ASSUME IInv, pc # "down"
    PROVE  /\ HeadCursor \in Position /\ ~Before(HeadCursor, dcursor)
           /\ HeadCursor.seg \in linked /\ HeadCursor.off <= valid[HeadCursor.seg]
           /\ \A r \in records : ~Before(r, HeadCursor)
  <1> USE DEF IInv
  <1>1. HeadCursor \in Position
    BY HeadCursorType
  <1>2. CASE records # {}
    <2> DEFINE f == Front(records)
    <2>1. f \in records /\ \A q \in records : ~Before(q, f)
      BY <1>2, FrontExists DEF TypeOK
    <2>2. f \in Recoverable /\ f \in Record
      BY <2>1 DEF IndexInv, TypeOK
    <2>3. HeadCursor = [seg |-> f.seg, off |-> f.off]
      BY <1>2 DEF HeadCursor
    <2>4. f.seg \in linked /\ f.off < valid[f.seg] /\ ~Before(f, dcursor)
      BY <2>2 DEF Recoverable
    <2>5. f.off <= valid[f.seg]
      BY <2>2, <2>4 DEF TypeOK, Record
    <2> QED BY <1>1, <2>1, <2>3, <2>4, <2>5 DEF Before
  <1>3. CASE records = {}
    <2>1. handle = active /\ active \in linked /\ valid[active] = len[active]
          /\ \A s \in linked : s <= active
      BY DEF ActiveInv
    <2>2. HeadCursor = [seg |-> active, off |-> len[active]]
      BY <1>3, <2>1 DEF HeadCursor
    <2> linked \subseteq Nat /\ active \in Nat /\ dcursor.seg \in Nat /\ dcursor.off \in Nat
      BY SegFacts DEF TypeOK, Position
    <2>3. dcursor.seg <= active
      BY <2>1 DEF CursorInv
    <2>4. dcursor.seg = active => dcursor.off <= len[active]
      BY <2>1 DEF CursorInv
    <2>5. ~Before(HeadCursor, dcursor)
      <3>1. len[active] \in Nat
        BY DEF TypeOK
      <3> QED BY <2>2, <2>3, <2>4, <3>1 DEF Before
    <2> QED BY <1>1, <1>3, <2>1, <2>2, <2>5 DEF TypeOK
  <1> QED BY <1>2, <1>3

\* Persisting the cursor of the index keeps the structure, and gives up only
\* records that are neither owed nor being appended.
LEMMA PersistStep ==
    ASSUME IInv, pc # "down", TypeOK', dcursor' = HeadCursor,
           UNCHANGED <<linked, len, valid, disk, job, active, handle, records, histVars>>,
           pc' # "down", job # 0 => pc' \in {"cap", "evicted"}
    PROVE  IInv' /\ Recoverable' = {r \in Recoverable : ~Before(r, HeadCursor)}
  <1> USE DEF IInv, histVars
  <1>1. /\ HeadCursor \in Position /\ ~Before(HeadCursor, dcursor)
        /\ HeadCursor.seg \in linked /\ HeadCursor.off <= valid[HeadCursor.seg]
        /\ \A r \in records : ~Before(r, HeadCursor)
    BY HeadCursorFacts
  <1>2. DiskInv'
    BY DEF DiskInv, Before
  <1>3. ActiveInv'
    BY DEF ActiveInv
  <1>4. CursorInv'
    <2>1. HeadCursor.seg <= HeadCursor.seg
      <3>1. HeadCursor.seg \in Nat
        BY <1>1, SegFacts DEF Position
      <3> QED BY <3>1
    <2> QED BY <1>1, <2>1 DEF CursorInv
  <1>5. Recoverable' = {r \in disk : r.seg \in linked /\ r.off < valid[r.seg] /\ ~Before(r, HeadCursor)}
    BY DEF Recoverable, Before
  <1>6. Recoverable' \subseteq Recoverable
    <2>1. \A r \in Record : ~Before(r, HeadCursor) => ~Before(r, dcursor)
      <3> TAKE r \in Record
      <3>1. r.seg \in Nat /\ r.off \in Nat
        BY SegFacts DEF Record
      <3>2. HeadCursor.seg \in Nat /\ HeadCursor.off \in Nat
            /\ dcursor.seg \in Nat /\ dcursor.off \in Nat
        BY <1>1, SegFacts DEF Position, TypeOK
      <3> QED BY <1>1, <3>1, <3>2 DEF Before
    <2> QED BY <1>5, <2>1 DEF Recoverable, TypeOK
  <1>7. records \subseteq Recoverable'
    BY <1>1, <1>5 DEF IndexInv, Recoverable
  <1>8. IndexInv'
    BY <1>6, <1>7 DEF IndexInv
  <1>9. JobInv'
    BY DEF JobInv, IdsOf
  <1>10. Durable'
    <2>1. \A r \in Recoverable : r.id \in Owed => r \in Recoverable'
      BY <1>7 DEF IndexInv, Owed
    <2>2. Owed' = Owed
      BY DEF Owed
    <2> QED BY <2>1, <2>2 DEF Durable, IdsOf
  <1>11. Recoverable' = {r \in Recoverable : ~Before(r, HeadCursor)}
    BY <1>5, <1>6 DEF Recoverable
  <1> QED BY <1>2, <1>3, <1>4, <1>8, <1>9, <1>10, <1>11

\* A step that leaves the directory alone keeps the invariant as soon as it
\* keeps the parts about the index.
LEMMA MemoryStep ==
    ASSUME IInv, TypeOK', UNCHANGED <<dirVars, nextId>>, ActiveInv', IndexInv', JobInv',
           Owed' \subseteq Owed \cup IdsOf(Recoverable)
    PROVE  IInv'
  <1>1. DiskInv' /\ CursorInv'
    BY DirStable DEF IInv, TypeOK
  <1>2. Durable'
    BY DirUnchanged DEF IInv, Durable, IdsOf
  <1> QED BY <1>1, <1>2 DEF IInv

\* append, up to the entry in the index.
LEMMA AppendStep ==
    ASSUME IInv, TypeOK', NEW n \in Sizes, Append(n)
    PROVE  IInv'
  <1> DEFINE t == Target(n)
             new == [id |-> nextId, seg |-> t.seg, off |-> t.off, len |-> n]
  <1> USE DEF IInv
  <1>1. Write(n, n) /\ CanAppend(n) /\ pc = "idle" /\ pc' = "cap" /\ job' = nextId
        /\ active' = t.seg /\ handle' = t.file /\ records' = records \cup {new}
    BY DEF Append, CanAppend
  <1>2. /\ DiskInv' /\ CursorInv' /\ Recoverable' = Recoverable \cup {new}
        /\ linked' = linked \cup {t.file} /\ valid'[t.file] = len'[t.file]
        /\ \A s \in linked : s # t.file => valid'[s] = valid[s] /\ len'[s] = len[s]
    BY <1>1, WriteWhole
  <1>3. t.file = t.seg /\ t.file \in Nat /\ \A s \in linked : s <= t.file
    BY <1>1, TargetFacts, TargetType, SegFacts
  <1>4. nextId' = nextId + 1 /\ nextId \in Ids /\ accepted' = accepted /\ acked' = acked
        /\ corrupt' = corrupt /\ evicted' = evicted
    BY <1>1, TargetType DEF Write
  <1>5. ActiveInv'
    BY <1>1, <1>2, <1>3 DEF ActiveInv
  <1>6. IndexInv'
    <2>1. \A r \in Recoverable : r.id # nextId
      BY DEF Recoverable, DiskInv, TypeOK, Record, Ids
    <2>2. \A r \in Recoverable : r.id \in accepted \ (acked \cup corrupt) => r \in records
      BY <1>1 DEF IndexInv
    <2> QED BY <1>1, <1>2, <1>4, <2>1, <2>2 DEF IndexInv
  <1>7. JobInv'
    <2>1. nextId \notin acked
      BY <1>4 DEF JobInv, Ids
    <2>2. nextId \in IdsOf(records')
      <3>1. new \in records' /\ new.id = nextId
        BY <1>1
      <3> QED BY <3>1 DEF IdsOf
    <2>3. nextId < nextId' /\ \A i \in accepted \cup acked : i < nextId'
      BY <1>4 DEF JobInv, TypeOK, Ids
    <2> QED BY <1>1, <1>4, <2>1, <2>2, <2>3 DEF JobInv, IdsOf
  <1>8. Durable'
    BY <1>2, <1>4 DEF Durable, Owed, IdsOf
  <1> QED BY <1>2, <1>5, <1>6, <1>7, <1>8

\* append that fails at the sync: the record is on disk and not in the index.
LEMMA AppendFailsStep ==
    ASSUME NoTearing, IInv, TypeOK', NEW n \in Sizes, NEW k \in 0..n, AppendFails(n, k)
    PROVE  IInv'
  <1> DEFINE t == Target(n)
             new == [id |-> nextId, seg |-> t.seg, off |-> t.off, len |-> n]
  <1> USE DEF IInv
  <1>0. k = n
    <2>1. n \in Nat
      BY SizesAssumption
    <2>2. ~(k < n)
      BY DEF AppendFails, NoTearing
    <2> QED BY <2>1, <2>2
  <1>1. Write(n, n) /\ CanAppend(n) /\ pc = "idle" /\ pc' = pc /\ job' = job
        /\ active' = t.seg /\ handle' = t.file /\ records' = records
    BY <1>0 DEF AppendFails, CanAppend
  <1>2. /\ DiskInv' /\ CursorInv' /\ Recoverable' = Recoverable \cup {new}
        /\ linked' = linked \cup {t.file} /\ valid'[t.file] = len'[t.file]
        /\ \A s \in linked : s # t.file => valid'[s] = valid[s] /\ len'[s] = len[s]
    BY <1>1, WriteWhole
  <1>3. t.file = t.seg /\ t.file \in Nat /\ \A s \in linked : s <= t.file
    BY <1>1, TargetFacts, TargetType, SegFacts
  <1>4. nextId' = nextId + 1 /\ nextId \in Ids /\ accepted' = accepted /\ acked' = acked
        /\ corrupt' = corrupt /\ evicted' = evicted
    BY <1>1, TargetType DEF Write
  <1>5. ActiveInv'
    BY <1>1, <1>2, <1>3 DEF ActiveInv
  <1>6. IndexInv'
    <2>1. nextId \notin accepted \cup {job}
      BY <1>4 DEF JobInv, TypeOK, Ids
    <2> QED BY <1>1, <1>2, <1>4, <2>1 DEF IndexInv
  <1>7. JobInv'
    BY <1>1, <1>4 DEF JobInv, TypeOK, Ids, IdsOf
  <1>8. Durable'
    BY <1>2, <1>4 DEF Durable, Owed, IdsOf
  <1> QED BY <1>2, <1>5, <1>6, <1>7, <1>8

\* The process dies in append, with none, part or all of the record written.
LEMMA AppendCrashStep ==
    ASSUME IInv, TypeOK', NEW n \in Sizes, NEW k \in 0..n, AppendCrash(n, k)
    PROVE  IInv'
  <1> DEFINE t == Target(n)
             new == [id |-> nextId, seg |-> t.seg, off |-> t.off, len |-> n]
  <1> USE DEF IInv
  <1>1. Write(n, k) /\ CanAppend(n) /\ pc' = "down" /\ job' = 0 /\ records' = {}
    BY DEF AppendCrash
  <1>2. DiskInv' /\ CursorInv' /\ Recoverable \subseteq Recoverable'
    <2>1. n \in Nat
      BY SizesAssumption
    <2>2. CASE k = n
      BY <1>1, <2>2, WriteWhole
    <2>3. CASE k < n
      BY <1>1, <2>3, WriteTorn
    <2> QED BY <2>1, <2>2, <2>3
  <1>3. nextId' = nextId + 1 /\ nextId \in Ids /\ accepted' = accepted /\ acked' = acked
        /\ corrupt' = corrupt /\ evicted' = evicted
    BY <1>1, TargetType DEF Write
  <1>4. ActiveInv' /\ IndexInv'
    BY <1>1 DEF ActiveInv, IndexInv
  <1>5. JobInv'
    BY <1>1, <1>3 DEF JobInv, TypeOK, Ids
  <1>6. Durable'
    BY <1>2, <1>3 DEF Durable, Owed, IdsOf
  <1> QED BY <1>2, <1>4, <1>5, <1>6

\* A segment is unlinked that is not the open one and is either the oldest,
\* whose owed records are then counted as evicted, or behind the cursor.
LEMMA UnlinkFacts ==
    ASSUME IInv, pc # "down", TypeOK', NEW s \in linked, s # active, Unlink(s),
           \/ \A q \in linked : s <= q
           \/ s < dcursor.seg,
           dcursor' = dcursor, nextId' = nextId
    PROVE  /\ DiskInv' /\ CursorInv' /\ linked' = linked \ {s} /\ active \in linked'
           /\ \A q \in linked' : valid'[q] = valid[q] /\ len'[q] = len[q]
           /\ Recoverable' = {r \in Recoverable : r.seg # s}
  <1> USE DEF IInv
  <1>1. handle = active /\ active \in linked /\ s \in Segs
    BY DEF ActiveInv, TypeOK
  <1>2. linked' = linked \ {s} /\ disk' = {r \in disk : r.seg # s}
        /\ len' = [len EXCEPT ![s] = 0] /\ valid' = [valid EXCEPT ![s] = 0]
    BY <1>1 DEF Unlink
  <1>3. \A q \in Segs : q # s => valid'[q] = valid[q] /\ len'[q] = len[q]
    BY <1>2 DEF TypeOK
  <1>4. valid'[s] = 0 /\ len'[s] = 0
    BY <1>1, <1>2 DEF TypeOK
  <1>5. DiskInv'
    <2>1. \A r \in disk' : r.seg \in linked' /\ r.off < valid'[r.seg] /\ r.id < nextId'
      BY <1>2, <1>3 DEF DiskInv, TypeOK, Record
    <2>2. \A p, q \in disk' :
             p = q \/ (Before(p, q) /\ p.id < q.id) \/ (Before(q, p) /\ q.id < p.id)
      BY <1>2 DEF DiskInv
    <2>3. \A q \in Segs : valid'[q] <= len'[q] /\ (q \notin linked' => len'[q] = 0)
      BY <1>2, <1>3, <1>4 DEF DiskInv
    <2> QED BY <2>1, <2>2, <2>3 DEF DiskInv, Before
  <1>6. CursorInv'
    <2>1. active \in linked'
      BY <1>1, <1>2
    <2>2. \E q \in linked' : dcursor.seg <= q
      <3>1. PICK q \in linked : dcursor.seg <= q
        BY <1>1 DEF CursorInv
      <3>2. linked \subseteq Nat /\ dcursor.seg \in Nat
        BY SegFacts DEF TypeOK, Position
      <3>3. q <= active
        BY <3>1 DEF ActiveInv
      <3> QED BY <1>1, <2>1, <3>1, <3>2, <3>3
    <2>3. dcursor.seg \in linked' => dcursor.off <= valid'[dcursor.seg]
      BY <1>2, <1>3 DEF CursorInv, TypeOK, Position
    <2> QED BY <2>1, <2>2, <2>3 DEF CursorInv
  <1>7. Recoverable' = {r \in Recoverable : r.seg # s}
    <2>1. \A r \in disk : r.seg # s => valid'[r.seg] = valid[r.seg]
      BY <1>3 DEF TypeOK, Record
    <2> QED BY <1>2, <2>1 DEF Recoverable, Before
  <1> QED BY <1>1, <1>2, <1>3, <1>5, <1>6, <1>7 DEF TypeOK

\* Eviction of the oldest segment.
LEMMA EvictStep ==
    ASSUME IInv, TypeOK', CapEvict
    PROVE  IInv' /\ Recoverable' = {r \in Recoverable : r.seg # Oldest}
  <1> USE DEF IInv
  <1>1. Oldest \in linked /\ (\A q \in linked : Oldest <= q) /\ Oldest # active
    BY OldestSegment DEF CapEvict, OverCap, Oldest, TypeOK
  <1>2. pc = "cap" /\ pc' = "evicted" /\ Unlink(Oldest) /\ job' = job
        /\ records' = {r \in records : r.seg # Oldest}
        /\ evicted' = evicted \cup (IdsOf({r \in Recoverable : r.seg = Oldest}) \ acked)
        /\ active' = active /\ handle' = handle /\ nextId' = nextId /\ dcursor' = dcursor
        /\ accepted' = accepted /\ acked' = acked /\ corrupt' = corrupt
    BY DEF CapEvict
  <1>3. /\ DiskInv' /\ CursorInv' /\ linked' = linked \ {Oldest} /\ active \in linked'
        /\ \A q \in linked' : valid'[q] = valid[q] /\ len'[q] = len[q]
        /\ Recoverable' = {r \in Recoverable : r.seg # Oldest}
    BY <1>1, <1>2, UnlinkFacts
  <1>4. ActiveInv'
    BY <1>2, <1>3 DEF ActiveInv
  <1>5. IndexInv'
    BY <1>2, <1>3 DEF IndexInv
  <1>6. JobInv'
    <2>1. ASSUME job # 0 PROVE job \in IdsOf(records') \cup evicted'
      <3>1. CASE job \in evicted
        BY <1>2, <3>1
      <3>2. CASE job \in IdsOf(records)
        <4>1. PICK r \in records : r.id = job
          BY <3>2 DEF IdsOf
        <4>2. r \in Recoverable /\ job \notin acked
          BY <2>1, <4>1 DEF IndexInv, JobInv
        <4> QED BY <1>2, <4>1, <4>2 DEF IdsOf
      <3> QED BY <2>1, <3>1, <3>2 DEF JobInv
    <2> QED BY <1>2, <2>1 DEF JobInv, IdsOf
  <1>7. Durable'
    BY <1>2, <1>3 DEF Durable, Owed, IdsOf
  <1> QED BY <1>3, <1>4, <1>5, <1>6, <1>7

\* The deletion of a fully acknowledged segment.
LEMMA AckDeleteStep ==
    ASSUME IInv, TypeOK', AckDelete
    PROVE  IInv' /\ Recoverable' = Recoverable
  <1> DEFINE s == Min(FullyAcked)
  <1> USE DEF IInv
  <1>1. s \in linked /\ s < dcursor.seg /\ s # active
    <2>1. s \in FullyAcked
      BY OldestSegment DEF AckDelete, FullyAcked, TypeOK
    <2> QED BY <2>1 DEF FullyAcked
  <1>2. Unlink(s) /\ pc # "down" /\ UNCHANGED <<dcursor, memVars, histVars>>
    BY DEF AckDelete
  <1>3. /\ DiskInv' /\ CursorInv' /\ linked' = linked \ {s} /\ active \in linked'
        /\ \A q \in linked' : valid'[q] = valid[q] /\ len'[q] = len[q]
        /\ Recoverable' = {r \in Recoverable : r.seg # s}
    BY <1>1, <1>2, UnlinkFacts DEF histVars
  <1>4. Recoverable' = Recoverable
    <2>1. \A r \in Recoverable : r.seg # s
      BY <1>1 DEF Recoverable, Before
    <2> QED BY <1>3, <2>1
  <1>5. ActiveInv'
    BY <1>2, <1>3 DEF ActiveInv, memVars
  <1>6. IndexInv' /\ JobInv' /\ Durable'
    BY <1>2, <1>4 DEF IndexInv, JobInv, Durable, Owed, IdsOf, memVars, histVars
  <1> QED BY <1>3, <1>4, <1>5, <1>6

\* The fresh segment enforce_cap opens before it removes the only one.
LEMMA CapRollStep ==
    ASSUME IInv, TypeOK', CapRoll
    PROVE  IInv' /\ Recoverable' = Recoverable
  <1> USE DEF IInv
  <1>1. pc = "cap" /\ handle = active /\ active \in linked /\ linked \subseteq Nat
        /\ \A s \in linked : s <= active /\ valid[s] = len[s]
    BY SegFacts DEF CapRoll, ActiveInv, TypeOK
  <1>2. active + 1 \notin linked /\ active + 1 \in Segs /\ active \in Nat
    BY <1>1, SegFacts DEF CapRoll, TypeOK, Segs
  <1>3. linked' = linked \cup {active + 1} /\ active' = active + 1 /\ handle' = active + 1
        /\ UNCHANGED <<len, valid, disk, dcursor, pc, job, records, histVars>>
    BY DEF CapRoll
  <1>4. len[active + 1] = 0 /\ valid[active + 1] = 0
    BY <1>2 DEF DiskInv, TypeOK
  <1>5. DiskInv'
    BY <1>3 DEF DiskInv, Before, histVars
  <1>6. ActiveInv'
    BY <1>1, <1>2, <1>3, <1>4 DEF ActiveInv
  <1>7. CursorInv'
    <2>1. PICK s \in linked : dcursor.seg <= s
      BY <1>1 DEF CursorInv
    <2>2. dcursor.seg # active + 1
      BY <1>1, <1>2, <2>1, SegFacts DEF TypeOK, Position
    <2> QED BY <1>3, <2>1, <2>2 DEF CursorInv
  <1>8. Recoverable' = Recoverable
    BY <1>3 DEF Recoverable, DiskInv, Before
  <1>9. IndexInv' /\ JobInv' /\ Durable'
    BY <1>3, <1>8 DEF IndexInv, JobInv, Durable, Owed, IdsOf, histVars
  <1> QED BY <1>5, <1>6, <1>7, <1>8, <1>9

\* Reopening finds every whole record and cuts off a torn tail.
LEMMA OpenStep ==
    ASSUME IInv, TypeOK', Open
    PROVE  IInv' /\ Recoverable' = Recoverable /\ records' = Recoverable'
  <1> DEFINE found == IF linked = {} THEN {0} ELSE linked
  <1> USE DEF IInv
  <1>1. PICK scan \in [found -> UNION {Scan(s) : s \in found}] :
          /\ \A s \in found : scan[s] \in Scan(s)
          /\ linked' = found
          /\ active' = LastSegment(found) /\ handle' = LastSegment(found)
          /\ len' = [s \in Segs |-> IF s \in linked THEN scan[s].end ELSE 0]
          /\ valid' = len'
          /\ disk' = {r \in disk : r.seg \in linked /\
                         (r.off < valid[r.seg] \/ r.off >= scan[r.seg].from)}
          /\ records' = {r \in disk' : ~Before(r, dcursor)}
    BY DEF Open
  <1>2. pc' = "cap" /\ job' = 0 /\ UNCHANGED <<dcursor, histVars>>
    BY DEF Open
  <1>3. found \subseteq Segs /\ found # {} /\ linked \subseteq found
    BY SegFacts DEF TypeOK
  <1>4. LastSegment(found) \in found /\ \A s \in found : s <= LastSegment(found)
    BY <1>3, NewestSegment DEF LastSegment
  <1>5. \A s \in linked : valid'[s] = valid[s]
    <2> TAKE s \in linked
    <2>1. Buried(s) = {}
      BY DEF Buried, DiskInv, TypeOK, Record
    <2>2. Scan(s) = {[from |-> len[s], end |-> valid[s]]}
      BY <2>1 DEF Scan
    <2>3. scan[s] \in Scan(s) /\ s \in Segs
      BY <1>1, <1>3
    <2>4. scan[s].end = valid[s]
      BY <2>2, <2>3
    <2> QED BY <1>1, <2>3, <2>4
  <1>6. \A s \in Segs : s \notin linked => len'[s] = 0
    BY <1>1
  <1>7. disk' = disk
    BY <1>1 DEF DiskInv
  <1>8. DiskInv'
    <2>1. \A r \in disk' : r.seg \in linked' /\ r.off < valid'[r.seg] /\ r.id < nextId'
      BY <1>1, <1>2, <1>3, <1>5, <1>7 DEF DiskInv, histVars
    <2>2. \A p, q \in disk' :
             p = q \/ (Before(p, q) /\ p.id < q.id) \/ (Before(q, p) /\ q.id < p.id)
      BY <1>7 DEF DiskInv
    <2>3. \A s \in Segs : valid'[s] <= len'[s] /\ (s \notin linked' => len'[s] = 0)
      BY <1>1, <1>3, <1>6 DEF TypeOK
    <2> QED BY <2>1, <2>2, <2>3 DEF DiskInv, Before
  <1>9. ActiveInv'
    BY <1>1, <1>4 DEF ActiveInv
  <1>10. CursorInv'
    <2>1. CASE linked = {}
      <3>1. dcursor = [seg |-> 0, off |-> 0] /\ linked' = {0}
        BY <1>1, <2>1 DEF CursorInv
      <3>2. valid'[0] \in Nat
        BY SegFacts DEF TypeOK
      <3> QED BY <1>2, <3>1, <3>2 DEF CursorInv
    <2>2. CASE linked # {}
      BY <1>1, <1>2, <1>5, <2>2 DEF CursorInv
    <2> QED BY <2>1, <2>2
  <1>11. Recoverable' = {r \in disk : ~Before(r, dcursor)}
    <2>1. \A r \in disk : r.seg \in linked' /\ r.off < valid'[r.seg]
      BY <1>7, <1>8 DEF DiskInv
    <2> QED BY <1>2, <1>7, <2>1 DEF Recoverable, Before
  <1>12. Recoverable = {r \in disk : ~Before(r, dcursor)}
    BY DEF Recoverable, DiskInv
  <1>13. records' = Recoverable'
    BY <1>1, <1>7, <1>11
  <1>14. IndexInv' /\ JobInv' /\ Durable'
    <2>1. 0 < nextId
      BY DEF TypeOK
    <2> QED BY <1>2, <1>11, <1>12, <1>13, <2>1
            DEF IndexInv, JobInv, Durable, Owed, IdsOf, histVars
  <1> QED BY <1>8, <1>9, <1>10, <1>11, <1>12, <1>13, <1>14

\* The structural invariant is preserved by every step.
LEMMA IInvStep == NoTearing /\ IInv /\ [Next]_vars => IInv'
  <1> SUFFICES ASSUME NoTearing, IInv, [Next]_vars PROVE IInv'
    OBVIOUS
  <1> USE DEF IInv
  <1>0. TypeOK'
    BY TypeStep
  <1>1. ASSUME NEW n \in Sizes, Append(n) PROVE IInv'
    BY <1>0, <1>1, AppendStep
  <1>2. ASSUME NEW n \in Sizes, RollFails(n) PROVE IInv'
    BY <1>2 DEF RollFails, NoTearing
  <1>3. ASSUME NEW n \in Sizes, NEW k \in 0..n, AppendFails(n, k) PROVE IInv'
    BY <1>0, <1>3, AppendFailsStep
  <1>4. ASSUME NEW n \in Sizes, NEW k \in 0..n, AppendCrash(n, k) PROVE IInv'
    BY <1>0, <1>4, AppendCrashStep
  <1>5. CASE CapRoll
    BY <1>0, <1>5, CapRollStep
  <1>6. CASE CapEvict
    BY <1>0, <1>6, EvictStep
  <1>7. CASE CapPersist
    BY <1>0, <1>7, PersistStep DEF CapPersist
  <1>8. CASE CapDone
    <2>0. \A r \in Recoverable : r.id # 0
      BY DEF Recoverable, TypeOK, Record, Ids
    <2>1. ActiveInv' /\ IndexInv'
      BY <1>8, <2>0, DirUnchanged DEF CapDone, ActiveInv, IndexInv, dirVars
    <2>3. JobInv'
      BY <1>8 DEF CapDone, JobInv, IdsOf, TypeOK
    <2>2. Owed' \subseteq Owed \cup IdsOf(Recoverable)
      BY <1>8 DEF CapDone, Owed, JobInv, IndexInv, IdsOf
    <2> QED BY <1>0, <1>8, <2>1, <2>2, <2>3, MemoryStep DEF CapDone
  <1>9. CASE AckPersist
    BY <1>0, <1>9, PersistStep DEF AckPersist, JobInv
  <1>10. CASE AckDelete
    BY <1>0, <1>10, AckDeleteStep
  <1>11. CASE AckDone
    <2>1. ActiveInv' /\ IndexInv' /\ JobInv' /\ Owed' = Owed
      BY <1>11, DirUnchanged
         DEF AckDone, ActiveInv, IndexInv, JobInv, dirVars, histVars, IdsOf, Owed
    <2> QED BY <1>0, <1>11, <2>1, MemoryStep DEF AckDone, histVars
  <1>12. CASE AckPop
    <2>1. Front(records) \in records
      BY <1>12, FrontExists DEF AckPop, TypeOK
    <2>2. \A p, q \in records : p.id = q.id => p = q
      BY DEF IndexInv, Recoverable, DiskInv, TypeOK, Record, Ids
    <2>3. ActiveInv' /\ IndexInv'
      BY <1>12, <2>1, DirUnchanged DEF AckPop, ActiveInv, IndexInv, dirVars
    <2>4. JobInv'
      <3>1. Front(records).id < nextId
        BY <2>1 DEF IndexInv, Recoverable, DiskInv
      <3>2. job = 0
        BY <1>12 DEF AckPop, JobInv
      <3> QED BY <1>12, <3>1, <3>2 DEF AckPop, JobInv, IdsOf
    <2>5. Owed' \subseteq Owed
      BY <1>12 DEF AckPop, Owed
    <2> QED BY <1>0, <1>12, <2>3, <2>4, <2>5, MemoryStep DEF AckPop
  <1>13. CASE SkipCorrupt
    <2>1. ActiveInv' /\ IndexInv' /\ Owed' = Owed
      BY <1>13, DirUnchanged DEF SkipCorrupt, ActiveInv, IndexInv, dirVars, histVars, Owed
    <2>2. JobInv'
      BY <1>13 DEF SkipCorrupt, JobInv, IdsOf, histVars
    <2> QED BY <1>0, <1>13, <2>1, <2>2, MemoryStep DEF SkipCorrupt, histVars
  <1>14. CASE OpFails \/ CapExhausted
    <2>1. UNCHANGED <<dirVars, histVars>> /\ pc # "down" /\ ReturnError
      BY <1>14 DEF OpFails, CapExhausted
    <2>2. \A r \in Recoverable : r.id # 0
      BY DEF Recoverable, TypeOK, Record, Ids
    <2>3. ActiveInv' /\ IndexInv' /\ Owed' = Owed
      BY <2>1, <2>2, DirUnchanged
         DEF ReturnError, Forget, ActiveInv, IndexInv, dirVars, histVars, Owed
    <2>4. JobInv'
      <3>1. 0 < nextId
        BY DEF TypeOK
      <3> QED BY <2>1, <3>1 DEF ReturnError, Forget, JobInv, histVars
    <2> QED BY <1>0, <2>1, <2>3, <2>4, MemoryStep DEF histVars
  <1>15. CASE CapRollFails
    BY <1>15 DEF CapRollFails, NoTearing
  <1>16. CASE Crash
    <2>1. ActiveInv' /\ IndexInv' /\ Owed' = Owed
      BY <1>16 DEF Crash, Forget, ActiveInv, IndexInv, histVars, Owed
    <2>2. JobInv'
      <3>1. 0 < nextId
        BY DEF TypeOK
      <3> QED BY <1>16, <3>1 DEF Crash, Forget, JobInv, histVars
    <2> QED BY <1>0, <1>16, <2>1, <2>2, MemoryStep DEF Crash, histVars
  <1>17. CASE Open
    BY <1>0, <1>17, OpenStep
  <1>18. CASE Rot
    <2>1. ActiveInv' /\ IndexInv' /\ JobInv' /\ Owed' \subseteq Owed
      BY <1>18, DirUnchanged
         DEF Rot, ActiveInv, IndexInv, JobInv, dirVars, memVars, IdsOf, Owed
    <2> QED BY <1>0, <1>18, <2>1, MemoryStep DEF Rot
  <1>19. CASE UNCHANGED vars
    <2>1. ActiveInv' /\ IndexInv' /\ Owed' = Owed
      BY <1>19, DirUnchanged
         DEF vars, ActiveInv, IndexInv, dirVars, memVars, histVars, Owed
    <2>2. JobInv'
      BY <1>19 DEF vars, JobInv, memVars, histVars, IdsOf
    <2> QED BY <1>0, <1>19, <2>1, <2>2, MemoryStep DEF vars, histVars
  <1> QED
    BY <1>1, <1>2, <1>3, <1>4, <1>5, <1>6, <1>7, <1>8, <1>9, <1>10, <1>11, <1>12,
       <1>13, <1>14, <1>15, <1>16, <1>17, <1>18, <1>19 DEF Next, Internal

LEMMA IInvInit == Init => IInv
  <1> SUFFICES ASSUME Init PROVE IInv
    OBVIOUS
  <1>1. TypeOK
    BY SegFacts DEF Init, TypeOK, Position
  <1>2. DiskInv /\ ActiveInv /\ CursorInv /\ IndexInv /\ JobInv /\ Durable
    BY SegFacts DEF Init, DiskInv, ActiveInv, CursorInv, IndexInv, JobInv, Durable, Owed
  <1> QED BY <1>1, <1>2 DEF IInv

\* The structure of the directory and of the index, in every reachable state.
LEMMA WalStructure == NoTearing /\ Spec => []IInv
  <1>1. NoTearing /\ IInv /\ [Next]_vars => IInv'
    BY IInvStep
  <1> SUFFICES ASSUME NoTearing PROVE Spec => []IInv
    OBVIOUS
  <1>2. IInv /\ [Next]_vars => IInv'
    BY <1>1
  <1> QED BY <1>2, IInvInit, PTL DEF Spec

-----------------------------------------------------------------------------
(* The properties *)

\* No kill of the process, failed sync, failed cursor update or failed deletion
\* loses a record append accepted (wal.rs: append, ack, enforce_cap, open).
THEOREM WalDurable == NoTearing /\ Spec => []Durable
  <1>1. IInv => Durable
    BY DEF IInv
  <1> QED BY <1>1, WalStructure, PTL

\* While the process runs every owed record is in the index, and next finds each
\* record of the index where it looks: none has to wait for a restart, and no
\* head stops the queue (wal.rs: append, next, enforce_cap).
THEOREM WalDeliverable == NoTearing /\ Spec => []Deliverable
  <1>1. IInv => Deliverable
    <2> SUFFICES ASSUME IInv, pc # "down"
                 PROVE  Owed \subseteq IdsOf(records) /\ \A r \in records : Readable(r)
      BY DEF Deliverable
    <2>1. ASSUME NEW i \in Owed PROVE i \in IdsOf(records)
      <3>1. PICK r \in Recoverable : r.id = i
        BY DEF IInv, Durable, IdsOf
      <3>2. r \in records
        BY <3>1 DEF IInv, IndexInv, Owed
      <3> QED BY <3>1, <3>2 DEF IdsOf
    <2>2. \A r \in records : Readable(r)
      BY DEF IInv, IndexInv, Recoverable, Readable
    <2> QED BY <2>1, <2>2
  <1> QED BY <1>1, WalStructure, PTL

\* Position order is the order of ids, and ids are unique.
LEMMA OrderOfIds ==
    ASSUME IInv, NEW p \in Recoverable, NEW q \in Recoverable
    PROVE  /\ Before(p, q) <=> p.id < q.id
           /\ p.id = q.id <=> p = q
           /\ p.id \in Ids /\ p.id \in Nat
  <1>1. p \in disk /\ q \in disk /\ p \in Record /\ q \in Record
    BY DEF IInv, TypeOK, Recoverable
  <1>2. p.seg \in Nat /\ q.seg \in Nat /\ p.off \in Nat /\ q.off \in Nat
        /\ p.id \in Nat /\ q.id \in Nat /\ p.id \in Ids
    BY <1>1, SegFacts DEF Record
  <1>3. p = q \/ (Before(p, q) /\ p.id < q.id) \/ (Before(q, p) /\ q.id < p.id)
    BY <1>1 DEF IInv, DiskInv
  <1>4. ~(Before(p, q) /\ Before(q, p)) /\ (p = q => ~Before(p, q))
    BY <1>2 DEF Before
  <1> QED BY <1>2, <1>3, <1>4

\* Position order is append order: backfill is first in, first out.
THEOREM WalFifo == NoTearing /\ Spec => []Fifo
  <1>1. IInv => Fifo
    BY OrderOfIds DEF Fifo
  <1> QED BY <1>1, WalStructure, PTL

\* The persisted cursor only moves forward (wal.rs: ack, enforce_cap).
THEOREM WalCursorAdvances == NoTearing /\ Spec => CursorAdvances
  <1>1. IInv /\ [Next]_vars => [~Before(dcursor', dcursor)]_vars
    <2> SUFFICES ASSUME IInv, Next PROVE ~Before(dcursor', dcursor)
      BY DEF vars
    <2>1. ~Before(dcursor, dcursor)
      <3>1. dcursor.seg \in Nat /\ dcursor.off \in Nat
        BY SegFacts DEF IInv, TypeOK, Position
      <3> QED BY <3>1 DEF Before
    <2>2. CASE CapPersist
      BY <2>2, HeadCursorFacts DEF CapPersist
    <2>3. CASE AckPersist
      BY <2>3, HeadCursorFacts DEF AckPersist
    <2>4. CASE ~CapPersist /\ ~AckPersist
      <3>1. dcursor' = dcursor
        BY <2>4 DEF Next, Internal, Append, RollFails, AppendFails, AppendCrash, Write,
           CapRoll, CapEvict, CapDone, AckDelete, AckDone, AckPop, SkipCorrupt, OpFails, CapExhausted,
           CapRollFails, Crash, Open, Rot, dirVars
      <3> QED BY <2>1, <3>1
    <2> QED BY <2>2, <2>3, <2>4
  <1>2. []IInv /\ [][Next]_vars => CursorAdvances
    BY <1>1, PTL DEF CursorAdvances
  <1> QED BY <1>2, WalStructure, PTL DEF Spec

\* Sizes under which append cannot evict what it writes: the cap holds at least
\* one full segment (the default is 64 MiB against 4 MiB).
RoomyCap == SegmentMax <= MaxBytes

\* No segment outgrows the cap and the record being appended stays in the open
\* segment.
LEMMA RoomStep == NoTearing /\ RoomyCap /\ IInv /\ RoomInv /\ [Next]_vars => RoomInv'
  <1> SUFFICES ASSUME NoTearing, RoomyCap, IInv, RoomInv, [Next]_vars PROVE RoomInv'
    OBVIOUS
  <1> USE DEF IInv
  <1>0. TypeOK'
    BY TypeStep
  <1>1. ASSUME NEW n \in Sizes, NEW k \in 0..n, CanAppend(n), Write(n, k)
        PROVE  \A s \in Segs : len'[s] <= MaxBytes
    <2> DEFINE t == Target(n)
    <2>1. n \in Nat /\ k \in Nat /\ k <= n /\ t.file \in Segs /\ t.off \in Nat
      BY <1>1, TargetType
    <2>2. t.off = len[t.file] /\ (NeedsRoll(n) => t.off = 0) /\ n <= MaxBytes
          /\ (~NeedsRoll(n) => t.off = len[handle])
      BY <1>1, TargetFacts DEF Target, CanAppend
    <2>3. t.off + n <= MaxBytes
      <3>1. MaxBytes \in Nat /\ SegmentMax \in Nat
        BY CapAssumption
      <3>2. NeedsRoll(n) \/ len[handle] = 0 \/ len[handle] + n <= SegmentMax
        BY <2>1, <3>1 DEF NeedsRoll, TypeOK
      <3> QED BY <2>1, <2>2, <3>1, <3>2 DEF RoomyCap
    <2>4. len' = [len EXCEPT ![t.file] = t.off + k]
      BY <1>1 DEF Write
    <2>5. \A s \in Segs : len[s] \in Nat /\ len[s] <= MaxBytes
      BY DEF RoomInv, TypeOK
    <2>6. t.off + k <= MaxBytes
      BY <2>1, <2>3, CapAssumption
    <2> QED BY <2>1, <2>4, <2>5, <2>6 DEF TypeOK
  <1>2. ASSUME NEW n \in Sizes, Append(n) PROVE RoomInv'
    <2>1. n \in 0..n /\ CanAppend(n) /\ Write(n, n)
      BY <1>2, SizesAssumption DEF Append
    <2> DEFINE new == [id |-> nextId, seg |-> Target(n).seg, off |-> Target(n).off, len |-> n]
    <2>2. new \in records' /\ new.id = nextId /\ new.seg = Target(n).seg
          /\ job' = nextId /\ active' = Target(n).seg
      BY <1>2 DEF Append
    <2>3. \A s \in Segs : len'[s] <= MaxBytes
      BY <1>1, <2>1
    <2> QED BY <2>2, <2>3 DEF RoomInv
  <1>3. ASSUME NEW n \in Sizes, NEW k \in 0..n, AppendFails(n, k) PROVE RoomInv'
    <2>1. job' = 0
      BY <1>3 DEF AppendFails, CanAppend, JobInv
    <2> QED BY <1>1, <1>3, <2>1 DEF AppendFails, RoomInv
  <1>4. ASSUME NEW n \in Sizes, NEW k \in 0..n, AppendCrash(n, k) PROVE RoomInv'
    BY <1>1, <1>4 DEF AppendCrash, RoomInv
  <1>5. ASSUME NEW n \in Sizes, RollFails(n) PROVE RoomInv'
    BY <1>5 DEF RollFails, NoTearing
  <1>6. CASE CapRoll
    <2>1. linked = {active}
      <3>1. \A s \in linked : Oldest <= s /\ s <= active
        BY <1>6, OldestSegment DEF CapRoll, OverCap, Oldest, ActiveInv, TypeOK
      <3>2. active \in linked /\ linked \subseteq Nat
        BY <1>6, SegFacts DEF CapRoll, ActiveInv, TypeOK
      <3>3. \A s \in linked : s = active
        <4> TAKE s \in linked
        <4>1. active <= s /\ s <= active
          BY <1>6, <3>1 DEF CapRoll
        <4> QED BY <3>2, <4>1
      <3> QED BY <3>2, <3>3
    <2>2. TotalBytes = len[active] /\ len[active] \in Nat
      BY <2>1, SumOfOne DEF TotalBytes, TypeOK
    <2>3. len[active] <= MaxBytes
      BY DEF RoomInv, TypeOK
    <2> QED BY <1>6, <2>2, <2>3, CapAssumption DEF CapRoll, OverCap
  <1>7. CASE CapEvict
    <2>1. Oldest # active /\ records' = {r \in records : r.seg # Oldest}
          /\ job' = job /\ active' = active /\ Unlink(Oldest)
      BY <1>7 DEF CapEvict
    <2>2. \A s \in Segs : len'[s] <= MaxBytes
      BY <2>1, CapAssumption DEF Unlink, RoomInv, TypeOK
    <2> QED BY <2>1, <2>2 DEF RoomInv
  <1>8. CASE AckDelete
    <2>1. \A s \in Segs : len'[s] <= MaxBytes
      BY <1>8, CapAssumption DEF AckDelete, Unlink, RoomInv, TypeOK
    <2> QED BY <1>8, <2>1 DEF AckDelete, RoomInv, memVars
  <1>9. CASE Open
    <2>1. PICK scan : /\ \A s \in linked : scan[s] \in Scan(s)
                      /\ len' = [s \in Segs |-> IF s \in linked THEN scan[s].end ELSE 0]
      BY <1>9 DEF Open
    <2>2. \A s \in linked : scan[s].end <= len[s] /\ scan[s].end \in Nat
      <3> TAKE s \in linked
      <3>1. Buried(s) = {} /\ s \in Segs /\ valid[s] <= len[s]
        BY DEF Buried, DiskInv, TypeOK, Record
      <3>2. scan[s] = [from |-> len[s], end |-> valid[s]]
        BY <2>1, <3>1 DEF Scan
      <3> QED BY <3>1, <3>2 DEF TypeOK
    <2>3. \A s \in Segs : len'[s] <= MaxBytes
      BY <2>1, <2>2, CapAssumption DEF RoomInv, TypeOK
    <2> QED BY <1>9, <2>3 DEF Open, RoomInv
  <1>10. CASE CapPersist \/ CapDone \/ AckPersist \/ AckDone \/ OpFails \/ CapExhausted \/ Crash \/ Rot
              \/ UNCHANGED vars
    <2>1. len' = len /\ (job' # 0 => job' = job /\ records' = records /\ active' = active)
      BY <1>10 DEF CapPersist, CapDone, AckPersist, AckDone, OpFails, CapExhausted,
         ReturnError, Forget, Crash, Rot, vars,
         dirVars, memVars, histVars
    <2> QED BY <2>1 DEF RoomInv
  <1>11. CASE AckPop \/ SkipCorrupt
    <2>1. job' = 0 /\ len' = len
      BY <1>11 DEF AckPop, SkipCorrupt, JobInv, dirVars
    <2> QED BY <2>1 DEF RoomInv
  <1>12. CASE CapRollFails
    BY <1>12 DEF CapRollFails, NoTearing
  <1> QED
    BY <1>2, <1>3, <1>4, <1>5, <1>6, <1>7, <1>8, <1>9, <1>10, <1>11, <1>12 DEF Next, Internal

\* With a cap of at least one segment, the hazard named in append's comment
\* cannot occur: an append that returns Ok has its record in the index
\* (wal.rs: append, enforce_cap).
THEOREM WalAppendKeepsItsRecord == NoTearing /\ RoomyCap /\ Spec => AppendKeepsItsRecord
  <1> SUFFICES ASSUME NoTearing, RoomyCap PROVE Spec => AppendKeepsItsRecord
    OBVIOUS
  <1>1. Init => RoomInv
    BY CapAssumption DEF Init, RoomInv
  <1>2. IInv /\ RoomInv /\ [Next]_vars => RoomInv'
    BY RoomStep
  <1>3. RoomInv /\ [Next]_vars =>
          [\A i \in accepted' \ accepted : i \in IdsOf(records')]_vars
    <2> SUFFICES ASSUME RoomInv, Next, NEW i \in accepted' \ accepted
                 PROVE  i \in IdsOf(records')
      BY DEF vars
    <2>1. CASE CapDone
      BY <2>1 DEF CapDone, RoomInv, IdsOf
    <2>2. CASE ~CapDone
      BY <2>2 DEF Next, Internal, Append, RollFails, AppendFails, AppendCrash, Write,
         CapRoll, CapEvict, CapPersist, AckPersist, AckDelete, AckDone, AckPop, SkipCorrupt,
         OpFails, CapExhausted, CapRollFails, Crash, Open, Rot, dirVars, memVars, histVars
    <2> QED BY <2>1, <2>2
  <1>4. []IInv /\ Spec => []RoomInv
    BY <1>1, <1>2, PTL DEF Spec
  <1>5. []RoomInv /\ [][Next]_vars => AppendKeepsItsRecord
    BY <1>3, PTL DEF AppendKeepsItsRecord
  <1> QED BY <1>4, <1>5, WalStructure, PTL DEF Spec
-----------------------------------------------------------------------------
(* The abstract queue *)

\* Ids are given out once, also to records that were evicted since.
EvictedInv == \A i \in evicted : i < nextId

LEMMA EvictedStep == IInv /\ EvictedInv /\ [Next]_vars => EvictedInv'
  <1> SUFFICES ASSUME IInv, EvictedInv, [Next]_vars PROVE EvictedInv'
    OBVIOUS
  <1>1. nextId \in Nat /\ evicted \subseteq Nat
    BY SegFacts DEF IInv, TypeOK
  <1>2. CASE CapEvict
    <2>1. \A r \in Recoverable : r.id < nextId
      BY DEF IInv, DiskInv, Recoverable
    <2> QED BY <1>2, <2>1 DEF CapEvict, EvictedInv, IdsOf
  <1>3. CASE ~CapEvict
    <2>1. evicted' = evicted /\ (nextId' = nextId \/ nextId' = nextId + 1)
      BY <1>3 DEF Next, Internal, Append, RollFails, AppendFails, AppendCrash, Write,
         CapRoll, CapPersist, CapDone, AckPersist, AckDelete, AckDone, AckPop, SkipCorrupt,
         OpFails, CapExhausted, CapRollFails, Crash, Open, Rot, vars, histVars
    <2> QED BY <1>1, <2>1 DEF EvictedInv
  <1> QED BY <1>2, <1>3

\* A whole record that reaches the disk is stored at the back of the queue.
LEMMA StorePromise ==
    ASSUME IInv, EvictedInv, TypeOK', NEW n \in Sizes, CanAppend(n), Write(n, n)
    PROVE  Promise!Next
  <1> DEFINE t == Target(n)
             new == [id |-> nextId, seg |-> t.seg, off |-> t.off, len |-> n]
  <1>1. Recoverable' = Recoverable \cup {new} /\ \A r \in Recoverable : r.id < nextId
    BY WriteWhole
  <1>2. IdsOf(Recoverable)' = IdsOf(Recoverable) \cup {nextId}
    <2>1. new.id = nextId
      OBVIOUS
    <2> HIDE DEF new
    <2>2. IdsOf(Recoverable \cup {new}) = IdsOf(Recoverable) \cup {new.id}
      BY DEF IdsOf
    <2>3. IdsOf(Recoverable)' = IdsOf(Recoverable \cup {new})
      BY <1>1 DEF IdsOf
    <2> QED BY <2>1, <2>2, <2>3
  <1>3. \A j \in IdsOf(Recoverable) : j < nextId
    BY <1>1 DEF IdsOf
  <1>4. nextId \in Ids /\ nextId \in Nat
    BY TargetType, SegFacts DEF IInv
  <1>5. nextId \notin accepted \cup acked \cup evicted
    BY <1>4 DEF IInv, JobInv, EvictedInv
  <1>6. UNCHANGED <<accepted, acked, evicted, corrupt>>
    BY DEF Write
  <1>7. Promise!Store(nextId)
    BY <1>2, <1>3, <1>5, <1>6 DEF Promise!Store
  <1> QED BY <1>4, <1>7 DEF Promise!Next

\* Records that lie before all others of the queue are those up to some id.
LEMMA FrontCut ==
    ASSUME IInv, NEW Out, Out \subseteq Recoverable, Out # {},
           \A o \in Out : \A r \in Recoverable \ Out : Before(o, r)
    PROVE  \E k \in Ids :
              /\ IdsOf(Recoverable \ Out) = {j \in IdsOf(Recoverable) : j > k}
              /\ {j \in IdsOf(Recoverable) : j <= k} = IdsOf(Out)
              /\ IdsOf(Recoverable) \ IdsOf(Recoverable \ Out) = IdsOf(Out)
  <1> DEFINE k == Max(IdsOf(Out))
  <1>1. \A r \in Recoverable : r.id \in Ids /\ r.id \in Nat
    BY OrderOfIds
  <1>2. IdsOf(Out) \subseteq Ids /\ IdsOf(Out) \subseteq Nat /\ IdsOf(Out) # {}
    BY <1>1 DEF IdsOf
  <1>3. MaxRecords \in Nat /\ \A j \in IdsOf(Out) : j <= MaxRecords
    BY <1>2, RecordsAssumption DEF Ids
  <1>4. k \in IdsOf(Out) /\ \A j \in IdsOf(Out) : j <= k
    BY <1>2, <1>3, MaxIsGreatest
  <1>5. PICK m \in Out : m.id = k
    BY <1>4 DEF IdsOf
  <1>6. k \in Ids /\ k \in Nat
    BY <1>2, <1>4
  <1>7. \A r \in Recoverable \ Out : k < r.id
    BY <1>5, OrderOfIds
  <1>8. \A r \in Out : r.id <= k
    BY <1>4 DEF IdsOf
  <1> HIDE DEF k
  <1>9. IdsOf(Recoverable) = IdsOf(Out) \cup IdsOf(Recoverable \ Out)
    BY DEF IdsOf
  <1>10. \A j \in IdsOf(Out) : j <= k /\ j \in Nat
    BY <1>1, <1>8 DEF IdsOf
  <1>11. \A j \in IdsOf(Recoverable \ Out) : k < j /\ j \in Nat
    BY <1>1, <1>7 DEF IdsOf
  <1>12. IdsOf(Recoverable \ Out) = {j \in IdsOf(Recoverable) : j > k}
    BY <1>6, <1>9, <1>10, <1>11
  <1>13. {j \in IdsOf(Recoverable) : j <= k} = IdsOf(Out)
    BY <1>6, <1>9, <1>10, <1>11
  <1>14. IdsOf(Recoverable) \ IdsOf(Recoverable \ Out) = IdsOf(Out)
    BY <1>6, <1>9, <1>10, <1>11
  <1> QED BY <1>6, <1>12, <1>13, <1>14

\* The eviction of a segment takes the front of the queue.
LEMMA EvictPromise ==
    ASSUME IInv, TypeOK', CapEvict
    PROVE  Promise!Next \/ UNCHANGED Promise!vars
  <1> DEFINE Out == {r \in Recoverable : r.seg = Oldest}
  <1>1. Recoverable' = Recoverable \ Out
    BY EvictStep
  <1>2. evicted' = evicted \cup (IdsOf(Out) \ acked)
        /\ UNCHANGED <<accepted, acked, corrupt>>
    BY DEF CapEvict
  <1>3. \A o \in Out : \A r \in Recoverable \ Out : Before(o, r)
    <2>1. \A s \in linked : Oldest <= s
      BY OldestSegment DEF CapEvict, OverCap, Oldest, IInv, TypeOK
    <2>2. \A r \in Recoverable : r.seg \in linked
      BY DEF Recoverable
    <2>3. linked \subseteq Nat /\ Oldest \in linked
      BY SegFacts, OldestSegment DEF CapEvict, OverCap, Oldest, IInv, TypeOK
    <2> TAKE o \in Out
    <2> TAKE r \in Recoverable \ Out
    <2>4. o.seg = Oldest /\ r.seg # Oldest /\ r.seg \in linked
      BY <2>2
    <2>5. o.seg < r.seg
      <3>1. Oldest \in Nat /\ r.seg \in Nat /\ Oldest <= r.seg
        BY <2>1, <2>3, <2>4
      <3> QED BY <2>4, <3>1
    <2> QED BY <2>5 DEF Before
  <1>4. CASE Out = {}
    <2>1. IdsOf(Out) = {}
      BY <1>4 DEF IdsOf
    <2>2. Recoverable' = Recoverable /\ evicted' = evicted
      BY <1>1, <1>2, <1>4, <2>1
    <2> QED BY <1>2, <2>2 DEF Promise!vars, IdsOf
  <1>5. CASE Out # {}
    <2>1. PICK k \in Ids :
              /\ IdsOf(Recoverable \ Out) = {j \in IdsOf(Recoverable) : j > k}
              /\ IdsOf(Recoverable) \ IdsOf(Recoverable \ Out) = IdsOf(Out)
      BY <1>3, <1>5, FrontCut
    <2>2. IdsOf(Recoverable)' = IdsOf(Recoverable \ Out)
      BY <1>1 DEF IdsOf
    <2>3. Promise!Evict(k)
      BY <1>2, <2>1, <2>2 DEF Promise!Evict
    <2> QED BY <2>3 DEF Promise!Next
  <1> QED BY <1>4, <1>5

\* What the persisted cursor leaves behind is settled.
LEMMA TrimPromise ==
    ASSUME IInv, pc # "down",
           Recoverable' = {r \in Recoverable : ~Before(r, HeadCursor)},
           UNCHANGED <<accepted, acked, evicted, corrupt>>
    PROVE  Promise!Next \/ UNCHANGED Promise!vars
  <1> DEFINE Out == {r \in Recoverable : Before(r, HeadCursor)}
  <1>1. Recoverable' = Recoverable \ Out
    OBVIOUS
  <1>2. HeadCursor \in Position /\ \A r \in records : ~Before(r, HeadCursor)
    BY HeadCursorFacts
  <1>3. \A o \in Out : \A r \in Recoverable \ Out : Before(o, r)
    <2>1. HeadCursor.seg \in Nat /\ HeadCursor.off \in Nat
      BY <1>2, SegFacts DEF Position
    <2>2. \A r \in Recoverable : r.seg \in Nat /\ r.off \in Nat
      BY SegFacts DEF IInv, TypeOK, Recoverable, Record
    <2> QED BY <2>1, <2>2 DEF Before
  <1>4. IdsOf(Out) \subseteq Promise!Settled
    <2> SUFFICES ASSUME NEW r \in Out PROVE r.id \in Promise!Settled
      BY DEF IdsOf
    <2>1. r \notin records /\ r \in Recoverable
      BY <1>2
    <2>2. r.id \notin accepted \ (acked \cup corrupt)
      BY <2>1 DEF IInv, IndexInv
    <2>3. r.id \in Ids
      BY OrderOfIds
    <2> QED BY <2>2, <2>3 DEF Promise!Settled
  <1>5. CASE Out = {}
    <2>1. Recoverable' = Recoverable
      BY <1>1, <1>5
    <2> QED BY <2>1 DEF Promise!vars, IdsOf
  <1>6. CASE Out # {}
    <2>1. PICK k \in Ids :
              /\ IdsOf(Recoverable \ Out) = {j \in IdsOf(Recoverable) : j > k}
              /\ {j \in IdsOf(Recoverable) : j <= k} = IdsOf(Out)
      BY <1>3, <1>6, FrontCut
    <2>2. IdsOf(Recoverable)' = IdsOf(Recoverable \ Out)
      BY <1>1 DEF IdsOf
    <2>3. \A j \in IdsOf(Recoverable) : j <= k => j \in Promise!Settled
      BY <1>4, <2>1
    <2>4. Promise!Trim(k)
      BY <2>1, <2>2, <2>3 DEF Promise!Trim
    <2> QED BY <2>4 DEF Promise!Next
  <1> QED BY <1>5, <1>6

\* The head of the index is the oldest record not settled yet.
LEMMA AckPromise ==
    ASSUME IInv, AckPop
    PROVE  Promise!Next
  <1> DEFINE r == Front(records)
  <1>1. r \in records /\ \A q \in records : ~Before(q, r)
    BY FrontExists DEF AckPop, IInv, TypeOK
  <1>2. r \in Recoverable /\ r.id \in Ids
    BY <1>1, OrderOfIds DEF IInv, IndexInv
  <1>3. r.id \notin corrupt /\ acked' = acked \cup {r.id} /\ pc # "down"
        /\ UNCHANGED <<dirVars, accepted, evicted, corrupt>>
    BY DEF AckPop
  <1> HIDE DEF r
  <1>4. Recoverable' = Recoverable
    BY <1>3, DirUnchanged
  <1>5. \A j \in IdsOf(Recoverable) : j < r.id => j \in Promise!Settled
    <2> SUFFICES ASSUME NEW q \in Recoverable, q.id < r.id PROVE q.id \in Promise!Settled
      BY DEF IdsOf
    <2>1. q \notin records /\ q.id \in Ids
      BY <1>1, <1>2, OrderOfIds
    <2>2. q.id \notin accepted \ (acked \cup corrupt)
      BY <1>3, <2>1 DEF IInv, IndexInv
    <2> QED BY <2>1, <2>2 DEF Promise!Settled
  <1>6. IdsOf(Recoverable)' = IdsOf(Recoverable) /\ r.id \in IdsOf(Recoverable)
    BY <1>2, <1>4 DEF IdsOf
  <1>7. Promise!Ack(r.id)
    BY <1>3, <1>5, <1>6 DEF Promise!Ack
  <1> QED BY <1>2, <1>7 DEF Promise!Next

\* Every step is one of the abstract queue or invisible to it.
LEMMA PromiseStep ==
    NoTearing /\ IInv /\ EvictedInv /\ [Next]_vars => [Promise!Next]_(Promise!vars)
  <1> SUFFICES ASSUME NoTearing, IInv, EvictedInv, [Next]_vars
               PROVE  Promise!Next \/ UNCHANGED Promise!vars
    OBVIOUS
  <1>0. TypeOK'
    BY TypeStep DEF IInv
  <1>s. ASSUME Recoverable' = Recoverable, UNCHANGED <<accepted, acked, evicted, corrupt>>
        PROVE  UNCHANGED Promise!vars
    BY <1>s DEF Promise!vars, IdsOf
  <1>1. ASSUME NEW n \in Sizes, Append(n) PROVE Promise!Next
    BY <1>0, <1>1, StorePromise DEF Append
  <1>2. ASSUME NEW n \in Sizes, RollFails(n) PROVE FALSE
    BY <1>2 DEF RollFails, NoTearing
  <1>3. ASSUME NEW n \in Sizes, NEW k \in 0..n, AppendFails(n, k) PROVE Promise!Next
    <2>1. n \in Nat /\ ~(k < n)
      BY <1>3, SizesAssumption DEF AppendFails, NoTearing
    <2>2. k = n
      BY <2>1
    <2> QED BY <1>0, <1>3, <2>2, StorePromise DEF AppendFails
  <1>4. ASSUME NEW n \in Sizes, NEW k \in 0..n, AppendCrash(n, k)
        PROVE  Promise!Next \/ UNCHANGED Promise!vars
    <2>1. n \in Nat /\ CanAppend(n) /\ Write(n, k)
      BY <1>4, SizesAssumption DEF AppendCrash
    <2>2. CASE k = n
      BY <1>0, <2>1, <2>2, StorePromise
    <2>3. CASE k < n
      <3>1. Recoverable' = Recoverable
        BY <1>0, <2>1, <2>3, WriteTorn
      <3> QED BY <1>s, <2>1, <3>1 DEF Write
    <2> QED BY <2>1, <2>2, <2>3
  <1>5. CASE CapEvict
    BY <1>0, <1>5, EvictPromise
  <1>6. CASE CapPersist
    <2>1. Recoverable' = {r \in Recoverable : ~Before(r, HeadCursor)}
      BY <1>0, <1>6, PersistStep DEF CapPersist
    <2> QED BY <1>6, <2>1, TrimPromise DEF CapPersist, histVars
  <1>7. CASE AckPersist
    <2>1. Recoverable' = {r \in Recoverable : ~Before(r, HeadCursor)}
      BY <1>0, <1>7, PersistStep DEF AckPersist, IInv, JobInv
    <2> QED BY <1>7, <2>1, TrimPromise DEF AckPersist, histVars
  <1>8. CASE CapDone
    <2>1. Recoverable' = Recoverable
      BY <1>8, DirUnchanged DEF CapDone
    <2>2. CASE job = 0
      <3>1. accepted' = accepted
        BY <1>8, <2>2 DEF CapDone
      <3> QED BY <1>8, <1>s, <2>1, <3>1 DEF CapDone
    <2>3. CASE job # 0
      <3>1. job \in IdsOf(Recoverable) \cup evicted /\ job \in Ids
        BY <2>3 DEF IInv, JobInv, IndexInv, IdsOf, TypeOK
      <3>2. accepted' = accepted \cup {job}
        BY <1>8, <2>3 DEF CapDone
      <3>3. Promise!Accept(job)
        BY <1>8, <2>1, <3>1, <3>2 DEF CapDone, Promise!Accept, IdsOf
      <3> QED BY <3>1, <3>3 DEF Promise!Next
    <2> QED BY <2>2, <2>3
  <1>9. CASE AckPop
    BY <1>9, AckPromise
  <1>10. CASE CapRoll
    BY <1>0, <1>10, <1>s, CapRollStep DEF CapRoll, histVars
  <1>11. CASE AckDelete
    BY <1>0, <1>11, <1>s, AckDeleteStep DEF AckDelete, histVars
  <1>12. CASE Open
    BY <1>0, <1>12, <1>s, OpenStep DEF Open, histVars
  <1>13. CASE Rot
    <2>1. PICK r \in disk : corrupt' = corrupt \cup {r.id}
      BY <1>13 DEF Rot
    <2>2. Recoverable' = Recoverable
      BY <1>13, DirUnchanged DEF Rot
    <2>3. r.id \in Ids
      BY DEF IInv, TypeOK, Record
    <2>4. Promise!Damage(r.id)
      BY <1>13, <2>1, <2>2 DEF Rot, Promise!Damage, IdsOf
    <2> QED BY <2>3, <2>4 DEF Promise!Next
  <1>14. CASE AckDone \/ SkipCorrupt \/ OpFails \/ CapExhausted \/ Crash \/ UNCHANGED vars
    <2>1. UNCHANGED <<dirVars, histVars>>
      BY <1>14 DEF AckDone, SkipCorrupt, OpFails, CapExhausted, Crash, vars
    <2> QED BY <1>s, <2>1, DirUnchanged DEF histVars
  <1>15. CASE CapRollFails
    BY <1>15 DEF CapRollFails, NoTearing
  <1> QED
    BY <1>1, <1>2, <1>3, <1>4, <1>5, <1>6, <1>7, <1>8, <1>9, <1>10, <1>11, <1>12,
       <1>13, <1>14, <1>15 DEF Next, Internal

\* The segment files, the cursor and the index implement the abstract queue:
\* records leave it from the front only, acknowledged, evicted or damaged, and
\* neither a kill nor a failing sync, cursor update or deletion is more than a
\* stutter of it (wal.rs: append, ack, enforce_cap, open).
THEOREM WalKeepsPromise == NoTearing /\ Spec => KeepsPromise
  <1> SUFFICES ASSUME NoTearing PROVE Spec => KeepsPromise
    OBVIOUS
  <1>1. Init => EvictedInv /\ Promise!Init
    BY DEF Init, EvictedInv, Promise!Init, Recoverable, IdsOf
  <1>2. IInv /\ EvictedInv /\ [Next]_vars => EvictedInv'
    BY EvictedStep
  <1>3. IInv /\ EvictedInv /\ [Next]_vars => [Promise!Next]_(Promise!vars)
    BY PromiseStep
  <1>4. Spec => []IInv
    BY WalStructure
  <1>5. Spec => [](IInv /\ EvictedInv)
    BY <1>1, <1>2, <1>4, PTL DEF Spec
  <1> QED BY <1>1, <1>3, <1>5, PTL DEF Spec, KeepsPromise, Promise!Spec

-----------------------------------------------------------------------------
(* Replays.  Nothing here uses IInv, which holds only while segments open.  *)

\* The order of positions, on numbers.
LEMMA PositionOrder ==
    ASSUME NEW p, NEW q, NEW c, {p.seg, p.off, q.seg, q.off, c.seg, c.off} \subseteq Nat
    PROVE  /\ Before(p, c) /\ ~Before(q, c) => Before(p, q)
           /\ Before(p, q) /\ ~Before(p, c) => ~Before(q, c)
           /\ ~(Before(p, q) /\ Before(q, p)) /\ ~Before(p, p)
  BY DEF Before

LEMMA RecordFacts ==
    ASSUME NEW r \in Record
    PROVE  r.id \in Nat /\ r.id \in Ids /\ r.seg \in Nat /\ r.seg \in Segs /\ r.off \in Nat
  BY SegFacts DEF Record

\* On disk, and in the index, the order of positions is that of ids.
LEMMA OrderedById ==
    ASSUME NEW R, R \subseteq Record,
           \A p, q \in R : p = q \/ (Before(p, q) /\ p.id < q.id) \/ (Before(q, p) /\ q.id < p.id),
           NEW p \in R, NEW q \in R
    PROVE  /\ Before(p, q) <=> p.id < q.id
           /\ p.id = q.id <=> p = q
           /\ p.id \in Nat /\ q.id \in Nat
  <1>1. p.id \in Nat /\ q.id \in Nat /\ {p.seg, p.off, q.seg, q.off} \subseteq Nat
    BY RecordFacts
  <1>2. ~(Before(p, q) /\ Before(q, p)) /\ ~Before(p, p)
    BY <1>1, PositionOrder
  <1> QED BY <1>1, <1>2

\* The head of the index is its oldest record.
LEMMA FrontIsOldest ==
    ASSUME TypeOK, QueueInv, records # {}
    PROVE  /\ Front(records) \in records
           /\ \A x \in records : x = Front(records)
                                 \/ (Before(Front(records), x) /\ Front(records).id < x.id)
  BY FrontExists DEF TypeOK, QueueInv

\* A reopen finds what does not lie before the cursor.
LEMMA FoundBehindCursor ==
    ASSUME PlaceInv
    PROVE  Recoverable = {d \in disk : ~Before(d, dcursor)}
  BY DEF PlaceInv, Recoverable

\* What is older than the whole index lies before the place where the cursor goes.
LEMMA HeadCursorPasses ==
    ASSUME TypeOK, PlaceInv, QueueInv, pc # "down",
           NEW d \in disk, \A x \in records : d.id < x.id
    PROVE  Before(d, HeadCursor)
  <1>1. d \in Record /\ d.id \in Nat
    BY RecordFacts DEF TypeOK
  <1>2. CASE records # {}
    <2> DEFINE f == Front(records)
    <2>1. f \in records /\ HeadCursor = [seg |-> f.seg, off |-> f.off]
      BY <1>2, FrontIsOldest DEF HeadCursor
    <2>2. f \in Record /\ f.id \in Nat
      BY <2>1, RecordFacts DEF TypeOK
    <2>3. d.id < f.id
      BY <2>1
    <2>4. d = f \/ Before(d, f)
      BY <1>1, <2>1, <2>2, <2>3 DEF QueueInv
    <2>5. d # f
      BY <1>1, <2>2, <2>3
    <2> HIDE DEF f
    <2> QED BY <2>1, <2>4, <2>5 DEF Before
  <1>3. CASE records = {}
    <2>1. HeadCursor = [seg |-> active, off |-> len[handle]]
      BY <1>3 DEF HeadCursor
    <2>2. d.seg \in linked /\ d.off < valid[d.seg] /\ d.seg <= handle /\ handle <= active
          /\ valid[d.seg] = len[d.seg]
      BY DEF PlaceInv
    <2>3. d.seg \in Nat /\ handle \in Nat /\ active \in Nat
      BY <1>1, SegFacts DEF TypeOK, Record
    <2> QED BY <2>1, <2>2, <2>3 DEF Before
  <1> QED BY <1>2, <1>3

\* Steps that leave the files, the cursor and what is acknowledged alone, and
\* keep or forget the index.
LEMMA ReplayQuiet ==
    ASSUME TypeOK, TypeOK', ReplayInv, UNCHANGED <<dirVars, acked, corrupt>>, nextId <= nextId',
           \/ pc' = "down" /\ records' = {}
           \/ /\ pc # "down" /\ records' = records /\ handle' = handle /\ active <= active'
              /\ pc' # "down" /\ (pc = "popped" => pc' = "popped")
    PROVE  ReplayInv'
  <1>1. nextId \in Nat /\ nextId' \in Nat /\ active \in Nat /\ active' \in Nat /\ handle \in Nat
    BY SegFacts DEF TypeOK
  <1>2. /\ \A d \in disk : d \in Record /\ d.id \in Nat
        /\ \A x \in records : x \in Record /\ x.id \in Nat /\ x.seg \in Nat
        /\ \A i \in acked : i \in Nat
        /\ \A s \in Segs : s \in Nat
    BY RecordFacts, SegFacts DEF TypeOK
  <1>3. Recoverable' = Recoverable
    BY DirUnchanged
  <1>4. PlaceInv'
    <2>1. \A d \in disk' : d.seg \in linked' /\ d.off < valid'[d.seg] /\ d.id < nextId'
      BY <1>1, <1>2 DEF ReplayInv, PlaceInv, dirVars
    <2>2. pc' # "down" => /\ handle' <= active'
                          /\ \A s \in linked' : s <= handle' /\ valid'[s] = len'[s]
                          /\ \A s \in Segs : s > active' => len'[s] = 0 /\ valid'[s] = 0
      BY <1>1, <1>2 DEF ReplayInv, PlaceInv, dirVars
    <2>3. \A p, q \in disk' :
             p = q \/ (Before(p, q) /\ p.id < q.id) \/ (Before(q, p) /\ q.id < p.id)
      BY DEF ReplayInv, PlaceInv, dirVars
    <2> QED BY <2>1, <2>2, <2>3 DEF PlaceInv, Before
  <1>5. QueueInv'
    <2>1. CASE pc' = "down" /\ records' = {}
      BY <2>1 DEF QueueInv, IdsOf
    <2>2. CASE pc' # "down" /\ records' = records /\ handle' = handle /\ active <= active'
      <3>1. \A x \in records' : /\ x.id < nextId'
                                /\ x.seg < active' \/ (x.seg = active' /\ x.off < len'[handle'])
        BY <1>1, <1>2, <2>2 DEF ReplayInv, QueueInv, dirVars
      <3>2. /\ \A x, y \in records' :
                   x = y \/ (Before(x, y) /\ x.id < y.id) \/ (Before(y, x) /\ y.id < x.id)
            /\ \A d \in disk', x \in records' :
                   /\ d.id <= x.id => d = x \/ Before(d, x)
                   /\ x.id < d.id => d.id \in IdsOf(records')
        BY <2>2 DEF ReplayInv, QueueInv, dirVars
      <3> QED BY <2>2, <3>1, <3>2 DEF QueueInv, Before, IdsOf
    <2> QED BY <2>1, <2>2
  <1>6. GapInv'
    BY <1>3 DEF ReplayInv, GapInv, IdsOf
  <1>7. corrupt' = {} /\ \A i \in acked' : i < nextId'
    BY <1>1, <1>2 DEF ReplayInv
  <1>8. \A r, q \in Recoverable' : r.id \in acked' => q = r \/ Before(r, q)
    BY <1>3 DEF ReplayInv
  <1>9. /\ \A d \in disk', x \in records' : d.id \in acked' => d = x \/ d.id < x.id
        /\ \A x, y \in records' : x.id \in acked' => x.id <= y.id
    BY DEF ReplayInv, dirVars
  <1> QED BY <1>4, <1>5, <1>6, <1>7, <1>8, <1>9 DEF ReplayInv, Before

\* A write, whole or torn, adds at most one record, behind all others.
LEMMA ReplayWrite ==
    ASSUME TypeOK, TypeOK', ReplayInv, NEW n \in Sizes, NEW k \in 0..n, CanAppend(n), Write(n, k)
    PROVE  LET t == Target(n)
               new == [id |-> nextId, seg |-> t.file, off |-> t.off, len |-> n]
           IN  /\ \A d \in disk' : d \in disk \/ d = new
               /\ \A d \in disk : d \in disk' /\ Before(d, new)
               /\ \A d \in disk' : d.seg \in linked' /\ d.off < valid'[d.seg] /\ d.id < nextId'
               /\ \A p, q \in disk' :
                      p = q \/ (Before(p, q) /\ p.id < q.id) \/ (Before(q, p) /\ q.id < p.id)
               /\ \A r \in Recoverable' : r \in Recoverable \/ r = new
               /\ k = n => \A s \in linked' : s <= t.file /\ valid'[s] = len'[s]
               /\ \A s \in Segs : s > t.seg => len'[s] = 0 /\ valid'[s] = 0
               /\ t.file <= t.seg /\ active <= t.seg
               /\ t.off + k = len'[t.file]
               /\ t.seg = active => t.file = handle /\ t.off = len[handle]
  <1> DEFINE t == Target(n)
             new == [id |-> nextId, seg |-> t.file, off |-> t.off, len |-> n]
  <1>1. /\ n \in Nat /\ n > 0 /\ k \in Nat /\ k <= n /\ nextId \in Nat
        /\ t.seg \in Segs /\ t.file \in Segs /\ t.off \in Nat
        /\ t.seg \in Nat /\ t.file \in Nat
        /\ active \in Nat /\ handle \in Nat /\ active \in Segs /\ handle \in Segs
        /\ Segs \subseteq Nat /\ linked \subseteq Segs
        /\ len \in [Segs -> Nat] /\ valid \in [Segs -> Nat]
    <2>1. t.seg \in Segs /\ t.file \in Segs /\ t.off \in Nat
      BY TargetType
    <2>2. Segs \subseteq Nat
      BY SegFacts
    <2>3. t.seg \in Nat /\ t.file \in Nat
      BY <2>1, <2>2
    <2>4. /\ n \in Nat /\ n > 0 /\ k \in Nat /\ k <= n /\ nextId \in Nat
          /\ active \in Nat /\ handle \in Nat /\ active \in Segs /\ handle \in Segs
          /\ linked \subseteq Segs
          /\ len \in [Segs -> Nat] /\ valid \in [Segs -> Nat]
      BY SegFacts DEF TypeOK
    <2> QED BY <2>1, <2>2, <2>3, <2>4
  <1>2. pc = "idle" /\ handle <= active
        /\ (\A s \in linked : s <= handle /\ valid[s] = len[s])
        /\ \A s \in Segs : s > active => len[s] = 0 /\ valid[s] = 0
    BY DEF CanAppend, ReplayInv, PlaceInv
  <1>3. \/ NeedsRoll(n) /\ t.seg = active + 1 /\ t.file = active + 1 /\ t.off = 0
        \/ ~NeedsRoll(n) /\ t.seg = active /\ t.file = handle /\ t.off = len[handle]
    BY DEF Target
  <1>4. /\ linked' = IF NeedsRoll(n) THEN linked \cup {t.file} ELSE linked
        /\ len' = [len EXCEPT ![t.file] = t.off + k]
        /\ valid' = [valid EXCEPT ![t.file] =
                        IF k = n /\ valid[t.file] = t.off THEN t.off + n ELSE valid[t.file]]
        /\ disk' = IF k = n /\ t.file \in linked' THEN disk \cup {new} ELSE disk
        /\ nextId' = nextId + 1 /\ UNCHANGED <<dcursor, acked, corrupt>>
    BY DEF Write
  <1> HIDE DEF t
  <1>5. t.file <= t.seg /\ active <= t.seg
        /\ (t.seg = active => t.file = handle /\ t.off = len[handle])
    BY <1>1, <1>2, <1>3
  <1>6. t.file \in linked' => valid[t.file] = t.off
    <2>1. CASE NeedsRoll(n)
      BY <1>1, <1>2, <1>3, <2>1
    <2>2. CASE ~NeedsRoll(n)
      BY <1>2, <1>3, <1>4, <2>2
    <2> QED BY <2>1, <2>2
  <1>7. \A s \in Segs : s # t.file => len'[s] = len[s] /\ valid'[s] = valid[s]
    BY <1>1, <1>4
  <1>8. /\ len'[t.file] = t.off + k
        /\ valid'[t.file] >= valid[t.file]
        /\ (k = n /\ t.file \in linked' => valid'[t.file] = t.off + n)
    <2>1. len'[t.file] = t.off + k
      BY <1>1, <1>4
    <2>2. valid'[t.file] = IF k = n /\ valid[t.file] = t.off THEN t.off + n ELSE valid[t.file]
      BY <1>1, <1>4
    <2>3. valid[t.file] \in Nat
      BY <1>1
    <2>4. t.off + n >= t.off
      BY <1>1
    <2>5. valid'[t.file] >= valid[t.file]
      BY <2>2, <2>3, <2>4
    <2>6. k = n /\ t.file \in linked' => valid'[t.file] = t.off + n
      BY <1>6, <2>2
    <2> QED BY <2>1, <2>5, <2>6
  <1>9. ASSUME NEW d \in disk
        PROVE  /\ Before(d, new) /\ d.id < nextId /\ d.seg \in linked /\ d.off < valid[d.seg]
               /\ d.off < valid'[d.seg]
    <2>1. d \in Record /\ d.seg \in linked /\ d.off < valid[d.seg] /\ d.id < nextId
      BY DEF TypeOK, ReplayInv, PlaceInv
    <2>2. d.seg \in Segs /\ d.seg \in Nat /\ d.off \in Nat /\ d.seg <= handle
          /\ valid[d.seg] = len[d.seg]
      BY <1>2, <2>1, RecordFacts
    <2>3. d.seg < t.file \/ (d.seg = t.file /\ d.off < t.off)
      BY <1>1, <1>2, <1>3, <2>1, <2>2
    <2>4. d.off < valid'[d.seg]
      <3>1. valid[d.seg] \in Nat /\ valid'[d.seg] \in Nat
        BY <2>2 DEF TypeOK
      <3>2. valid[d.seg] <= valid'[d.seg]
        BY <1>1, <1>7, <1>8, <2>2, <3>1
      <3> QED BY <2>1, <2>2, <3>1, <3>2
    <2> QED BY <2>1, <2>3, <2>4 DEF Before
  <1>10. ASSUME NEW d \in disk'
         PROVE  /\ d \in disk \/ (d = new /\ k = n /\ t.file \in linked')
                /\ d.seg \in linked' /\ d.off < valid'[d.seg] /\ d.id < nextId'
    <2>1. CASE d \in disk
      <3>1. d.id \in Nat
        BY <2>1, RecordFacts DEF TypeOK
      <3> QED BY <1>1, <1>4, <1>9, <2>1, <3>1
    <2>2. CASE d \notin disk
      BY <1>1, <1>4, <1>8, <2>2
    <2> QED BY <2>1, <2>2
  <1>11. ASSUME NEW p \in disk', NEW q \in disk'
         PROVE  p = q \/ (Before(p, q) /\ p.id < q.id) \/ (Before(q, p) /\ q.id < p.id)
    <2>1. CASE p \in disk /\ q \in disk
      BY <2>1 DEF ReplayInv, PlaceInv
    <2>2. new.id = nextId
      OBVIOUS
    <2> HIDE DEF new
    <2>3. CASE p \notin disk \/ q \notin disk
      BY <1>9, <1>10, <2>2, <2>3
    <2> QED BY <2>1, <2>3
  <1>12. ASSUME NEW r \in Recoverable' PROVE r \in Recoverable \/ r = new
    <2>1. r \in disk' /\ ~Before(r, dcursor')
      BY DEF Recoverable, Before
    <2>2. r \in disk => r \in Recoverable
      BY <1>4, <1>9, <2>1 DEF Recoverable
    <2> QED BY <1>10, <2>1, <2>2
  <1>13. k = n => \A s \in linked' : s <= t.file /\ valid'[s] = len'[s]
    <2> SUFFICES ASSUME k = n, NEW s \in linked' PROVE s <= t.file /\ valid'[s] = len'[s]
      OBVIOUS
    <2>1. CASE s = t.file
      <3>1. len'[t.file] = t.off + n /\ valid'[t.file] = t.off + n
        BY <1>8, <2>1
      <3>2. t.file <= t.file
        BY <1>1
      <3> QED BY <2>1, <3>1, <3>2
    <2>2. CASE s # t.file
      <3>1. s \in linked /\ s \in Segs /\ s \in Nat
        BY <1>1, <1>4, <2>2
      <3>2. s <= handle /\ valid[s] = len[s] /\ handle <= t.file
        BY <1>1, <1>2, <1>3, <3>1
      <3> QED BY <1>1, <1>7, <2>2, <3>1, <3>2
    <2> QED BY <2>1, <2>2
  <1>14. ASSUME NEW s \in Segs, s > t.seg PROVE len'[s] = 0 /\ valid'[s] = 0
    <2>1. s \in Nat
      BY <1>1
    <2>2. s > active /\ s # t.file
      BY <1>1, <1>5, <1>14, <2>1
    <2> QED BY <1>2, <1>7, <2>2
  <1>15. \A d \in disk : d \in disk' /\ Before(d, new)
    BY <1>4, <1>9
  <1> QED BY <1>5, <1>8, <1>10, <1>11, <1>12, <1>13, <1>14, <1>15 DEF t

LEMMA ReplayAppend ==
    ASSUME TypeOK, TypeOK', ReplayInv, NEW n \in Sizes, Append(n)
    PROVE  ReplayInv'
  <1> DEFINE t == Target(n)
             new == [id |-> nextId, seg |-> t.file, off |-> t.off, len |-> n]
             entry == [id |-> nextId, seg |-> t.seg, off |-> t.off, len |-> n]
  <1>1. /\ CanAppend(n) /\ Write(n, n) /\ pc = "idle" /\ pc' = "cap"
        /\ active' = t.seg /\ handle' = t.file /\ records' = records \cup {entry}
        /\ nextId' = nextId + 1 /\ UNCHANGED <<acked, corrupt>>
    BY DEF Append, CanAppend, Write
  <1>2. /\ n \in Nat /\ n > 0 /\ n \in 0..n /\ nextId \in Nat
        /\ t.seg \in Segs /\ t.file \in Segs /\ t.off \in Nat /\ t.seg \in Nat /\ t.file \in Nat
        /\ active \in Nat /\ Segs \subseteq Nat
    BY <1>1, TargetType, SegFacts DEF TypeOK
  <1>3. /\ \A d \in disk' : d \in disk \/ d = new
        /\ \A d \in disk : d \in disk' /\ Before(d, new)
        /\ \A d \in disk' : d.seg \in linked' /\ d.off < valid'[d.seg] /\ d.id < nextId'
        /\ \A p, q \in disk' :
               p = q \/ (Before(p, q) /\ p.id < q.id) \/ (Before(q, p) /\ q.id < p.id)
        /\ \A r \in Recoverable' : r \in Recoverable \/ r = new
        /\ \A s \in linked' : s <= t.file /\ valid'[s] = len'[s]
        /\ \A s \in Segs : s > t.seg => len'[s] = 0 /\ valid'[s] = 0
        /\ t.file <= t.seg /\ active <= t.seg
        /\ t.off + n = len'[t.file]
        /\ t.seg = active => t.file = handle /\ t.off = len[handle]
    BY <1>1, <1>2, ReplayWrite
  <1>4. /\ new.id = nextId /\ new.seg = t.file /\ new.off = t.off
        /\ entry.id = nextId /\ entry.seg = t.seg /\ entry.off = t.off
        /\ (t.file = t.seg => new = entry)
    OBVIOUS
  <1> HIDE DEF t, new, entry
  <1>5. /\ \A d \in disk : d.id \in Nat /\ d.id < nextId /\ d.seg \in Nat
        /\ \A x \in records : x.id \in Nat /\ x.id < nextId /\ x.seg \in Nat /\ x.off \in Nat
        /\ \A i \in acked : i \in Nat /\ i < nextId
    BY RecordFacts, SegFacts DEF TypeOK, ReplayInv, PlaceInv, QueueInv
  <1>6. PlaceInv'
    BY <1>1, <1>3 DEF PlaceInv, Before
  <1>7. \A x \in records : Before(x, entry)
    <2> TAKE x \in records
    <2>1. x.seg < active \/ (x.seg = active /\ x.off < len[handle])
      BY DEF ReplayInv, QueueInv
    <2> QED BY <1>2, <1>3, <1>4, <1>5, <2>1 DEF Before
  <1>8. \A d \in disk : Before(d, entry)
    BY <1>2, <1>3, <1>4, <1>5 DEF Before
  <1>9. new = entry \/ Before(new, entry)
    BY <1>2, <1>3, <1>4 DEF Before
  <1>10. QueueInv'
    <2>1. ASSUME NEW x \in records'
          PROVE  x.id < nextId' /\ (x.seg < active' \/ (x.seg = active' /\ x.off < len'[handle']))
      <3>1. CASE x = entry
        <4>1. x.seg = t.seg /\ x.off = t.off /\ x.id = nextId
          BY <1>4, <3>1
        <4>2. t.file = t.seg \/ t.file < t.seg
          BY <1>2, <1>3
        <4>3. t.off < len'[t.file]
          BY <1>2, <1>3
        <4> QED BY <1>1, <1>2, <4>1, <4>2, <4>3
      <3>2. CASE x \in records
        <4>1. x.seg < active \/ (x.seg = active /\ x.off < len[handle])
          BY <3>2 DEF ReplayInv, QueueInv
        <4>2. CASE x.seg < t.seg
          BY <1>1, <1>2, <1>5, <3>2, <4>2
        <4>3. CASE ~(x.seg < t.seg)
          <5>1. x.seg = active /\ t.seg = active
            BY <1>2, <1>3, <1>5, <3>2, <4>1, <4>3
          <5>2. x.off < t.off /\ t.file = handle /\ t.off + n = len'[t.file]
            BY <1>3, <1>5, <4>1, <5>1, <3>2, <1>2
          <5> QED BY <1>1, <1>2, <1>5, <3>2, <5>1, <5>2
        <4> QED BY <4>2, <4>3
      <3> QED BY <1>1, <3>1, <3>2
    <2>2. ASSUME NEW x \in records', NEW y \in records'
          PROVE  x = y \/ (Before(x, y) /\ x.id < y.id) \/ (Before(y, x) /\ y.id < x.id)
      BY <1>1, <1>4, <1>5, <1>7 DEF ReplayInv, QueueInv
    <2>3. ASSUME NEW d \in disk', NEW x \in records'
          PROVE  /\ d.id <= x.id => d = x \/ Before(d, x)
                 /\ x.id < d.id => d.id \in IdsOf(records')
      <3>1. CASE d \in disk /\ x \in records
        <4>1. /\ d.id <= x.id => d = x \/ Before(d, x)
              /\ x.id < d.id => d.id \in IdsOf(records)
          BY <3>1 DEF ReplayInv, QueueInv
        <4> QED BY <1>1, <4>1 DEF IdsOf
      <3>2. CASE d \in disk /\ x = entry
        BY <1>2, <1>4, <1>5, <1>8, <3>2
      <3>3. CASE d = new /\ x = entry
        BY <1>2, <1>4, <1>9, <3>3
      <3>4. CASE d = new /\ x \in records
        <4>1. entry \in records' /\ entry.id = d.id
          BY <1>1, <1>4, <3>4
        <4>2. d.id \in IdsOf(records')
          BY <4>1 DEF IdsOf
        <4>3. ~(d.id <= x.id)
          BY <1>2, <1>4, <1>5, <3>4
        <4> QED BY <4>2, <4>3
      <3> QED BY <1>1, <1>3, <3>1, <3>2, <3>3, <3>4
    <2> QED BY <1>1, <2>1, <2>2, <2>3 DEF QueueInv, Before, IdsOf
  <1>11. GapInv'
    <2> SUFFICES ASSUME NEW r \in Recoverable' PROVE r.id \in IdsOf(records')
      BY DEF GapInv
    <2>1. CASE r = new
      BY <1>1, <1>4, <2>1 DEF IdsOf
    <2>2. CASE r \in Recoverable
      BY <1>1, <2>2 DEF ReplayInv, GapInv, IdsOf
    <2> QED BY <1>3, <2>1, <2>2
  <1>12. ASSUME NEW r \in Recoverable', NEW q \in Recoverable', r.id \in acked'
         PROVE  q = r \/ Before(r, q)
    <2>1. r # new
      BY <1>1, <1>2, <1>4, <1>5, <1>12
    <2>2. r \in Recoverable /\ r \in disk
      BY <1>3, <2>1 DEF Recoverable
    <2> QED BY <1>1, <1>3, <1>12, <2>2 DEF ReplayInv
  <1>13. ASSUME NEW d \in disk', NEW x \in records', d.id \in acked'
         PROVE  d = x \/ d.id < x.id
    <2>1. d # new
      BY <1>1, <1>2, <1>4, <1>5, <1>13
    <2>2. d \in disk
      BY <1>3, <2>1
    <2> QED BY <1>1, <1>4, <1>5, <1>13, <2>2 DEF ReplayInv
  <1>14. ASSUME NEW x \in records', NEW y \in records', x.id \in acked'
         PROVE  x.id <= y.id
    <2>1. x # entry
      BY <1>1, <1>2, <1>4, <1>5, <1>14
    <2>2. x \in records
      BY <1>1, <2>1
    <2>3. CASE y \in records
      BY <1>1, <1>14, <2>2, <2>3 DEF ReplayInv
    <2>4. CASE y = entry
      BY <1>2, <1>4, <1>5, <2>2, <2>4
    <2> QED BY <1>1, <2>3, <2>4
  <1>15. corrupt' = {} /\ \A i \in acked' : i < nextId'
    BY <1>1, <1>2, <1>5 DEF ReplayInv
  <1> QED BY <1>6, <1>10, <1>11, <1>12, <1>13, <1>14, <1>15 DEF ReplayInv, Before

LEMMA ReplayAppendCrash ==
    ASSUME TypeOK, TypeOK', ReplayInv, NEW n \in Sizes, NEW k \in 0..n, AppendCrash(n, k)
    PROVE  ReplayInv'
  <1> DEFINE t == Target(n)
             new == [id |-> nextId, seg |-> t.file, off |-> t.off, len |-> n]
  <1>1. /\ CanAppend(n) /\ Write(n, k) /\ pc' = "down" /\ records' = {}
        /\ nextId' = nextId + 1 /\ UNCHANGED <<acked, corrupt>>
    BY DEF AppendCrash, Write
  <1>2. /\ \A d \in disk : d \in disk' /\ Before(d, new)
        /\ \A d \in disk' : d.seg \in linked' /\ d.off < valid'[d.seg] /\ d.id < nextId'
        /\ \A p, q \in disk' :
               p = q \/ (Before(p, q) /\ p.id < q.id) \/ (Before(q, p) /\ q.id < p.id)
        /\ \A r \in Recoverable' : r \in Recoverable \/ r = new
    BY <1>1, ReplayWrite
  <1>3. new.id = nextId
    OBVIOUS
  <1> HIDE DEF new
  <1>4. nextId \in Nat /\ \A i \in acked : i \in Nat /\ i < nextId
    BY SegFacts DEF TypeOK, ReplayInv
  <1>5. PlaceInv'
    BY <1>1, <1>2 DEF PlaceInv, Before
  <1>6. ASSUME NEW r \in Recoverable', NEW q \in Recoverable', r.id \in acked'
        PROVE  q = r \/ Before(r, q)
    <2>1. r # new
      BY <1>1, <1>3, <1>4, <1>6
    <2>2. r \in Recoverable /\ r \in disk
      BY <1>2, <2>1 DEF Recoverable
    <2> QED BY <1>1, <1>2, <1>6, <2>2 DEF ReplayInv
  <1>7. corrupt' = {} /\ \A i \in acked' : i < nextId'
    BY <1>1, <1>4 DEF ReplayInv
  <1>8. QueueInv' /\ GapInv'
    BY <1>1 DEF QueueInv, GapInv
  <1>9. records' = {}
    BY <1>1
  <1> QED BY <1>5, <1>6, <1>7, <1>8, <1>9 DEF ReplayInv, Before

\* A segment file that is removed takes its records with it, on disk and, when
\* the cap does it, in the index.
LEMMA ReplayUnlink ==
    ASSUME TypeOK, TypeOK', ReplayInv, pc # "down", NEW s \in linked, s # active, Unlink(s),
           UNCHANGED <<dcursor, active, handle, nextId, acked, corrupt>>,
           pc' \notin {"down", "popped"}, pc # "popped",
           \/ records' = records
           \/ (records' = {x \in records : x.seg # s} /\ \A z \in linked : s <= z)
    PROVE  ReplayInv'
  <1>1. /\ linked' = linked \ {s} /\ disk' = {d \in disk : d.seg # s}
        /\ len' = [len EXCEPT ![s] = IF s = handle THEN len[s] ELSE 0]
        /\ valid' = [valid EXCEPT ![s] = IF s = handle THEN valid[s] ELSE 0]
        /\ records' \subseteq records
    BY DEF Unlink
  <1>2. len \in [Segs -> Nat] /\ valid \in [Segs -> Nat] /\ linked \subseteq Segs
        /\ handle \in Segs /\ active \in Nat /\ Segs \subseteq Nat
    BY SegFacts DEF TypeOK
  <1>3. /\ \A z \in Segs : z # s => len'[z] = len[z] /\ valid'[z] = valid[z]
        /\ len'[handle] = len[handle]
    BY <1>1, <1>2
  <1>4. s <= active
    BY <1>2 DEF ReplayInv, PlaceInv
  <1>5. PlaceInv'
    <2>1. \A d \in disk' : d.seg \in linked' /\ d.off < valid'[d.seg] /\ d.id < nextId'
      BY <1>1, <1>2, <1>3 DEF ReplayInv, PlaceInv
    <2>2. \A z \in linked' : z <= handle' /\ valid'[z] = len'[z]
      BY <1>1, <1>2, <1>3 DEF ReplayInv, PlaceInv
    <2>3. \A z \in Segs : z > active' => len'[z] = 0 /\ valid'[z] = 0
      BY <1>2, <1>3, <1>4 DEF ReplayInv, PlaceInv
    <2>4. \A p, q \in disk' :
             p = q \/ (Before(p, q) /\ p.id < q.id) \/ (Before(q, p) /\ q.id < p.id)
      BY <1>1 DEF ReplayInv, PlaceInv
    <2>5. handle' <= active'
      BY DEF ReplayInv, PlaceInv
    <2> QED BY <2>1, <2>2, <2>3, <2>4, <2>5 DEF PlaceInv, Before
  \* What is left on disk keeps its entry in the index.
  <1>6. ASSUME NEW d \in disk', d.id \in IdsOf(records) PROVE d.id \in IdsOf(records')
    <2>1. CASE records' = records
      BY <1>6, <2>1
    <2>2. CASE records' = {x \in records : x.seg # s} /\ \A z \in linked : s <= z
      <3>1. PICK x \in records : x.id = d.id
        BY <1>6 DEF IdsOf
      <3>2. d \in disk /\ d.seg # s /\ d.seg \in linked /\ d.seg \in Nat /\ d.id \in Nat
            /\ x.seg \in Nat /\ s \in Nat
        BY <1>1, <1>2, RecordFacts DEF TypeOK, ReplayInv, PlaceInv
      <3>3. d = x \/ Before(d, x)
        BY <3>1, <3>2 DEF ReplayInv, QueueInv
      <3>4. d.seg <= x.seg
        BY <3>2, <3>3 DEF Before
      <3>5. s <= d.seg
        BY <2>2, <3>2
      <3>6. x.seg # s
        BY <3>2, <3>4, <3>5
      <3>7. x \in records'
        BY <2>2, <3>6
      <3> QED BY <3>1, <3>7 DEF IdsOf
    <2> QED BY <2>1, <2>2
  <1>7. QueueInv'
    <2>1. \A x \in records' : /\ x.id < nextId'
                              /\ x.seg < active' \/ (x.seg = active' /\ x.off < len'[handle'])
      BY <1>1, <1>3 DEF ReplayInv, QueueInv
    <2>2. /\ \A x, y \in records' :
                 x = y \/ (Before(x, y) /\ x.id < y.id) \/ (Before(y, x) /\ y.id < x.id)
          /\ \A d \in disk', x \in records' : d.id <= x.id => d = x \/ Before(d, x)
      BY <1>1 DEF ReplayInv, QueueInv
    <2>3. \A d \in disk', x \in records' : x.id < d.id => d.id \in IdsOf(records')
      BY <1>1, <1>6 DEF ReplayInv, QueueInv
    <2> QED BY <2>1, <2>2, <2>3 DEF QueueInv, Before, IdsOf
  <1>8. Recoverable' \subseteq Recoverable
    <2> SUFFICES ASSUME NEW r \in Recoverable' PROVE r \in Recoverable
      OBVIOUS
    <2>1. r \in disk' /\ ~Before(r, dcursor)
      BY DEF Recoverable, Before
    <2> QED BY <1>1, <2>1 DEF Recoverable, ReplayInv, PlaceInv
  <1>9. GapInv'
    <2> SUFFICES ASSUME NEW r \in Recoverable' PROVE r.id \in IdsOf(records')
      BY DEF GapInv
    <2>1. r.id \in IdsOf(records)
      BY <1>8 DEF ReplayInv, GapInv
    <2> QED BY <1>6, <2>1 DEF Recoverable
  <1>10. /\ corrupt' = {} /\ \A i \in acked' : i < nextId'
         /\ \A r, q \in Recoverable' : r.id \in acked' => q = r \/ Before(r, q)
         /\ \A d \in disk', x \in records' : d.id \in acked' => d = x \/ d.id < x.id
         /\ \A x, y \in records' : x.id \in acked' => x.id <= y.id
    BY <1>1, <1>8 DEF ReplayInv
  <1> QED BY <1>5, <1>7, <1>9, <1>10 DEF ReplayInv, Before

\* The persisted cursor gives up what was acknowledged, and finds nothing again
\* that the index lacks, even where it moves back.
LEMMA ReplayPersist ==
    ASSUME TypeOK, TypeOK', ReplayInv, pc # "down", pc' \notin {"down", "popped"},
           dcursor' = HeadCursor,
           UNCHANGED <<linked, len, valid, disk, active, handle, records, nextId, acked, corrupt>>
    PROVE  ReplayInv'
  <1>1. PlaceInv'
    BY DEF ReplayInv, PlaceInv, Before
  <1>2. QueueInv'
    BY DEF ReplayInv, QueueInv, Before, IdsOf
  <1>3. Recoverable' = {d \in disk : ~Before(d, HeadCursor)}
    BY <1>1 DEF PlaceInv, Recoverable, Before
  <1> DEFINE f == Front(records)
  <1>4. ASSUME NEW r \in Recoverable'
        PROVE  r \in disk /\ r.id \in Nat /\ records # {} /\ f \in records /\ f.id \in Nat
               /\ ~(r.id < f.id) /\ r.id \in IdsOf(records)
    <2>1. r \in disk /\ ~Before(r, HeadCursor) /\ r.id \in Nat
      BY <1>3, RecordFacts DEF TypeOK
    <2>2. records # {}
      BY <2>1, HeadCursorPasses DEF ReplayInv
    <2>3. f \in records /\ \A x \in records : x = f \/ f.id < x.id
      BY <2>2, FrontIsOldest DEF ReplayInv
    <2>4. \A x \in records : x.id \in Nat
      BY RecordFacts DEF TypeOK
    <2> HIDE DEF f
    <2>5. ~(r.id < f.id)
      <3> SUFFICES ASSUME r.id < f.id PROVE FALSE
        OBVIOUS
      <3>1. \A x \in records : r.id < x.id
        BY <2>1, <2>3, <2>4
      <3> QED BY <2>1, <3>1, HeadCursorPasses DEF ReplayInv
    <2>6. r.id \in IdsOf(records)
      <3>1. CASE r.id = f.id
        BY <2>3, <3>1 DEF IdsOf
      <3>2. CASE f.id < r.id
        BY <2>1, <2>3, <3>2 DEF ReplayInv, QueueInv
      <3> QED BY <2>1, <2>3, <2>4, <2>5, <3>1, <3>2
    <2> QED BY <2>1, <2>2, <2>3, <2>4, <2>5, <2>6
  <1>5. GapInv'
    BY <1>4 DEF GapInv, IdsOf
  <1>6. ASSUME NEW r \in Recoverable', NEW q \in Recoverable', r.id \in acked'
        PROVE  q = r \/ Before(r, q)
    <2> HIDE DEF f
    <2>1. r = f
      BY <1>4, <1>6 DEF ReplayInv
    <2>2. q \in disk /\ r \in disk /\ ~(q.id < r.id)
      BY <1>4, <2>1
    <2> QED BY <2>2 DEF ReplayInv, PlaceInv
  <1>7. /\ corrupt' = {} /\ \A i \in acked' : i < nextId'
        /\ \A d \in disk', x \in records' : d.id \in acked' => d = x \/ d.id < x.id
        /\ \A x, y \in records' : x.id \in acked' => x.id <= y.id
    BY DEF ReplayInv
  <1> QED BY <1>1, <1>2, <1>5, <1>6, <1>7 DEF ReplayInv, Before

\* What is acknowledged is the head of the index, and the oldest record of all
\* that a reopen would find.
LEMMA ReplayPop ==
    ASSUME TypeOK, TypeOK', ReplayInv, AckPop
    PROVE  ReplayInv'
  <1> DEFINE f == Front(records)
  <1>1. /\ pc = "idle" /\ pc' = "popped" /\ records # {} /\ f \in disk
        /\ records' = records \ {f} /\ acked' = acked \cup {f.id}
        /\ UNCHANGED <<dirVars, active, handle, nextId, corrupt>>
    BY DEF AckPop, Readable
  <1>2. f \in records /\ \A x \in records : x = f \/ (Before(f, x) /\ f.id < x.id)
    BY <1>1, FrontIsOldest DEF ReplayInv
  <1> HIDE DEF f
  <1>3. /\ \A x \in records : x.id \in Nat
        /\ \A d \in disk : d.id \in Nat
    BY RecordFacts DEF TypeOK
  <1>4. \A p, q \in disk : /\ p.id = q.id <=> p = q
                           /\ p.id < q.id => Before(p, q)
    <2>1. disk \subseteq Record
      BY DEF TypeOK
    <2>2. \A p, q \in disk : p = q \/ (Before(p, q) /\ p.id < q.id) \/ (Before(q, p) /\ q.id < p.id)
      BY DEF ReplayInv, PlaceInv
    <2> QED BY <2>1, <2>2, OrderedById
  <1>5. Recoverable' = Recoverable /\ Recoverable \subseteq disk
    BY <1>1, DirUnchanged DEF Recoverable
  <1>6. PlaceInv'
    BY <1>1 DEF ReplayInv, PlaceInv, dirVars, Before
  <1>7. \A x \in records' : x \in records /\ f.id < x.id
    BY <1>1, <1>2
  <1>8. ASSUME NEW i \in IdsOf(records), i # f.id PROVE i \in IdsOf(records')
    BY <1>1, <1>8 DEF IdsOf
  <1>9. QueueInv'
    <2>1. \A x \in records' : /\ x.id < nextId'
                              /\ x.seg < active' \/ (x.seg = active' /\ x.off < len'[handle'])
      BY <1>1 DEF ReplayInv, QueueInv, dirVars
    <2>2. /\ \A x, y \in records' :
                 x = y \/ (Before(x, y) /\ x.id < y.id) \/ (Before(y, x) /\ y.id < x.id)
          /\ \A d \in disk', x \in records' : d.id <= x.id => d = x \/ Before(d, x)
      BY <1>1 DEF ReplayInv, QueueInv, dirVars
    <2>3. ASSUME NEW d \in disk', NEW x \in records', x.id < d.id PROVE d.id \in IdsOf(records')
      <3>1. d \in disk /\ x \in records
        BY <1>1 DEF dirVars
      <3>2. d.id \in IdsOf(records)
        BY <2>3, <3>1 DEF ReplayInv, QueueInv
      <3>3. d.id # f.id
        BY <1>2, <1>3, <1>7, <2>3, <3>1
      <3> QED BY <1>8, <3>2, <3>3
    <2> QED BY <1>1, <2>1, <2>2, <2>3 DEF QueueInv, Before, IdsOf
  <1>10. ASSUME NEW r \in Recoverable PROVE r = f \/ (f.id < r.id /\ r.id \in IdsOf(records'))
    <2>1. PICK x \in records : x.id = r.id
      BY <1>1 DEF ReplayInv, GapInv, IdsOf
    <2>2. CASE x = f
      BY <1>1, <1>4, <1>5, <2>1, <2>2
    <2>3. CASE x # f
      BY <1>1, <1>2, <2>1, <2>3 DEF IdsOf
    <2> QED BY <2>2, <2>3
  <1>11. GapInv'
    <2> SUFFICES ASSUME NEW r \in Recoverable'
                 PROVE  r.id \in IdsOf(records') \/ \A x \in records' : r.id < x.id
      BY <1>1 DEF GapInv, IdsOf
    <2> QED BY <1>5, <1>7, <1>10
  <1>12. ASSUME NEW r \in Recoverable', NEW q \in Recoverable', r.id \in acked'
         PROVE  q = r \/ Before(r, q)
    <2>1. CASE r.id \in acked
      BY <1>5, <2>1 DEF ReplayInv
    <2>2. CASE r.id = f.id
      <3>1. r = f
        BY <1>1, <1>4, <1>5, <2>2
      <3> QED BY <1>1, <1>4, <1>5, <1>10, <3>1
    <2> QED BY <1>1, <1>12, <2>1, <2>2
  <1>13. ASSUME NEW d \in disk', NEW x \in records', d.id \in acked'
         PROVE  d = x \/ d.id < x.id
    <2>1. d \in disk /\ x \in records /\ f.id < x.id
      BY <1>1, <1>7 DEF dirVars
    <2> QED BY <1>1, <1>13, <2>1 DEF ReplayInv
  <1>14. ASSUME NEW x \in records', NEW y \in records', x.id \in acked'
         PROVE  x.id <= y.id
    <2>1. x \in records /\ y \in records /\ x.id # f.id
      BY <1>2, <1>3, <1>7
    <2> QED BY <1>1, <1>14, <2>1 DEF ReplayInv
  <1>15. corrupt' = {} /\ \A i \in acked' : i < nextId'
    BY <1>1, <1>2 DEF ReplayInv, QueueInv
  <1> QED BY <1>6, <1>9, <1>11, <1>12, <1>13, <1>14, <1>15 DEF ReplayInv, Before

\* No file has a torn tail with records behind it: a reopen changes nothing on
\* disk and indexes what lies behind the cursor.
LEMMA ReplayOpen ==
    ASSUME TypeOK, TypeOK', ReplayInv, Open
    PROVE  ReplayInv'
  <1> DEFINE found == IF linked = {} THEN {0} ELSE linked
  <1>1. PICK scan \in [found -> UNION {Scan(s) : s \in found}] :
          /\ \A s \in found : scan[s] \in Scan(s)
          /\ linked' = found
          /\ active' = LastSegment(found) /\ handle' = LastSegment(found)
          /\ len' = [s \in Segs |-> IF s \in linked THEN scan[s].end ELSE 0]
          /\ valid' = len'
          /\ disk' = {r \in disk : r.seg \in linked /\
                         (r.off < valid[r.seg] \/ r.off >= scan[r.seg].from)}
          /\ records' = {r \in disk' : ~Before(r, dcursor)}
    BY DEF Open
  <1>2. pc = "down" /\ pc' = "cap" /\ UNCHANGED <<dcursor, nextId, acked, corrupt>>
    BY DEF Open, histVars
  <1>3. found \subseteq Segs /\ found # {} /\ linked \subseteq found
    BY SegFacts DEF TypeOK
  <1>4. LastSegment(found) \in found /\ \A s \in found : s <= LastSegment(found)
    BY <1>3, NewestSegment DEF LastSegment
  <1>5. \A s \in linked : valid'[s] = valid[s]
    <2> TAKE s \in linked
    <2>1. Buried(s) = {}
      BY DEF Buried, ReplayInv, PlaceInv, TypeOK, Record
    <2>2. Scan(s) = {[from |-> len[s], end |-> valid[s]]}
      BY <2>1 DEF Scan
    <2>3. scan[s] \in Scan(s) /\ s \in Segs
      BY <1>1, <1>3
    <2>4. scan[s].end = valid[s]
      BY <2>2, <2>3
    <2> QED BY <1>1, <2>3, <2>4
  <1>6. disk' = disk
    BY <1>1 DEF ReplayInv, PlaceInv
  <1>7. /\ active' \in linked' /\ \A s \in linked' : s <= active' /\ s \in Nat
        /\ active' \in Nat /\ Segs \subseteq Nat
    BY <1>1, <1>3, <1>4, SegFacts
  <1>8. \A s \in Segs : s > active' => len'[s] = 0 /\ valid'[s] = 0
    <2> SUFFICES ASSUME NEW s \in Segs, s > active' PROVE s \notin linked
      BY <1>1
    <2>1. s \in Nat
      BY <1>7
    <2> QED BY <1>1, <1>3, <1>7, <2>1
  <1>9. PlaceInv'
    <2>1. \A d \in disk' : d.seg \in linked' /\ d.off < valid'[d.seg] /\ d.id < nextId'
      BY <1>1, <1>2, <1>3, <1>5, <1>6 DEF ReplayInv, PlaceInv
    <2>2. \A p, q \in disk' :
             p = q \/ (Before(p, q) /\ p.id < q.id) \/ (Before(q, p) /\ q.id < p.id)
      BY <1>6 DEF ReplayInv, PlaceInv
    <2>3. handle' <= active' /\ \A s \in linked' : s <= handle' /\ valid'[s] = len'[s]
      BY <1>1, <1>7
    <2> QED BY <1>8, <2>1, <2>2, <2>3 DEF PlaceInv, Before
  <1>10. disk \subseteq Record /\ records' \subseteq disk /\ Recoverable' = records'
    BY <1>1, <1>2, <1>6, <1>9 DEF TypeOK, Recoverable, PlaceInv, Before
  <1>11. Recoverable = records'
    BY <1>1, <1>6, FoundBehindCursor DEF ReplayInv
  <1>12. ASSUME NEW p \in disk, NEW q \in disk
         PROVE  /\ p.id \in Nat /\ q.id \in Nat /\ {p.seg, p.off, q.seg, q.off} \subseteq Nat
                /\ Before(p, q) <=> p.id < q.id
                /\ p.id = q.id <=> p = q
    <2>1. p \in Record /\ q \in Record
      BY <1>10
    <2>2. \A x, y \in disk : x = y \/ (Before(x, y) /\ x.id < y.id) \/ (Before(y, x) /\ y.id < x.id)
      BY DEF ReplayInv, PlaceInv
    <2>3. {p.seg, p.off, q.seg, q.off} \subseteq Nat
      BY <2>1, RecordFacts
    <2> QED BY <1>10, <2>2, <2>3, OrderedById
  <1>13. dcursor.seg \in Nat /\ dcursor.off \in Nat
    BY SegFacts DEF TypeOK, Position
  \* The index is what lies behind the cursor.
  <1>14. ASSUME NEW d \in disk, NEW x \in records'
         PROVE  /\ d \notin records' => Before(d, x)
                /\ Before(x, d) => d \in records'
    <2>1. x \in disk /\ ~Before(x, dcursor)
      BY <1>1, <1>6
    <2>2. d \notin records' => Before(d, dcursor)
      BY <1>1, <1>6
    <2>3. {d.seg, d.off, x.seg, x.off, dcursor.seg, dcursor.off} \subseteq Nat
      BY <1>12, <1>13, <2>1
    <2>4. Before(d, dcursor) /\ ~Before(x, dcursor) => Before(d, x)
      BY <2>3, PositionOrder
    <2>5. Before(x, d) /\ ~Before(x, dcursor) => ~Before(d, dcursor)
      BY <2>3, PositionOrder
    <2> QED BY <2>1, <2>2, <2>4, <2>5
  <1>15. QueueInv'
    <2>1. ASSUME NEW x \in records'
          PROVE  x.id < nextId' /\ (x.seg < active' \/ (x.seg = active' /\ x.off < len'[handle']))
      <3>1. x \in disk'
        BY <1>6, <1>10
      <3>2. x.seg \in linked' /\ x.off < valid'[x.seg] /\ x.id < nextId'
        BY <1>9, <3>1 DEF PlaceInv
      <3>3. x.seg <= active' /\ x.seg \in Nat /\ handle' = active' /\ valid' = len'
        BY <1>1, <1>7, <3>2
      <3> QED BY <1>7, <3>2, <3>3
    <2>2. \A x, y \in records' :
              x = y \/ (Before(x, y) /\ x.id < y.id) \/ (Before(y, x) /\ y.id < x.id)
      BY <1>10 DEF ReplayInv, PlaceInv
    <2>3. ASSUME NEW d \in disk', NEW x \in records'
          PROVE  /\ d.id <= x.id => d = x \/ Before(d, x)
                 /\ x.id < d.id => d.id \in IdsOf(records')
      <3>1. d \in disk /\ x \in disk
        BY <1>6, <1>10
      <3> QED BY <1>12, <1>14, <3>1 DEF IdsOf
    <2> QED BY <1>2, <2>1, <2>2, <2>3 DEF QueueInv, Before, IdsOf
  <1>16. GapInv'
    BY <1>10 DEF GapInv, IdsOf
  <1>17. ASSUME NEW r \in Recoverable', NEW q \in Recoverable', r.id \in acked'
         PROVE  q = r \/ Before(r, q)
    BY <1>2, <1>10, <1>11, <1>17 DEF ReplayInv
  <1>18. ASSUME NEW d \in disk', NEW x \in records', d.id \in acked' PROVE d = x \/ d.id < x.id
    <2>1. d \in disk /\ x \in disk
      BY <1>6, <1>10
    <2>2. d = x \/ Before(d, x)
      BY <1>10, <1>14, <1>17, <1>18, <2>1
    <2> QED BY <1>12, <2>1, <2>2
  <1>19. ASSUME NEW x \in records', NEW y \in records', x.id \in acked' PROVE x.id <= y.id
    <2>1. x \in disk /\ y \in disk
      BY <1>10
    <2>2. y = x \/ Before(x, y)
      BY <1>10, <1>17, <1>19
    <2> QED BY <1>12, <2>1, <2>2
  <1>20. corrupt' = {} /\ \A i \in acked' : i < nextId'
    BY <1>2 DEF ReplayInv
  <1> QED BY <1>9, <1>15, <1>16, <1>17, <1>18, <1>19, <1>20 DEF ReplayInv, Before

LEMMA ReplayCapRoll ==
    ASSUME TypeOK, TypeOK', ReplayInv, CapRoll
    PROVE  ReplayInv'
  <1>1. /\ pc = "cap" /\ active < MaxSeg /\ active' = active + 1 /\ handle' = active + 1
        /\ linked' = linked \cup {active + 1}
        /\ UNCHANGED <<len, valid, disk, dcursor, pc, records, nextId, acked, corrupt>>
    BY DEF CapRoll, histVars
  <1>2. active \in Nat /\ handle \in Nat /\ active + 1 \in Segs /\ Segs \subseteq Nat /\ linked \subseteq Segs
    BY <1>1, SegFacts, SegAssumption DEF TypeOK, Segs
  <1>3. handle <= active /\ len[active + 1] = 0 /\ valid[active + 1] = 0
    BY <1>1, <1>2 DEF ReplayInv, PlaceInv
  <1>4. PlaceInv'
    <2>1. \A d \in disk' : d.seg \in linked' /\ d.off < valid'[d.seg] /\ d.id < nextId'
      BY <1>1 DEF ReplayInv, PlaceInv
    <2>2. \A p, q \in disk' :
             p = q \/ (Before(p, q) /\ p.id < q.id) \/ (Before(q, p) /\ q.id < p.id)
      BY <1>1 DEF ReplayInv, PlaceInv
    <2>3. ASSUME NEW s \in linked' PROVE s <= handle' /\ valid'[s] = len'[s]
      <3>1. CASE s = active + 1
        BY <1>1, <1>2, <1>3, <3>1
      <3>2. CASE s \in linked
        <4>1. s <= handle /\ valid[s] = len[s] /\ s \in Nat
          BY <1>1, <1>2, <3>2 DEF ReplayInv, PlaceInv
        <4> QED BY <1>1, <1>2, <1>3, <4>1
      <3> QED BY <1>1, <3>1, <3>2
    <2>4. ASSUME NEW s \in Segs, s > active' PROVE len'[s] = 0 /\ valid'[s] = 0
      <3>1. s > active
        BY <1>1, <1>2, <2>4
      <3> QED BY <1>1, <3>1 DEF ReplayInv, PlaceInv
    <2>5. handle' <= active'
      BY <1>1, <1>2
    <2> QED BY <2>1, <2>2, <2>3, <2>4, <2>5 DEF PlaceInv, Before
  <1>5. QueueInv'
    <2>1. \A x \in records' : x.id < nextId' /\ x.seg < active'
      <3> SUFFICES ASSUME NEW x \in records PROVE x.id < nextId /\ x.seg < active + 1
        BY <1>1
      <3>1. x.seg \in Nat
        BY RecordFacts DEF TypeOK
      <3> QED BY <1>2, <3>1 DEF ReplayInv, QueueInv
    <2>2. /\ \A x, y \in records' :
                 x = y \/ (Before(x, y) /\ x.id < y.id) \/ (Before(y, x) /\ y.id < x.id)
          /\ \A d \in disk', x \in records' :
                 /\ d.id <= x.id => d = x \/ Before(d, x)
                 /\ x.id < d.id => d.id \in IdsOf(records')
      BY <1>1 DEF ReplayInv, QueueInv
    <2> QED BY <1>1, <2>1, <2>2 DEF QueueInv, Before, IdsOf
  <1>6. Recoverable' = Recoverable
    <2>1. Recoverable' = {d \in disk' : ~Before(d, dcursor')}
      BY <1>4 DEF PlaceInv, Recoverable, Before
    <2> QED BY <1>1, <2>1, FoundBehindCursor DEF ReplayInv
  <1>7. GapInv'
    BY <1>1, <1>6 DEF ReplayInv, GapInv, IdsOf
  <1>8. /\ corrupt' = {} /\ \A i \in acked' : i < nextId'
        /\ \A r, q \in Recoverable' : r.id \in acked' => q = r \/ Before(r, q)
        /\ \A d \in disk', x \in records' : d.id \in acked' => d = x \/ d.id < x.id
        /\ \A x, y \in records' : x.id \in acked' => x.id <= y.id
    BY <1>1, <1>6 DEF ReplayInv
  <1> QED BY <1>4, <1>5, <1>7, <1>8 DEF ReplayInv, Before

LEMMA ReplayStep ==
    ASSUME OnlySegmentsFail, TypeOK, TypeOK', ReplayInv, [Next]_vars
    PROVE  ReplayInv'
  <1>1. ASSUME NEW n \in Sizes, RollFails(n) PROVE ReplayInv'
    <2>1. pc = "idle" /\ active' = active + 1 /\ nextId' = nextId + 1
          /\ UNCHANGED <<dirVars, pc, handle, records, acked, corrupt>>
      BY <1>1 DEF RollFails, CanAppend
    <2>2. nextId <= nextId' /\ active <= active'
      BY <2>1, SegFacts DEF TypeOK
    <2> QED BY <2>1, <2>2, ReplayQuiet
  <1>2. ASSUME NEW n \in Sizes, NEW k \in 0..n, AppendFails(n, k) PROVE FALSE
    BY <1>2 DEF AppendFails, OnlySegmentsFail
  <1>3. CASE CapRollFails
    <2>1. pc = "cap" /\ pc' = "idle" /\ active' = active + 1
          /\ UNCHANGED <<dirVars, handle, records, nextId, acked, corrupt>>
      BY <1>3 DEF CapRollFails, histVars
    <2>2. nextId <= nextId' /\ active <= active'
      BY <2>1, SegFacts DEF TypeOK
    <2> QED BY <2>1, <2>2, ReplayQuiet
  <1>4. CASE CapDone \/ AckDone \/ CapExhausted \/ OpFails \/ Crash
    <2>1. UNCHANGED <<dirVars, nextId, acked, corrupt>>
      BY <1>4 DEF CapDone, AckDone, CapExhausted, OpFails, Crash, histVars
    <2>2. pc \notin {"down", "popped"} \/ Crash
      BY <1>4 DEF CapDone, AckDone, CapExhausted, OpFails, OnlySegmentsFail
    <2>3. \/ pc' = "down" /\ records' = {}
          \/ pc' = "idle" /\ UNCHANGED <<active, handle, records>> /\ pc \notin {"down", "popped"}
      BY <1>4, <2>2 DEF CapDone, AckDone, CapExhausted, OpFails, ReturnError, Crash, Forget
    <2>4. nextId <= nextId' /\ active <= active
      BY <2>1, SegFacts DEF TypeOK
    <2> QED BY <2>1, <2>3, <2>4, ReplayQuiet
  <1>5. CASE UNCHANGED vars
    BY <1>5 DEF vars, dirVars, memVars, histVars, ReplayInv, PlaceInv, QueueInv, GapInv,
                Recoverable, Before, IdsOf
  <1>6. CASE CapEvict
    <2>1. linked # {} /\ pc = "cap" /\ pc' = "evicted" /\ Oldest # active /\ Unlink(Oldest)
          /\ records' = {r \in records : r.seg # Oldest}
          /\ UNCHANGED <<dcursor, active, handle, nextId, acked, corrupt>>
      BY <1>6 DEF CapEvict, OverCap
    <2>2. Oldest \in linked /\ \A z \in linked : Oldest <= z
      BY <2>1, OldestSegment DEF Oldest, TypeOK
    <2> QED BY <2>1, <2>2, ReplayUnlink
  <1>7. CASE AckDelete
    <2>1. FullyAcked # {} /\ pc = "persisted" /\ Unlink(Min(FullyAcked))
          /\ UNCHANGED <<dcursor, pc, active, handle, records, nextId, acked, corrupt>>
      BY <1>7 DEF AckDelete, memVars, histVars
    <2>2. Min(FullyAcked) \in FullyAcked
      <3>1. FullyAcked \subseteq Segs
        BY DEF FullyAcked, TypeOK
      <3> QED BY <2>1, <3>1, OldestSegment
    <2>3. Min(FullyAcked) \in linked /\ Min(FullyAcked) # active
      BY <2>2 DEF FullyAcked
    <2> QED BY <2>1, <2>3, ReplayUnlink
  <1>8. CASE CapPersist \/ AckPersist
    BY <1>8, ReplayPersist DEF CapPersist, AckPersist, histVars
  <1>9. CASE SkipCorrupt \/ Rot
    BY <1>9 DEF SkipCorrupt, Rot, ReplayInv, OnlySegmentsFail
  <1> QED
    BY <1>1, <1>2, <1>3, <1>4, <1>5, <1>6, <1>7, <1>8, <1>9, ReplayAppend, ReplayAppendCrash,
       ReplayPop, ReplayOpen, ReplayCapRoll DEF Next, Internal

\* As long as nothing fails but to open or remove a segment file, the queue of a
\* process offers at most one record again that was acknowledged, after any
\* number of kills and failed rolls (wal.rs: append, ack, open).
THEOREM WalAtMostOneReplay == OnlySegmentsFail /\ Spec => []AtMostOneReplay
  <1> SUFFICES ASSUME OnlySegmentsFail PROVE Spec => []AtMostOneReplay
    OBVIOUS
  <1>1. Init => ReplayInv
    <2> SUFFICES ASSUME Init PROVE ReplayInv
      OBVIOUS
    <2>1. disk = {} /\ records = {} /\ acked = {} /\ corrupt = {} /\ pc = "down" /\ Recoverable = {}
      BY DEF Init, Recoverable
    <2> QED BY <2>1 DEF ReplayInv, PlaceInv, QueueInv, GapInv
  <1>2. TypeOK /\ TypeOK' /\ ReplayInv /\ [Next]_vars => ReplayInv'
    BY ReplayStep
  <1>3. TypeOK /\ ReplayInv => AtMostOneReplay
    <2> SUFFICES ASSUME TypeOK, ReplayInv PROVE AtMostOneReplay
      OBVIOUS
    <2> DEFINE S == {r \in records : r.id \in acked}
    <2>1. \A r \in S : \A q \in S : r = q
      <3> SUFFICES ASSUME NEW r \in S, NEW q \in S PROVE r = q
        OBVIOUS
      <3>1. r.id \in Nat /\ q.id \in Nat
        BY RecordFacts DEF TypeOK
      <3>2. r.id <= q.id /\ q.id <= r.id
        BY DEF ReplayInv
      <3>3. r = q \/ r.id < q.id \/ q.id < r.id
        BY DEF ReplayInv, QueueInv
      <3> QED BY <3>1, <3>2, <3>3
    <2>2. CASE S = {}
      <3>1. Cardinality(S) = 0
        BY <2>2, FS_EmptySet
      <3> QED BY <3>1 DEF AtMostOneReplay
    <2>3. CASE S # {}
      <3>1. PICK x \in S : TRUE
        BY <2>3
      <3>2. S = {x}
        BY <2>1, <3>1
      <3>3. Cardinality(S) = 1
        BY <3>2, FS_Singleton
      <3> QED BY <3>3 DEF AtMostOneReplay
    <2> QED BY <2>2, <2>3
  <1> QED BY <1>1, <1>2, <1>3, WalTypeCorrect, PTL DEF Spec
-----------------------------------------------------------------------------
(* The size of the directory *)

\* The room and the spare cover what they are made for.
LEMMA RoomFacts ==
    /\ Room \in Nat /\ MaxBytes <= Room /\ SegmentMax <= Room
    /\ Spare \in Nat /\ \A n \in Sizes : n <= MaxBytes => n <= Spare
  <1>1. Room \in Nat /\ MaxBytes <= Room /\ SegmentMax <= Room
    <2>1. {MaxBytes, SegmentMax} \subseteq Nat /\ \A y \in {MaxBytes, SegmentMax} : y <= MaxBytes + SegmentMax
      BY CapAssumption
    <2>2. MaxBytes + SegmentMax \in Nat
      BY CapAssumption
    <2>3. Max({MaxBytes, SegmentMax}) \in {MaxBytes, SegmentMax}
          /\ \A y \in {MaxBytes, SegmentMax} : y <= Max({MaxBytes, SegmentMax})
      BY <2>1, <2>2, MaxIsGreatest
    <2> QED BY <2>1, <2>3 DEF Room
  <1>2. Spare \in Nat /\ \A n \in Sizes : n <= MaxBytes => n <= Spare
    <2> DEFINE T == {n \in Sizes : n <= MaxBytes} \cup {0}
    <2>1. T \subseteq Nat /\ T # {} /\ \A y \in T : y <= MaxBytes
      <3>1. 0 \in T
        OBVIOUS
      <3>2. ASSUME NEW y \in T PROVE y \in Nat /\ y <= MaxBytes
        BY CapAssumption, SizesAssumption
      <3> QED BY <3>1, <3>2
    <2>2. Max(T) \in T /\ \A y \in T : y <= Max(T)
      BY <2>1, CapAssumption, MaxIsGreatest
    <2>3. Max(T) \in Nat /\ \A n \in Sizes : n <= MaxBytes => n \in T
      BY <2>1, <2>2
    <2>4. Spare = Max(T)
      BY DEF Spare
    <2> HIDE DEF T
    <2> QED BY <2>2, <2>3, <2>4
  <1> QED BY <1>1, <1>2

\* A directory has finitely many files, each of a natural length.
LEMMA DirFinite ==
    ASSUME TypeOK
    PROVE  /\ IsFiniteSet(linked) /\ \A s \in linked : len[s] \in Nat
           /\ TotalBytes \in Nat
  <1>1. IsFiniteSet(Segs)
    BY SegAssumption, FS_Interval DEF Segs
  <1>2. IsFiniteSet(linked) /\ \A s \in linked : len[s] \in Nat
    BY <1>1, FS_Subset DEF TypeOK
  <1> QED BY <1>2, SumSplit DEF TotalBytes

\* What is left of a directory when files go or shrink is no larger.
LEMMA TotalShrinks ==
    ASSUME TypeOK, TypeOK', NEW S, S \subseteq linked, IsFiniteSet(linked'),
           linked' = S, \A s \in S : len'[s] <= len[s]
    PROVE  TotalBytes' <= TotalBytes
  <1>1. IsFiniteSet(linked) /\ \A s \in linked : len[s] \in Nat
    BY DirFinite
  <1>2. \A s \in S : len'[s] \in Nat
    BY DEF TypeOK
  <1> QED BY <1>1, <1>2, SumMonotone DEF TotalBytes

\* The k bytes an append writes are all that the directory grows by.
LEMMA TotalGrows ==
    ASSUME TypeOK, TypeOK', SizeInv, pc # "down", NEW n \in Sizes, NEW k \in 0..n,
           NeedsRoll(n) => active < MaxSeg, Write(n, k)
    PROVE  TotalBytes' <= TotalBytes + k
  <1>1. IsFiniteSet(linked) /\ (\A s \in linked : len[s] \in Nat) /\ TotalBytes \in Nat
    BY DirFinite
  <1>2. active \in Nat /\ active \in Segs /\ handle \in Segs /\ n \in Nat /\ k \in Nat
        /\ linked \subseteq Segs /\ len \in [Segs -> Nat]
    BY SegFacts, SizesAssumption DEF TypeOK
  <1>3. CASE NeedsRoll(n)
    <2> DEFINE s == active + 1
    <2>1. s \in Segs /\ s \notin linked
      BY <1>2, <1>3, SegAssumption DEF SizeInv, Segs
    <2>2. linked' = linked \cup {s} /\ len' = [len EXCEPT ![s] = k]
      BY <1>2, <1>3 DEF Write, Target
    <2> HIDE DEF s
    <2>3. IsFiniteSet(linked') /\ linked' \ {s} = linked /\ s \in linked'
      BY <1>1, <2>1, <2>2, FS_AddElement
    <2>4. len'[s] = k /\ \A x \in linked : len'[x] = len[x]
      BY <1>2, <2>1, <2>2
    <2>5. SumFunctionOnSet(len', linked') = k + SumFunctionOnSet(len', linked)
      <3>1. \A x \in linked' : len'[x] \in Nat
        BY DEF TypeOK
      <3> QED BY <2>3, <2>4, <3>1, SumSplit
    <2>6. SumFunctionOnSet(len', linked) = SumFunctionOnSet(len, linked)
      BY <1>1, <2>4, SumOfEqual
    <2> QED BY <1>1, <1>2, <2>5, <2>6 DEF TotalBytes
  <1>4. CASE ~NeedsRoll(n)
    <2>1. linked' = linked /\ len' = [len EXCEPT ![handle] = len[handle] + k]
      BY <1>4 DEF Write, Target
    <2>2. \A x \in linked : x # handle => len'[x] = len[x]
      BY <1>2, <2>1
    <2>3. CASE handle \in linked
      <3>1. SumFunctionOnSet(len, linked) = len[handle] + SumFunctionOnSet(len, linked \ {handle})
        BY <1>1, <2>3, SumSplit
      <3>2. SumFunctionOnSet(len', linked) = len'[handle] + SumFunctionOnSet(len', linked \ {handle})
        <4>1. \A x \in linked : len'[x] \in Nat
          BY <2>1 DEF TypeOK
        <4> QED BY <1>1, <2>3, <4>1, SumSplit
      <3>3. SumFunctionOnSet(len', linked \ {handle}) = SumFunctionOnSet(len, linked \ {handle})
        <4>1. IsFiniteSet(linked \ {handle})
          BY <1>1, FS_Subset
        <4>2. \A x \in linked \ {handle} : len[x] \in Nat /\ len'[x] = len[x]
          BY <1>1, <2>2
        <4> QED BY <4>1, <4>2, SumOfEqual
      <3>4. SumFunctionOnSet(len, linked \ {handle}) \in Nat
        <4>1. IsFiniteSet(linked \ {handle})
          BY <1>1, FS_Subset
        <4>2. \A x \in linked \ {handle} : len[x] \in Nat
          BY <1>1
        <4> QED BY <4>1, <4>2, SumSplit
      <3>5. len'[handle] = len[handle] + k /\ len[handle] \in Nat
        BY <1>2, <2>1
      <3> QED BY <1>2, <2>1, <3>1, <3>2, <3>3, <3>4, <3>5 DEF TotalBytes
    <2>4. CASE handle \notin linked
      <3>1. \A x \in linked : len[x] \in Nat /\ len'[x] = len[x]
        BY <1>1, <2>2, <2>4
      <3>2. TotalBytes' = TotalBytes
        BY <1>1, <2>1, <3>1, SumOfEqual DEF TotalBytes
      <3> QED BY <1>1, <1>2, <3>2
    <2> QED BY <2>3, <2>4
  <1> QED BY <1>3, <1>4

\* Files stay within the room when a record, or part of one, is written, and
\* the file it went to is no newer than the number the index holds for it.
LEMMA SizeWrite ==
    ASSUME TypeOK, TypeOK', SizeInv, pc # "down", NEW n \in Sizes, NEW k \in 0..n,
           CanAppend(n), Write(n, k)
    PROVE  /\ \A s \in Segs : valid'[s] <= len'[s] /\ len'[s] <= Room
           /\ Target(n).file <= Target(n).seg
           /\ \A s \in linked' : s <= Target(n).seg
           /\ \A s \in Segs : s > Target(n).seg => len'[s] = 0
  <1>1. active \in Nat /\ active \in Segs /\ handle \in Segs /\ n \in Nat /\ k \in Nat /\ k <= n
        /\ linked \subseteq Segs /\ len \in [Segs -> Nat] /\ valid \in [Segs -> Nat]
        /\ handle \in Nat /\ n <= MaxBytes
    BY SegFacts, SizesAssumption DEF TypeOK, CanAppend
  <1>2. Room \in Nat /\ MaxBytes <= Room /\ SegmentMax <= Room /\ MaxBytes \in Nat /\ SegmentMax \in Nat
    BY RoomFacts, CapAssumption
  <1> DEFINE t == Target(n)
  <1>3. t.file \in Segs /\ t.off \in Nat /\ t.off + k <= Room /\ t.off <= len[t.file]
        /\ t.file <= t.seg /\ t.seg \in Nat /\ active <= t.seg /\ valid[t.file] <= t.off
    <2>1. CASE NeedsRoll(n)
      <3>1. t = [seg |-> active + 1, file |-> active + 1, off |-> 0] /\ active + 1 \in Segs
        BY <1>1, <2>1, SegAssumption DEF Target, CanAppend, Segs
      <3>2. len[active + 1] = 0
        BY <1>1, <3>1 DEF SizeInv
      <3>3. valid[active + 1] \in Nat /\ valid[active + 1] <= len[active + 1]
        BY <1>1, <3>1 DEF SizeInv
      <3> QED BY <1>1, <1>2, <3>1, <3>2, <3>3
    <2>2. CASE ~NeedsRoll(n)
      <3>1. t = [seg |-> active, file |-> handle, off |-> len[handle]]
        BY <2>2 DEF Target
      <3>2. len[handle] \in Nat /\ valid[handle] <= len[handle] /\ handle <= active
        BY <1>1 DEF SizeInv
      <3>3. len[handle] + n <= Room
        BY <1>1, <1>2, <2>2, <3>2 DEF NeedsRoll
      <3> QED BY <1>1, <1>2, <3>1, <3>2, <3>3
    <2> QED BY <2>1, <2>2
  <1>4. len' = [len EXCEPT ![t.file] = t.off + k]
        /\ valid' = [valid EXCEPT ![t.file] = IF k = n /\ @ = t.off THEN t.off + n ELSE @]
        /\ linked' \subseteq linked \cup {t.file}
    BY DEF Write
  <1> HIDE DEF t
  <1>5. \A s \in Segs : valid'[s] <= len'[s] /\ len'[s] <= Room
    <2> TAKE s \in Segs
    <2>1. CASE s = t.file
      <3>1. len'[s] = t.off + k /\ valid'[s] \in {t.off + k, valid[s]}
        BY <1>1, <1>3, <1>4, <2>1
      <3> QED BY <1>1, <1>3, <2>1, <3>1
    <2>2. CASE s # t.file
      BY <1>1, <1>4, <2>2 DEF SizeInv
    <2> QED BY <2>1, <2>2
  <1>6. \A s \in linked' : s <= t.seg
    <2> TAKE s \in linked'
    <2>1. s \in linked => s <= active /\ s \in Nat
      BY <1>1, SegFacts DEF SizeInv
    <2> QED BY <1>1, <1>3, <1>4, <2>1
  <1>7. \A s \in Segs : s > t.seg => len'[s] = 0
    <2> SUFFICES ASSUME NEW s \in Segs, s > t.seg PROVE len'[s] = 0
      OBVIOUS
    <2>1. s \in Nat /\ t.file \in Nat
      BY <1>3, SegFacts
    <2>2. s > active /\ s # t.file
      BY <1>1, <1>3, <2>1
    <2>3. len[s] = 0
      BY <2>2 DEF SizeInv
    <2> QED BY <1>1, <1>4, <2>2, <2>3
  <1> QED BY <1>3, <1>5, <1>6, <1>7 DEF t

\* An unlinked file only makes room.
LEMMA SizeUnlink ==
    ASSUME TypeOK, TypeOK', SizeInv, pc # "down", NEW s \in linked, Unlink(s)
    PROVE  /\ TotalBytes' <= TotalBytes
           /\ \A x \in Segs : valid'[x] <= len'[x] /\ len'[x] <= Room
           /\ \A x \in linked' : x <= active
           /\ \A x \in Segs : x > active => len'[x] = 0
  <1>1. linked' = linked \ {s}
        /\ len' = [len EXCEPT ![s] = IF s = handle THEN @ ELSE 0]
        /\ valid' = [valid EXCEPT ![s] = IF s = handle THEN @ ELSE 0]
    BY DEF Unlink
  <1>2. len \in [Segs -> Nat] /\ valid \in [Segs -> Nat] /\ Room \in Nat
    BY RoomFacts DEF TypeOK
  <1>3. \A x \in Segs : \/ len'[x] = len[x] /\ valid'[x] = valid[x]
                        \/ len'[x] = 0 /\ valid'[x] = 0
    <2>1. CASE s = handle
      <3>1. len' = len /\ valid' = valid
        BY <1>1, <1>2, <2>1
      <3> QED BY <3>1
    <2>2. CASE s # handle
      <3>1. len' = [len EXCEPT ![s] = 0] /\ valid' = [valid EXCEPT ![s] = 0]
        BY <1>1, <2>2
      <3> QED BY <1>2, <3>1
    <2> QED BY <2>1, <2>2
  <1>4. TotalBytes' <= TotalBytes
    <2>1. \A x \in linked \ {s} : len'[x] <= len[x]
      BY <1>1, <1>2 DEF TypeOK
    <2>2. IsFiniteSet(linked')
      BY <1>1, DirFinite, FS_Subset
    <2>3. linked \ {s} \subseteq linked
      OBVIOUS
    <2> QED BY <1>1, <2>1, <2>2, <2>3, TotalShrinks
  <1>5. \A x \in Segs : valid'[x] <= len'[x] /\ len'[x] <= Room
    BY <1>2, <1>3 DEF SizeInv
  <1>6. \A x \in Segs : x > active => len'[x] = 0
    BY <1>3 DEF SizeInv
  <1> QED BY <1>1, <1>4, <1>5, <1>6 DEF SizeInv

\* A directory that is over its cap and whose oldest segment is the active one
\* has that segment only.
LEMMA LoneSegment ==
    ASSUME TypeOK, SizeInv, pc = "cap", OverCap, Oldest = active
    PROVE  TotalBytes <= Room
  <1>1. linked \subseteq Segs /\ linked # {} /\ active \in Segs /\ Segs \subseteq Nat
    BY SegFacts DEF TypeOK, OverCap
  <1>2. active \in linked /\ \A s \in linked : active <= s
    BY <1>1, OldestSegment DEF Oldest
  <1>3. linked = {active}
    <2>1. ASSUME NEW s \in linked PROVE s = active
      <3>1. s <= active /\ active <= s /\ s \in Nat /\ active \in Nat
        BY <1>1, <1>2 DEF SizeInv
      <3> QED BY <3>1
    <2> QED BY <1>2, <2>1
  <1>4. len[active] \in Nat /\ len[active] <= Room
    BY <1>1 DEF SizeInv, TypeOK
  <1>5. SumFunctionOnSet(len, {active}) = len[active]
    BY <1>4, SumOfOne
  <1> QED BY <1>3, <1>4, <1>5 DEF TotalBytes

\* Opening a directory cuts torn tails off and adds nothing.
LEMMA SizeOpen ==
    ASSUME TypeOK, TypeOK', SizeInv, Open
    PROVE  /\ TotalBytes' <= TotalBytes
           /\ \A s \in Segs : valid'[s] <= len'[s] /\ len'[s] <= Room
           /\ \A s \in linked' : s <= active'
           /\ \A s \in Segs : s > active' => len'[s] = 0
  <1> DEFINE found == IF linked = {} THEN {0} ELSE linked
  <1>1. PICK scan \in [found -> UNION {Scan(s) : s \in found}] :
            /\ \A s \in found : scan[s] \in Scan(s)
            /\ linked' = found
            /\ active' = LastSegment(found)
            /\ len' = [s \in Segs |-> IF s \in linked THEN scan[s].end ELSE 0]
            /\ valid' = len'
    BY DEF Open
  <1>2. len \in [Segs -> Nat] /\ valid \in [Segs -> Nat] /\ Room \in Nat /\ Segs \subseteq Nat
        /\ linked \subseteq Segs /\ 0 \in Segs
    BY RoomFacts, SegFacts DEF TypeOK
  <1>3. \A s \in linked : scan[s].end \in {valid[s], len[s]}
    <2> TAKE s \in linked
    <2>1. scan[s] \in Scan(s)
      BY <1>1
    <2> QED BY <2>1 DEF Scan
  <1>4. \A s \in linked : len'[s] <= len[s]
    BY <1>1, <1>2, <1>3 DEF SizeInv
  <1>5. \A s \in Segs : s \notin linked => len'[s] = 0
    BY <1>1
  <1>6. \A s \in Segs : len'[s] <= Room /\ valid'[s] <= len'[s]
    <2> TAKE s \in Segs
    <2>1. len'[s] \in Nat /\ valid'[s] = len'[s] /\ len[s] \in Nat /\ len[s] <= Room
      BY <1>1, <1>2 DEF TypeOK, SizeInv
    <2> QED BY <1>2, <1>4, <1>5, <2>1
  <1>7. found \subseteq Segs /\ found # {}
    BY <1>2
  <1>8. active' \in found /\ \A s \in found : s <= active'
    BY <1>1, <1>7, NewestSegment DEF LastSegment
  <1>9. \A s \in Segs : s > active' => len'[s] = 0
    <2> SUFFICES ASSUME NEW s \in Segs, s > active' PROVE s \notin linked
      BY <1>5
    <2>1. s \in Nat /\ active' \in Nat
      BY <1>2, <1>7, <1>8
    <2> QED BY <1>8, <2>1
  <1>10. TotalBytes' <= TotalBytes
    <2>1. CASE linked = {}
      <3>1. linked' = {0} /\ len'[0] = 0
        BY <1>1, <1>2, <1>5, <2>1
      <3>2. SumFunctionOnSet(len', {0}) = 0
        BY <3>1, SumOfOne
      <3>3. TotalBytes' = 0
        BY <3>1, <3>2 DEF TotalBytes
      <3> QED BY <3>3, DirFinite
    <2>2. CASE linked # {}
      <3>1. linked' = linked
        BY <1>1, <2>2
      <3> QED BY <1>4, <3>1, DirFinite, TotalShrinks
    <2> QED BY <2>1, <2>2
  <1> QED BY <1>1, <1>6, <1>8, <1>9, <1>10

\* The invariant survives every step when no operation fails but by not getting
\* its segment file.
LEMMA SizeStep ==
    ASSUME OnlyOpeningFails, TypeOK, TypeOK', SizeInv, DiskBounded, [Next]_vars
    PROVE  SizeInv' /\ DiskBounded'
  <1>1. TotalBytes \in Nat /\ TotalBytes' \in Nat /\ IsFiniteSet(linked) /\ IsFiniteSet(linked')
    <2>1. IsFiniteSet(Segs)
      BY SegAssumption, FS_Interval DEF Segs
    <2>2. IsFiniteSet(linked') /\ \A s \in linked' : len'[s] \in Nat
      BY <2>1, FS_Subset DEF TypeOK
    <2>3. TotalBytes' \in Nat
      BY <2>2, SumSplit DEF TotalBytes
    <2> QED BY <2>2, <2>3, DirFinite
  <1>2. Room \in Nat /\ MaxBytes <= Room /\ Spare \in Nat /\ MaxBytes \in Nat
    BY RoomFacts, CapAssumption
  <1>3. linked \subseteq Segs /\ len \in [Segs -> Nat] /\ valid \in [Segs -> Nat]
        /\ active \in Segs /\ handle \in Segs /\ active \in Nat /\ Segs \subseteq Nat
    BY SegFacts DEF TypeOK
  <1>4. linked' \subseteq Segs /\ len' \in [Segs -> Nat] /\ active' \in Segs
    BY DEF TypeOK
  <1>5. ASSUME NEW n \in Sizes, Append(n) PROVE SizeInv' /\ DiskBounded'
    <2>1. CanAppend(n) /\ Write(n, n) /\ pc = "idle" /\ pc' = "cap" /\ n \in 0..n
          /\ active' = Target(n).seg /\ handle' = Target(n).file
          /\ (NeedsRoll(n) => active < MaxSeg) /\ n <= MaxBytes
      BY <1>5, SizesAssumption DEF Append, CanAppend
    <2>2. TotalBytes' <= TotalBytes + n
      BY <2>1, TotalGrows
    <2>3. TotalBytes <= Room /\ n <= Spare /\ n \in Nat
      BY <2>1, RoomFacts, SizesAssumption DEF SizeInv
    <2>4. DiskBounded'
      <3>1. TotalBytes' <= Room + Spare
        BY <1>1, <1>2, <2>2, <2>3
      <3> QED BY <3>1 DEF DiskBounded
    <2>5. SizeInv'
      BY <2>1, SizeWrite DEF SizeInv
    <2> QED BY <2>4, <2>5
  <1>6. ASSUME NEW n \in Sizes, NEW k \in 0..n, AppendCrash(n, k) PROVE SizeInv' /\ DiskBounded'
    <2>1. CanAppend(n) /\ Write(n, k) /\ pc = "idle" /\ pc' = "down"
          /\ (NeedsRoll(n) => active < MaxSeg) /\ n <= MaxBytes
      BY <1>6 DEF AppendCrash, CanAppend
    <2>2. TotalBytes' <= TotalBytes + k
      BY <2>1, TotalGrows
    <2>3. TotalBytes <= Room /\ k <= Spare /\ k \in Nat
      BY <1>2, <2>1, RoomFacts, SizesAssumption DEF SizeInv
    <2>4. DiskBounded'
      <3>1. TotalBytes' <= Room + Spare
        BY <1>1, <1>2, <2>2, <2>3
      <3> QED BY <3>1 DEF DiskBounded
    <2>5. SizeInv'
      BY <2>1, SizeWrite DEF SizeInv
    <2> QED BY <2>4, <2>5
  <1>7. ASSUME NEW n \in Sizes, NEW k \in 0..n, AppendFails(n, k) PROVE FALSE
    BY <1>7 DEF AppendFails, OnlyOpeningFails
  <1>8. ASSUME NEW n \in Sizes, RollFails(n) PROVE SizeInv' /\ DiskBounded'
    <2>1. linked' = linked /\ len' = len /\ valid' = valid /\ pc' = pc /\ handle' = handle
          /\ active' = active + 1 /\ pc = "idle"
      BY <1>8 DEF RollFails, CanAppend, dirVars
    <2>2. TotalBytes' = TotalBytes
      BY <2>1 DEF TotalBytes
    <2>3. \A s \in Segs : s > active + 1 => s > active
      BY <1>3
    <2>4. \A s \in linked : s <= active + 1
      BY <1>3, <2>1 DEF SizeInv
    <2>5. handle <= active + 1
      BY <1>3, <2>1 DEF SizeInv
    <2> QED BY <2>1, <2>2, <2>3, <2>4, <2>5 DEF SizeInv, DiskBounded
  <1>9. CASE CapRoll
    <2> DEFINE s == active + 1
    <2>1. linked' = linked \cup {s} /\ len' = len /\ valid' = valid /\ pc' = "cap" /\ pc = "cap"
          /\ active' = s /\ handle' = s
      BY <1>9 DEF CapRoll
    <2>2. s \in Segs /\ len[s] = 0 /\ s \notin linked
      <3>1. s \in Segs
        BY <1>4, <2>1
      <3> QED BY <1>3, <2>1, <3>1 DEF SizeInv
    <2> HIDE DEF s
    <2>3. TotalBytes' = TotalBytes
      <3>1. \A x \in linked' : len'[x] \in Nat
        BY <1>4
      <3>2. s \in linked' /\ linked' \ {s} = linked /\ len'[s] = 0
        BY <2>1, <2>2
      <3>3. SumFunctionOnSet(len', linked') = len'[s] + SumFunctionOnSet(len', linked' \ {s})
        BY <1>1, <3>1, <3>2, SumSplit
      <3> QED BY <1>1, <2>1, <3>2, <3>3 DEF TotalBytes
    <2>4. \A x \in Segs : x > s => x > active
      BY <1>3 DEF s
    <2>5. \A x \in linked' : x <= s
      BY <1>3, <2>1 DEF SizeInv, s
    <2>6. handle' <= active'
      BY <1>3, <2>1 DEF s
    <2> QED BY <2>1, <2>3, <2>4, <2>5, <2>6 DEF SizeInv, DiskBounded
  <1>10. CASE CapEvict
    <2>1. pc = "cap" /\ pc' = "evicted" /\ Unlink(Oldest) /\ OverCap
          /\ active' = active /\ handle' = handle
      BY <1>10 DEF CapEvict
    <2>2. Oldest \in linked
      BY <1>3, <2>1, OldestSegment DEF OverCap, Oldest
    <2>3. TotalBytes' <= TotalBytes
      BY <2>1, <2>2, SizeUnlink
    <2>4. DiskBounded'
      BY <1>1, <1>2, <2>3 DEF DiskBounded
    <2>5. SizeInv'
      BY <2>1, <2>2, SizeUnlink DEF SizeInv
    <2> QED BY <2>4, <2>5
  <1>11. CASE AckDelete
    <2>1. pc = "persisted" /\ pc' = pc /\ Unlink(Min(FullyAcked)) /\ FullyAcked # {}
          /\ active' = active /\ handle' = handle
      BY <1>11 DEF AckDelete, memVars
    <2>2. Min(FullyAcked) \in linked
      <3>1. FullyAcked \subseteq linked
        BY DEF FullyAcked
      <3>2. FullyAcked \subseteq Segs
        BY <1>3, <3>1
      <3> QED BY <2>1, <3>1, <3>2, OldestSegment
    <2>3. TotalBytes' <= TotalBytes
      BY <2>1, <2>2, SizeUnlink
    <2>4. TotalBytes' <= Room
      BY <1>1, <1>2, <2>1, <2>3 DEF SizeInv
    <2>5. DiskBounded'
      BY <1>1, <1>2, <2>3 DEF DiskBounded
    <2>6. SizeInv'
      BY <2>1, <2>2, <2>4, SizeUnlink DEF SizeInv
    <2> QED BY <2>5, <2>6
  <1>12. CASE CapExhausted \/ CapRollFails
    <2>1. linked' = linked /\ len' = len /\ valid' = valid /\ pc = "cap" /\ OverCap /\ Oldest = active
          /\ (pc' = "down" \/ (handle' = handle /\ active' \in {active, active + 1}))
      <3>1. CASE CapExhausted
        <4>1. pc' = "down" \/ UNCHANGED <<active, handle>>
          BY <3>1 DEF CapExhausted, ReturnError
        <4> QED BY <3>1, <4>1 DEF CapExhausted, dirVars
      <3>2. CASE CapRollFails
        BY <3>2 DEF CapRollFails, dirVars
      <3> QED BY <1>12, <3>1, <3>2
    <2>2. TotalBytes' <= Room /\ TotalBytes' = TotalBytes
      BY <2>1, LoneSegment DEF TotalBytes
    <2>3. pc' # "down" => handle' <= active'
      BY <1>3, <2>1 DEF SizeInv
    <2>4. pc' # "down" => \A s \in linked' : s <= active'
      BY <1>3, <2>1 DEF SizeInv
    <2>5. pc' # "down" => \A s \in Segs : s > active' => s > active
      BY <1>3, <2>1
    <2> QED BY <2>1, <2>2, <2>3, <2>4, <2>5 DEF SizeInv, DiskBounded
  <1>13. CASE CapDone
    <2>1. linked' = linked /\ len' = len /\ valid' = valid /\ pc = "cap" /\ ~OverCap
          /\ handle' = handle /\ active' = active
      BY <1>13 DEF CapDone, dirVars
    <2>2. TotalBytes' = TotalBytes
      BY <2>1 DEF TotalBytes
    <2>3. TotalBytes <= Room
      <3>1. CASE linked = {}
        BY <1>1, <1>2, <3>1, SumSplit DEF TotalBytes
      <3>2. CASE linked # {}
        BY <1>1, <1>2, <2>1, <3>2 DEF OverCap
      <3> QED BY <3>1, <3>2
    <2> QED BY <2>1, <2>2, <2>3 DEF SizeInv, DiskBounded
  <1>14. CASE CapPersist \/ AckPersist \/ AckDone \/ AckPop \/ SkipCorrupt \/ Crash \/ Rot \/ UNCHANGED vars
    <2>1. linked' = linked /\ len' = len /\ valid' = valid
          /\ (pc' \in {"idle", "popped", "persisted"} => pc \in {"idle", "popped", "persisted"})
          /\ (pc' # "down" => pc # "down" /\ handle' = handle /\ active' = active)
      BY <1>14 DEF CapPersist, AckPersist, AckDone, AckPop, SkipCorrupt, Crash, Forget, Rot, vars,
         dirVars, memVars, histVars
    <2>2. TotalBytes' = TotalBytes
      BY <2>1 DEF TotalBytes
    <2> QED BY <2>1, <2>2 DEF SizeInv, DiskBounded
  <1>15. CASE OpFails
    BY <1>15 DEF OpFails, OnlyOpeningFails
  <1>16. CASE Open
    <2>1. pc' = "cap" /\ handle' = active'
      BY <1>16 DEF Open
    <2>2. TotalBytes' <= TotalBytes
      BY <1>16, SizeOpen
    <2>3. DiskBounded'
      BY <1>1, <1>2, <2>2 DEF DiskBounded
    <2>4. handle' <= active'
      BY <1>3, <1>4, <2>1
    <2> QED BY <1>16, <2>1, <2>3, <2>4, SizeOpen DEF SizeInv
  <1> QED
    BY <1>5, <1>6, <1>7, <1>8, <1>9, <1>10, <1>11, <1>12, <1>13, <1>14, <1>15, <1>16
    DEF Next, Internal

\* The disk queue never takes more than its cap, or a segment where that is more,
\* and the one record being appended (wal.rs: append, enforce_cap, open), however
\* often it crashes, tears a write, loses a checksum or gets no segment file.
THEOREM WalDiskBounded == OnlyOpeningFails /\ Spec => []DiskBounded
  <1> SUFFICES ASSUME OnlyOpeningFails PROVE Spec => []DiskBounded
    OBVIOUS
  <1>1. Init => SizeInv /\ DiskBounded
    <2> SUFFICES ASSUME Init PROVE SizeInv /\ DiskBounded
      OBVIOUS
    <2>1. Room \in Nat /\ Spare \in Nat
      BY RoomFacts
    <2>2. SizeInv
      BY <2>1 DEF Init, SizeInv
    <2>3. TotalBytes = 0
      <3>1. linked = {} /\ IsFiniteSet(linked)
        BY FS_EmptySet DEF Init
      <3> QED BY <3>1, SumSplit DEF TotalBytes
    <2> QED BY <2>1, <2>2, <2>3 DEF DiskBounded
  <1>2. TypeOK /\ TypeOK' /\ SizeInv /\ DiskBounded /\ [Next]_vars => SizeInv' /\ DiskBounded'
    BY SizeStep
  <1> QED BY <1>1, <1>2, WalTypeCorrect, PTL DEF Spec
=============================================================================
