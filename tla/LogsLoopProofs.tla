--------------------------- MODULE LogsLoopProofs ---------------------------
(***************************************************************************)
(* Proofs about LogsLoop, for any number of files, lines and restarts and  *)
(* every poll, retry, drain and queue limit.                               *)
(***************************************************************************)
EXTENDS LogsLoop, OrderLemmas, SequenceTheorems, TLAPS

-----------------------------------------------------------------------------
(* Lines and batches *)

\* Nothing has no lines, and nothing comes before it.
LEMMA NothingFacts ==
    Nothing \in Batches /\ LinesOf(Nothing) = {} /\ Below(Nothing.src, Nothing.from) = {}
  BY BoundsAssumption DEF Nothing, Batch, Batches, LinesOf, Below, Sources, Journal

\* What precedes the end of a batch precedes the batch or belongs to it.
LEMMA BelowSplit ==
    ASSUME NEW b \in Batches, NEW l \in Nat, l <= b.to + 1
    PROVE  Below(b.src, l) \subseteq Below(b.src, b.from) \cup LinesOf(b)
  BY DEF Batches, Below, LinesOf

\* The head of the index is one of its live entries, and the oldest.
LEMMA HeadFacts ==
    ASSUME NEW q \in Seq(Entries), LiveAt(q) # {}
    PROVE  Min(LiveAt(q)) \in LiveAt(q) /\ \A i \in LiveAt(q) : Min(LiveAt(q)) <= i
  <1>1. LiveAt(q) \subseteq Nat
    BY DEF LiveAt
  <1> QED BY <1>1, MinIsLeast

\* What Append does to the lines queued, and to what is queued before an entry.
LEMMA AppendFacts ==
    ASSUME NEW q \in Seq(Entries), NEW e \in Entries
    PROVE  /\ Append(q, e) \in Seq(Entries)
           /\ DOMAIN Append(q, e) = 1..(Len(q) + 1)
           /\ \A i \in 1..Len(q) : Append(q, e)[i] = q[i]
           /\ Append(q, e)[Len(q) + 1] = e
           /\ Queued(q) \subseteq Queued(Append(q, e))
           /\ Queued(Append(q, e)) \subseteq Queued(q) \cup LinesOf(e.batch)
           /\ e.state = "live" => LinesOf(e.batch) \subseteq Queued(Append(q, e))
           /\ \A n \in 1..(Len(q) + 1) : QueuedBefore(q, n) \subseteq QueuedBefore(Append(q, e), n)
           /\ Queued(q) \subseteq QueuedBefore(Append(q, e), Len(q) + 1)
  <1> DEFINE r == Append(q, e)
  <1>1. r \in Seq(Entries) /\ Len(r) = Len(q) + 1 /\ DOMAIN r = 1..(Len(q) + 1)
        /\ r[Len(q) + 1] = e /\ \A i \in 1..Len(q) : r[i] = q[i]
    OBVIOUS
  <1>2. DOMAIN q = 1..Len(q) /\ Len(q) \in Nat
    OBVIOUS
  <1> HIDE DEF r
  <1>3. \A i \in LiveAt(q) : i \in LiveAt(r) /\ r[i] = q[i] /\ i < Len(q) + 1
    BY <1>1, <1>2 DEF LiveAt
  <1>4. \A i \in LiveAt(r) : i \in LiveAt(q) \/ i = Len(q) + 1
    BY <1>1, <1>2 DEF LiveAt
  <1>5. e.state = "live" => Len(q) + 1 \in LiveAt(r)
    BY <1>1, <1>2 DEF LiveAt
  <1>6. Queued(q) \subseteq Queued(r)
    BY <1>3 DEF Queued
  <1>7. Queued(r) \subseteq Queued(q) \cup LinesOf(e.batch)
    BY <1>1, <1>3, <1>4 DEF Queued
  <1>8. e.state = "live" => LinesOf(e.batch) \subseteq Queued(r)
    BY <1>1, <1>5 DEF Queued
  <1>9. \A n \in 1..(Len(q) + 1) : QueuedBefore(q, n) \subseteq QueuedBefore(r, n)
    BY <1>3 DEF QueuedBefore
  <1>10. Queued(q) \subseteq QueuedBefore(r, Len(q) + 1)
    BY <1>3 DEF QueuedBefore, Queued
  <1> QED BY <1>1, <1>6, <1>7, <1>8, <1>9, <1>10 DEF r

\* What the queue loses with its first k entries.
LEMMA WithoutFacts ==
    ASSUME queue \in Seq(Entries), NEW k \in 0..Len(queue)
    PROVE  /\ Without(k) \in Seq(Entries)
           /\ Len(Without(k)) = Len(queue) - k
           /\ \A i \in 1..(Len(queue) - k) : Without(k)[i] = queue[i + k]
           /\ Queued(queue) \subseteq QueuedBefore(queue, k + 1) \cup Queued(Without(k))
           /\ Queued(Without(k)) \subseteq Queued(queue)
           /\ \A i \in 1..(Len(queue) - k) :
                 QueuedBefore(queue, i + k)
                     \subseteq QueuedBefore(queue, k + 1) \cup QueuedBefore(Without(k), i)
  <1> DEFINE r == Without(k)
             n == Len(queue)
  <1>1. n \in Nat /\ DOMAIN queue = 1..n /\ k \in 0..n
    OBVIOUS
  <1>2. r \in Seq(Entries) /\ Len(r) = n - k /\ DOMAIN r = 1..(n - k)
        /\ \A i \in 1..(n - k) : r[i] = queue[i + k]
    <2>1. \A i \in (k + 1)..n : queue[i] \in Entries
      BY <1>1
    <2>2. /\ r \in Seq(Entries)
          /\ Len(r) = IF k + 1 <= n THEN n - (k + 1) + 1 ELSE 0
          /\ \A i \in 1..(n - (k + 1) + 1) : r[i] = queue[(k + 1) + i - 1]
      BY <1>1, <2>1, SubSeqProperties DEF Without
    <2> HIDE DEF r, n
    <2>5. Len(r) = IF k + 1 <= n THEN n - (k + 1) + 1 ELSE 0
      BY <2>2
    <2>3. Len(r) = n - k
      BY <1>1, <2>5
    <2>4. \A i \in 1..(n - k) : r[i] = queue[i + k]
      <3> SUFFICES ASSUME NEW i \in 1..(n - k) PROVE r[i] = queue[i + k]
        OBVIOUS
      <3>1. i \in 1..(n - (k + 1) + 1) /\ (k + 1) + i - 1 = i + k
        BY <1>1
      <3> QED BY <2>2, <3>1
    <2> QED BY <2>2, <2>3, <2>4
  <1> HIDE DEF r, n
  <1>3. \A i \in LiveAt(r) : i + k \in LiveAt(queue) /\ r[i] = queue[i + k]
    BY <1>1, <1>2 DEF LiveAt
  <1>4. \A j \in LiveAt(queue) : j < k + 1 \/ (j - k \in LiveAt(r) /\ r[j - k] = queue[j])
    <2> SUFFICES ASSUME NEW j \in LiveAt(queue), ~(j < k + 1)
                 PROVE  j - k \in LiveAt(r) /\ r[j - k] = queue[j]
      OBVIOUS
    <2>1. j \in 1..n /\ queue[j].state = "live" /\ j - k \in 1..(n - k) /\ (j - k) + k = j
      BY <1>1 DEF LiveAt
    <2>2. r[j - k] = queue[j]
      BY <1>2, <2>1
    <2> QED BY <1>2, <2>1, <2>2 DEF LiveAt
  <1>5. Queued(queue) \subseteq QueuedBefore(queue, k + 1) \cup Queued(r)
    BY <1>4 DEF Queued, QueuedBefore
  <1>6. Queued(r) \subseteq Queued(queue)
    BY <1>3 DEF Queued
  <1>7. \A i \in 1..(n - k) :
           QueuedBefore(queue, i + k) \subseteq QueuedBefore(queue, k + 1) \cup QueuedBefore(r, i)
    <2> SUFFICES ASSUME NEW i \in 1..(n - k), NEW x \in QueuedBefore(queue, i + k),
                        x \notin QueuedBefore(queue, k + 1)
                 PROVE  x \in QueuedBefore(r, i)
      OBVIOUS
    <2>1. PICK j \in LiveAt(queue) : j < i + k /\ x \in LinesOf(queue[j].batch)
      BY DEF QueuedBefore
    <2>2. ~(j < k + 1)
      BY <2>1 DEF QueuedBefore
    <2>3. j - k \in LiveAt(r) /\ r[j - k] = queue[j] /\ j - k < i
      BY <1>1, <1>4, <2>1, <2>2 DEF LiveAt
    <2> QED BY <2>1, <2>3 DEF QueuedBefore
  <1> QED BY <1>2, <1>5, <1>6, <1>7 DEF r, n
-----------------------------------------------------------------------------
(* Type correctness *)

\* The lines that were written, and those of a batch.
LEMMA LineIs ==
    ASSUME NEW s, NEW l
    PROVE  <<s, l>> \in Lines <=> s \in Sources /\ l \in 1..written[s]
  BY DEF Lines

LEMMA BatchLines ==
    ASSUME TypeOK, NEW b \in Batches, Written(b)
    PROVE  LinesOf(b) \subseteq Lines
  <1> SUFFICES ASSUME NEW l \in b.from .. b.to PROVE <<b.src, l>> \in Lines
    BY DEF LinesOf
  <1>1. b.src \in Sources /\ l \in 1..written[b.src]
    <2>1. b.src \in Sources /\ b.from \in Nat \ {0} /\ b.to \in Nat /\ b.to <= written[b.src]
      BY DEF Batches, Written
    <2>2. written[b.src] \in Nat
      BY <2>1 DEF TypeOK
    <2> QED BY <2>1, <2>2
  <1> QED BY <1>1, LineIs

\* The batch an attempt carries is a batch of lines that were written.
LEMMA CarriedFacts ==
    ASSUME TypeOK
    PROVE  Carried \in Batches /\ Written(Carried) /\ LinesOf(Carried) \subseteq Lines
  <1>1. Carried \in Batches /\ Written(Carried)
    <2>1. CASE Backlog
      <3>1. HeadAt \in DOMAIN queue
        BY <2>1, HeadFacts DEF TypeOK, Backlog, HeadAt, LiveAt
      <3>2. queue[HeadAt] \in Entries /\ Written(queue[HeadAt].batch)
        BY <3>1 DEF TypeOK
      <3> QED BY <2>1, <3>2 DEF Carried, Entries
    <2>2. CASE ~Backlog
      BY <2>2 DEF Carried, TypeOK
    <2> QED BY <2>1, <2>2
  <1> QED BY <1>1, BatchLines

\* Queued lines are written lines.
LEMMA QueuedLines ==
    ASSUME TypeOK, NEW n
    PROVE  Queued(queue) \subseteq Lines /\ QueuedBefore(queue, n) \subseteq Lines
  <1>1. \A i \in LiveAt(queue) : LinesOf(queue[i].batch) \subseteq Lines
    <2> SUFFICES ASSUME NEW i \in LiveAt(queue) PROVE LinesOf(queue[i].batch) \subseteq Lines
      OBVIOUS
    <2>1. queue[i] \in Entries /\ Written(queue[i].batch)
      BY DEF TypeOK, LiveAt
    <2> QED BY <2>1, BatchLines DEF Entries
  <1> QED BY <1>1 DEF Queued, QueuedBefore

\* A poll ends within the file.
LEMMA PollEndFacts ==
    ASSUME TypeOK, NEW f \in Sources
    PROVE  /\ PollEnd(f) \in Nat /\ checkpoint[f] <= PollEnd(f)
           /\ PollEnd(f) <= written[f] /\ PollEnd(f) <= checkpoint[f] + MaxPoll
           /\ PollEnd(f) = written[f] \/ PollEnd(f) = checkpoint[f] + MaxPoll
  <1> DEFINE a == written[f]
             b == checkpoint[f] + MaxPoll
  <1>1. a \in Nat /\ b \in Nat /\ checkpoint[f] \in Nat /\ checkpoint[f] <= a /\ checkpoint[f] <= b
    BY BoundsAssumption DEF TypeOK
  <1> HIDE DEF a, b
  <1>2. {a, b} \subseteq Nat /\ {a, b} # {} /\ a \in {a, b} /\ b \in {a, b}
    BY <1>1
  <1>3. Min({a, b}) \in {a, b} /\ \A y \in {a, b} : Min({a, b}) <= y
    BY <1>2, MinIsLeast
  <1>4. PollEnd(f) = Min({a, b})
    BY DEF PollEnd, a, b
  <1> QED BY <1>1, <1>3, <1>4 DEF a, b

\* A queue that shrank, or lost its liveness in places, is still one of lines.
LEMMA QueueTypes ==
    ASSUME TypeOK, NEW k \in 0..Len(queue)
    PROVE  /\ Without(k) \in Seq(Entries)
           /\ \A i \in DOMAIN Without(k) : Written(Without(k)[i].batch)
  <1>1. queue \in Seq(Entries) /\ DOMAIN queue = 1..Len(queue) /\ Len(queue) \in Nat
    BY DEF TypeOK
  <1>2. /\ Without(k) \in Seq(Entries)
        /\ Len(Without(k)) = Len(queue) - k
        /\ \A i \in 1..(Len(queue) - k) : Without(k)[i] = queue[i + k]
    BY <1>1, WithoutFacts
  <1>3. DOMAIN Without(k) = 1..(Len(queue) - k)
    BY <1>2
  <1>4. \A i \in 1..(Len(queue) - k) : i + k \in DOMAIN queue
    BY <1>1
  <1> QED BY <1>2, <1>3, <1>4 DEF TypeOK

LEMMA AppendTypes ==
    ASSUME NEW q \in Seq(Entries), NEW e \in Entries,
           \A i \in DOMAIN q : Written(q[i].batch),
           Written(e.batch)
    PROVE  /\ Append(q, e) \in Seq(Entries)
           /\ \A i \in DOMAIN Append(q, e) : Written(Append(q, e)[i].batch)
  <1>1. /\ Append(q, e) \in Seq(Entries)
        /\ DOMAIN Append(q, e) = 1..(Len(q) + 1)
        /\ \A i \in 1..Len(q) : Append(q, e)[i] = q[i]
        /\ Append(q, e)[Len(q) + 1] = e
    BY AppendFacts
  <1>2. DOMAIN q = 1..Len(q) /\ Len(q) \in Nat
    OBVIOUS
  <1>3. \A i \in 1..(Len(q) + 1) : i \in 1..Len(q) \/ i = Len(q) + 1
    BY <1>2
  <1> QED BY <1>1, <1>2, <1>3

\* The position of the head, and what is left once it is acknowledged.
LEMMA AckFacts ==
    ASSUME TypeOK, AckHead
    PROVE  \E k \in 0..Len(queue) :
              queue' = Without(k) /\ \A i \in LiveAt(queue) : i <= k => i = HeadAt
  <1> DEFINE rest == LiveAt(queue) \ {HeadAt}
  <1>1. DOMAIN queue = 1..Len(queue) /\ Len(queue) \in Nat /\ LiveAt(queue) \subseteq 1..Len(queue)
    BY DEF TypeOK, LiveAt
  <1>2. CASE rest = {}
    <2>1. queue' = Without(Len(queue))
      BY <1>1, <1>2, SubSeqEmpty DEF AckHead, Without
    <2> QED BY <1>1, <1>2, <2>1
  <1>3. CASE rest # {}
    <2>1. rest \subseteq Nat
      BY <1>1
    <2>2. Min(rest) \in rest /\ \A i \in rest : Min(rest) <= i
      BY <1>3, <2>1, MinIsLeast
    <2>3. queue' = Without(Min(rest) - 1)
      BY <1>3 DEF AckHead
    <2>4. Min(rest) - 1 \in 0..Len(queue)
      BY <1>1, <2>2
    <2>5. \A i \in LiveAt(queue) : i <= Min(rest) - 1 => i = HeadAt
      <3> SUFFICES ASSUME NEW i \in LiveAt(queue), i <= Min(rest) - 1, i # HeadAt PROVE FALSE
        OBVIOUS
      <3>1. i \in rest /\ i \in Nat /\ Min(rest) \in Nat
        BY <2>1, <2>2
      <3>2. Min(rest) <= i
        BY <2>2, <3>1
      <3> HIDE DEF rest
      <3> QED BY <3>1, <3>2
    <2> QED BY <2>3, <2>4, <2>5
  <1> QED BY <1>2, <1>3

\* Where the task goes when a batch is done with, or an error ends the pass.
LEMMA GoOnTypes ==
    ASSUME TypeOK, GoOn \/ GiveUp \/ Accepted
    PROVE  /\ turn' \in Sources
           /\ pc' \in {"select", "poll", "append", "attempt", "ack", "persist", "done", "failed"}
           /\ hand' \in Batches /\ Written(hand')
           /\ attempt' \in 0..Retries /\ drained' \in 0..MaxDrain
  <1> USE BoundsAssumption
  <1>1. Nothing \in Batches /\ Written(Nothing)
    BY NothingFacts DEF Nothing, Batch, Written, TypeOK, Sources, Journal
  <1>2. CASE GoOn
    <2>1. turn' \in Sources
      BY <1>2 DEF GoOn, TypeOK, Sources, Files
    <2> QED BY <1>1, <1>2, <2>1 DEF GoOn, TypeOK, Written
  <1>3. CASE GiveUp
    BY <1>1, <1>3 DEF GiveUp, TypeOK, Sources, Written
  <1>4. CASE Accepted
    BY <1>4 DEF Accepted, TypeOK, Written
  <1> QED BY <1>2, <1>3, <1>4

\* The queue after an append, whatever its result.
LEMMA StoreTypes ==
    ASSUME TypeOK, Store(hand) \/ StoreFails(hand)
    PROVE  /\ queue' \in Seq(Entries)
           /\ \A i \in DOMAIN queue' : Written(queue'[i].batch)
           /\ evicted' \subseteq Lines /\ faults' \in 0..MaxFaults
  <1> USE BoundsAssumption
  <1>1. \A state \in {"live", "dead"} :
            Entry(hand, state) \in Entries /\ Entry(hand, state).batch = hand
    BY DEF TypeOK, Entry, Entries
  <1>2. CASE Store(hand)
    <2>1. PICK k \in 0..Len(queue) :
              /\ queue' = Append(Without(k), Entry(hand, "live"))
              /\ evicted' = evicted \cup QueuedBefore(queue, k + 1)
              /\ UNCHANGED faults
      BY <1>2 DEF Store
    <2>2. evicted' \subseteq Lines
      BY <2>1, QueuedLines DEF TypeOK
    <2> QED BY <1>1, <2>1, <2>2, QueueTypes, AppendTypes DEF TypeOK
  <1>3. CASE StoreFails(hand)
    <2>1. CASE UNCHANGED <<queue, faults>>
      BY <1>3, <2>1 DEF StoreFails, TypeOK
    <2>2. CASE ~UNCHANGED <<queue, faults>>
      <3>1. /\ faults < MaxFaults /\ faults' = faults + 1 /\ evicted' = evicted
            /\ \/ queue' = queue
               \/ queue' = Append(queue, Entry(hand, "dead"))
               \/ queue' = Append(queue, Entry(hand, "live"))
        BY <1>3, <2>2 DEF StoreFails, queueVars
      <3>2. evicted' \subseteq Lines /\ faults' \in 0..MaxFaults
        BY <3>1 DEF TypeOK
      <3> QED BY <1>1, <3>1, <3>2, AppendTypes DEF TypeOK
    <2> QED BY <2>1, <2>2
  <1> QED BY <1>2, <1>3

\* The type invariant in parts; a step disturbs one or two of them.
SourceTypes ==
    /\ written \in [Sources -> Nat] /\ checkpoint \in [Sources -> Nat]
    /\ \A s \in Sources : checkpoint[s] <= written[s] /\ written[s] <= MaxLines(s)
    /\ follower \in {"none", "suspect", "unproven", "proven"}
    /\ position \in 0..written[Journal]
TaskTypes ==
    /\ mode \in {"loop", "once"} /\ turn \in Sources
    /\ pc \in {"select", "poll", "append", "attempt", "ack", "persist", "done", "failed"}
    /\ hand \in Batches /\ Written(hand)
    /\ attempt \in 0..Retries /\ drained \in 0..MaxDrain
EntryTypes == queue \in Seq(Entries) /\ \A i \in DOMAIN queue : Written(queue[i].batch)
OtherTypes ==
    /\ weather \in {"calm", "rough"}
    /\ \A b \in wire : b \in Batches /\ Written(b)
    /\ faults \in 0..MaxFaults /\ restarts \in 0..MaxRestarts
    /\ goal \in [Sources -> Nat]
    /\ received \subseteq Lines /\ evicted \subseteq Lines
    /\ dropped \subseteq {Journal} \X (1..written[Journal])

PartedTypes == parted \in BOOLEAN

LEMMA TypeParts ==
    TypeOK <=> SourceTypes /\ TaskTypes /\ EntryTypes /\ OtherTypes /\ PartedTypes
  BY DEF TypeOK, PartedTypes, SourceTypes, TaskTypes, EntryTypes, OtherTypes

\* A part whose variables, and the lines written, do not change stays.
LEMMA SourceFrame == SourceTypes /\ UNCHANGED sourceVars => SourceTypes'
  BY DEF SourceTypes, sourceVars, MaxLines

LEMMA TaskFrame ==
    ASSUME TaskTypes, UNCHANGED <<written, mode, hand>>, turn' \in Sources,
           attempt' \in 0..Retries, drained' \in 0..MaxDrain,
           pc' \in {"select", "poll", "append", "attempt", "ack", "persist", "done", "failed"}
    PROVE  TaskTypes'
  BY DEF TaskTypes, Written

LEMMA TaskFresh ==
    ASSUME TaskTypes, UNCHANGED mode, hand' \in Batches, hand'.to <= written'[hand'.src],
           turn' \in Sources, attempt' \in 0..Retries, drained' \in 0..MaxDrain,
           pc' \in {"select", "poll", "append", "attempt", "ack", "persist", "done", "failed"}
    PROVE  TaskTypes'
  BY DEF TaskTypes, Written

LEMMA EntryFrame == EntryTypes /\ UNCHANGED <<written, queue>> => EntryTypes'
  BY DEF EntryTypes, Written

LEMMA EntryFresh ==
    ASSUME UNCHANGED written, queue' \in Seq(Entries),
           \A i \in DOMAIN queue' : Written(queue'[i].batch)
    PROVE  EntryTypes'
  BY DEF EntryTypes, Written

LEMMA OtherFrame ==
    ASSUME OtherTypes, UNCHANGED <<written, weather, restarts, goal>>,
           \A b \in wire' : b \in Batches /\ Written(b),
           faults' \in 0..MaxFaults, received' \subseteq Lines, evicted' \subseteq Lines,
           dropped' \subseteq {Journal} \X (1..written[Journal])
    PROVE  OtherTypes'
  <1>1. Lines' = Lines
    BY DEF Lines
  <1>2. \A b \in wire' : b \in Batches /\ Written(b)'
    BY DEF Written
  <1> QED BY <1>1, <1>2 DEF OtherTypes

LEMMA OtherSame == OtherTypes /\ UNCHANGED <<written, envVars, histVars>> => OtherTypes'
  <1> SUFFICES ASSUME OtherTypes, UNCHANGED <<written, envVars, histVars>> PROVE OtherTypes'
    OBVIOUS
  <1> QED BY OtherFrame DEF OtherTypes, envVars, histVars

\* The same batches, each an entry of some liveness.
LEMMA MarkTypes ==
    ASSUME EntryTypes, NEW q, DOMAIN q = DOMAIN queue,
           \A i \in DOMAIN queue : \E state \in {"live", "dead"} : q[i] = Entry(queue[i].batch, state),
           q \in Seq({q[i] : i \in DOMAIN q})
    PROVE  q \in Seq(Entries) /\ \A i \in DOMAIN q : Written(q[i].batch)
  <1>1. \A i \in DOMAIN queue : q[i] \in Entries /\ q[i].batch = queue[i].batch
    <2> SUFFICES ASSUME NEW i \in DOMAIN queue
                 PROVE  q[i] \in Entries /\ q[i].batch = queue[i].batch
      OBVIOUS
    <2>1. queue[i] \in Entries
      BY DEF EntryTypes
    <2>2. queue[i].batch \in Batches
      BY <2>1 DEF Entries
    <2>3. PICK state \in {"live", "dead"} : q[i] = Entry(queue[i].batch, state)
      OBVIOUS
    <2> QED BY <2>2, <2>3 DEF Entry, Entries
  <1>2. DOMAIN queue = 1..Len(queue) /\ Len(queue) \in Nat
    BY DEF EntryTypes
  <1>3. DOMAIN q = 1..Len(queue) /\ q = [i \in 1..Len(queue) |-> q[i]]
    BY <1>2
  <1>4. q \in Seq(Entries)
    BY <1>1, <1>2, <1>3
  <1> QED BY <1>1, <1>4 DEF EntryTypes

\* A step leaves parted alone, sets it or resets it.
LEMMA PartedType ==
    ASSUME parted \in BOOLEAN, [Next]_vars
    PROVE  parted' \in BOOLEAN
  <1>1. CASE AppendBatch
    <2>1. CASE StoreFails(hand)
      <3>1. parted' = parted \/ parted' = TRUE
        BY <2>1 DEF StoreFails, queueVars
      <3> QED BY <3>1
    <2>2. CASE Store(hand)
      BY <2>2 DEF Store
    <2> QED BY <1>1, <2>1, <2>2 DEF AppendBatch
  <1>2. CASE Restart
    BY <1>2 DEF Restart
  <1>3. CASE ~(AppendBatch \/ Restart)
    <2>1. parted' = parted
      BY <1>3 DEF Next, Progress, PollFile, PollEmpty, PollFails, AttemptOk, AttemptFails,
         Ack, AckFails, Persist, PersistFails, Tick, JournalRecord, Chatter, FollowerDies,
         ArriveLate, Weather, Write, queueVars, vars
    <2> QED BY <2>1
  <1> QED BY <1>1, <1>2, <1>3

LEMMA TypeStep == TypeOK /\ [Next]_vars => TypeOK'
  <1> SUFFICES ASSUME TypeOK, [Next]_vars PROVE TypeOK'
    OBVIOUS
  <1>p. PartedTypes'
    BY PartedType DEF TypeOK, PartedTypes
  <1> SUFFICES SourceTypes' /\ TaskTypes' /\ EntryTypes' /\ OtherTypes'
    BY <1>p, TypeParts, PTL
  <1> USE BoundsAssumption
  <1>0. SourceTypes /\ TaskTypes /\ EntryTypes /\ OtherTypes
    BY TypeParts
  <1>a. Journal \in Sources /\ 0 \in Sources /\ (NumFiles # 0 => 1 \in Sources)
        /\ 0 \in 0..Retries /\ 0 \in 0..MaxDrain
    BY DEF Journal, Sources
  <1>b. Nothing \in Batches /\ Nothing.to <= written[Nothing.src] /\ Written(Nothing)
    BY <1>0, <1>a, NothingFacts DEF Nothing, Batch, Written, SourceTypes
  <1>c. ASSUME GoOn \/ GiveUp \/ Accepted, UNCHANGED <<written, mode>> PROVE TaskTypes'
    BY <1>0, <1>c, GoOnTypes, TaskFresh DEF Written
  <1>1. CASE PollFile
    <2>1. turn \in Sources /\ PollEnd(turn) \in Nat /\ checkpoint[turn] \in Nat
          /\ PollEnd(turn) <= written[turn]
      BY PollEndFacts DEF TypeOK
    <2>2. hand' = Batch(turn, checkpoint[turn] + 1, PollEnd(turn)) /\ attempt' = 0 /\ drained' = 0
          /\ pc' \in {"append", "attempt"} /\ UNCHANGED <<mode, turn>>
          /\ UNCHANGED <<sourceVars, queue, envVars, histVars>>
      BY <1>1 DEF PollFile, Export, queueVars
    <2>3. hand' \in Batches /\ hand'.to <= written[hand'.src]
      BY <2>1, <2>2 DEF Batch, Batches
    <2>4. TaskTypes'
      BY <1>0, <1>a, <2>1, <2>2, <2>3, TaskFresh DEF sourceVars
    <2> QED BY <1>0, <2>2, <2>4, SourceFrame, EntryFrame, OtherSame DEF sourceVars
  <1>2. CASE PollEmpty \/ PollFails \/ PersistFails
    <2>1. (GoOn \/ GiveUp) /\ UNCHANGED <<sourceVars, mode, queue, envVars, histVars>>
      BY <1>2 DEF PollEmpty, PollFails, PersistFails, Degrade, queueVars
    <2>2. TaskTypes'
      BY <1>c, <2>1 DEF sourceVars
    <2> QED BY <1>0, <2>1, <2>2, SourceFrame, EntryFrame, OtherSame DEF sourceVars
  <1>3. CASE AppendBatch
    <2>1. UNCHANGED <<sourceVars, mode, envVars, restarts, goal, received>>
          /\ (Store(hand) \/ StoreFails(hand))
      BY <1>3 DEF AppendBatch
    <2>2. TaskTypes'
      <3>1. CASE GoOn \/ GiveUp \/ Accepted
        BY <1>c, <2>1, <3>1 DEF sourceVars
      <3>2. CASE DrainOn(0) /\ ~Accepted
        <4>1. pc' = "attempt" /\ attempt' = 0 /\ drained' = 0 /\ UNCHANGED <<turn, hand>>
          BY <3>2 DEF DrainOn
        <4> QED BY <1>0, <1>a, <2>1, <4>1, TaskFrame DEF sourceVars, TaskTypes
      <3> QED BY <1>3, <3>1, <3>2 DEF AppendBatch, Refused, Degrade
    <2>3. dropped' \subseteq {Journal} \X (1..written[Journal])
      <3>1. hand \in Batches /\ hand.to <= written[hand.src] /\ written[Journal] \in Nat
        BY <1>0, <1>a DEF TaskTypes, Written, SourceTypes
      <3>2. hand.src = Journal => LinesOf(hand) \subseteq {Journal} \X (1..written[Journal])
        BY <3>1 DEF Batches, LinesOf
      <3>3. dropped' = dropped \/ (hand.src = Journal /\ dropped' = dropped \cup LinesOf(hand))
        BY <1>3 DEF AppendBatch, Refused
      <3> QED BY <1>0, <3>2, <3>3 DEF OtherTypes
    <2>4. EntryTypes' /\ evicted' \subseteq Lines /\ faults' \in 0..MaxFaults
      BY <2>1, StoreTypes, EntryFresh DEF sourceVars
    <2>5. OtherTypes'
      BY <1>0, <2>1, <2>3, <2>4, OtherFrame DEF OtherTypes, envVars, sourceVars
    <2> QED BY <1>0, <2>1, <2>2, <2>4, <2>5, SourceFrame
  <1>4. CASE AttemptOk \/ AttemptFails
    <2>1. UNCHANGED <<sourceVars, mode, queue, weather, faults, restarts, goal, evicted, dropped>>
          /\ received' \subseteq received \cup LinesOf(Carried) /\ wire' \subseteq wire \cup {Carried}
      BY <1>4 DEF AttemptOk, AttemptFails, Fresh, queueVars, histVars
    <2>2. Carried \in Batches /\ Written(Carried) /\ LinesOf(Carried) \subseteq Lines
      BY CarriedFacts
    <2>3. received' \subseteq Lines /\ \A b \in wire' : b \in Batches /\ Written(b)
      BY <1>0, <2>1, <2>2 DEF OtherTypes
    <2>4. OtherTypes'
      BY <1>0, <2>1, <2>3, OtherFrame DEF OtherTypes, sourceVars
    <2>5. TaskTypes'
      <3>1. CASE Accepted
        BY <1>c, <2>1, <3>1 DEF sourceVars
      <3>2. CASE ~Accepted
        <4>1. UNCHANGED <<turn, hand, drained>> /\ pc' \in {pc, "ack", "append"} /\ attempt' \in 0..Retries
          BY <1>0, <1>4, <3>2 DEF AttemptOk, AttemptFails, LastAttempt, TaskTypes
        <4> QED BY <1>0, <2>1, <4>1, TaskFrame DEF sourceVars, TaskTypes
      <3> QED BY <3>1, <3>2
    <2> QED BY <1>0, <2>1, <2>4, <2>5, SourceFrame, EntryFrame DEF sourceVars
  <1>5. CASE Ack
    <2>1. UNCHANGED <<sourceVars, mode, envVars, histVars>> /\ AckHead /\ DrainOn(drained + 1)
      BY <1>5 DEF Ack
    <2>2. EntryTypes'
      BY <2>1, AckFacts, QueueTypes, EntryFresh DEF sourceVars
    <2>3. TaskTypes'
      <3>1. CASE Accepted
        BY <1>c, <2>1, <3>1 DEF sourceVars
      <3>2. CASE ~Accepted
        <4>1. pc' = "attempt" /\ attempt' = 0 /\ drained' = drained + 1 /\ drained + 1 < MaxDrain
              /\ UNCHANGED <<turn, hand>>
          BY <2>1, <3>2 DEF DrainOn
        <4>2. drained' \in 0..MaxDrain
          BY <1>0, <4>1 DEF TaskTypes
        <4> QED BY <1>0, <1>a, <2>1, <4>1, <4>2, TaskFrame DEF sourceVars, TaskTypes
      <3> QED BY <3>1, <3>2
    <2> QED BY <1>0, <2>1, <2>2, <2>3, SourceFrame, OtherSame DEF sourceVars
  <1>6. CASE AckFails
    <2>1. UNCHANGED <<sourceVars, mode, envVars, histVars>> /\ Accepted
          /\ queue' = [i \in DOMAIN queue |->
                          IF i = HeadAt THEN Entry(queue[i].batch, "dead") ELSE queue[i]]
      BY <1>6 DEF AckFails
    <2>2. \A i \in DOMAIN queue : \E state \in {"live", "dead"} : queue'[i] = Entry(queue[i].batch, state)
      <3> SUFFICES ASSUME NEW i \in DOMAIN queue
                   PROVE  \E state \in {"live", "dead"} : queue'[i] = Entry(queue[i].batch, state)
        OBVIOUS
      <3>1. queue[i] \in Entries
        BY <1>0 DEF EntryTypes
      <3>2. queue[i].state \in {"live", "dead"} /\ queue[i] = Entry(queue[i].batch, queue[i].state)
        BY <3>1 DEF Entries, Entry
      <3> QED BY <2>1, <3>2
    <2>3. DOMAIN queue = 1..Len(queue) /\ Len(queue) \in Nat
      BY <1>0 DEF EntryTypes
    <2>4. DOMAIN queue' = DOMAIN queue /\ queue' \in Seq({queue'[i] : i \in DOMAIN queue'})
      BY <2>1, <2>3
    <2>5. EntryTypes'
      BY <1>0, <2>1, <2>2, <2>4, MarkTypes, EntryFresh DEF sourceVars
    <2>6. TaskTypes'
      BY <1>c, <2>1 DEF sourceVars
    <2> QED BY <1>0, <2>1, <2>5, <2>6, SourceFrame, OtherSame DEF sourceVars
  <1>7. CASE Persist
    <2>1. UNCHANGED <<written, follower, position, mode, queue, envVars, histVars>> /\ GoOn
      BY <1>7 DEF Persist, queueVars
    <2>2. checkpoint' \in [Sources -> Nat] /\ \A s \in Sources : checkpoint'[s] <= written[s]
      BY <1>0, <1>7 DEF Persist, SourceTypes, TaskTypes, Batches, Written
    <2>3. SourceTypes'
      BY <1>0, <2>1, <2>2 DEF SourceTypes, MaxLines
    <2> QED BY <1>0, <1>c, <2>1, <2>3, EntryFrame, OtherSame
  <1>8. CASE Tick
    <2>1. UNCHANGED <<written, checkpoint, mode, hand, attempt, drained, queue, envVars,
                      faults, restarts, goal, received, evicted>> /\ StartPolling
      BY <1>8 DEF Tick, queueVars
    <2>2. /\ position' \in 0..written[Journal]
          /\ follower' \in {"none", "suspect", "unproven", "proven"}
          /\ dropped' \subseteq {Journal} \X (1..written[Journal])
      <3>1. written[Journal] \in Nat /\ checkpoint[Journal] \in 0..written[Journal]
            /\ position \in 0..written[Journal]
        BY <1>0, <1>a DEF SourceTypes
      <3>2. CASE SpawnFollower
        BY <1>0, <3>1, <3>2 DEF SpawnFollower, SourceTypes, OtherTypes
      <3>3. CASE KeepFollower
        BY <1>0, <3>3 DEF KeepFollower, SourceTypes, OtherTypes
      <3> QED BY <1>8, <3>2, <3>3 DEF Tick
    <2>3. SourceTypes'
      BY <1>0, <2>1, <2>2 DEF SourceTypes, MaxLines
    <2>4. OtherTypes'
      BY <1>0, <2>1, <2>2, OtherFrame DEF OtherTypes, envVars
    <2>5. TaskTypes'
      BY <1>0, <1>a, <2>1, TaskFrame DEF StartPolling, TaskTypes
    <2> QED BY <1>0, <2>1, <2>3, <2>4, <2>5, EntryFrame
  <1>9. CASE JournalRecord \/ Chatter
    <2>1. /\ hand' = Nothing \/ (hand' = Batch(Journal, position', position') /\ position' = position + 1)
          /\ position' = position \/ (position' = position + 1 /\ position < written[Journal])
          /\ attempt' = 0 /\ drained' = 0 /\ pc' \in {"append", "attempt"} /\ follower' = "proven"
          /\ UNCHANGED <<written, checkpoint, mode, turn, queue, envVars, histVars>>
      BY <1>9 DEF JournalRecord, Chatter, Export, queueVars
    <2>2. position' \in 0..written[Journal] /\ position \in Nat
      BY <1>0, <1>a, <2>1 DEF SourceTypes
    <2>3. hand' \in Batches /\ hand'.to <= written[hand'.src]
      BY <1>a, <1>b, <2>1, <2>2 DEF Batch, Batches
    <2>4. TaskTypes'
      BY <1>0, <1>a, <2>1, <2>3, TaskFresh DEF TaskTypes
    <2>5. SourceTypes'
      BY <1>0, <2>1, <2>2 DEF SourceTypes, MaxLines
    <2> QED BY <1>0, <2>1, <2>4, <2>5, EntryFrame, OtherSame
  <1>10. CASE FollowerDies
    <2>1. follower' \in {"suspect", "none"} /\ position' = 0
          /\ UNCHANGED <<written, checkpoint, taskVars, queue, envVars, histVars>>
      BY <1>10 DEF FollowerDies, queueVars
    <2>2. SourceTypes'
      BY <1>0, <1>a, <2>1 DEF SourceTypes, MaxLines
    <2>3. TaskTypes'
      BY <1>0, <2>1, TaskFrame DEF TaskTypes, taskVars
    <2> QED BY <1>0, <2>1, <2>2, <2>3, EntryFrame, OtherSame
  <1>11. CASE Restart
    <2>1. /\ queue' = [i \in DOMAIN queue |-> Entry(queue[i].batch, "live")]
          /\ UNCHANGED <<written, checkpoint, envVars, faults, received, evicted, dropped>>
          /\ follower' = "none" /\ position' = 0 /\ hand' = Nothing /\ attempt' = 0
          /\ drained' = 0 /\ mode' \in {"loop", "once"}
          /\ pc' \in {"select", "done", "poll"} /\ turn' \in Sources
      BY <1>a, <1>11 DEF Restart
    <2>2. restarts' \in 0..MaxRestarts
      BY <1>0, <1>11 DEF Restart, OtherTypes
    <2>3. DOMAIN queue = 1..Len(queue) /\ Len(queue) \in Nat
      BY <1>0 DEF EntryTypes
    <2>4. DOMAIN queue' = DOMAIN queue /\ queue' \in Seq({queue'[i] : i \in DOMAIN queue'})
          /\ \A i \in DOMAIN queue : queue'[i] = Entry(queue[i].batch, "live")
      BY <2>1, <2>3
    <2>5. EntryTypes'
      BY <1>0, <2>1, <2>4, MarkTypes, EntryFresh
    <2>6. goal' \in [Sources -> Nat]
      <3>1. PassGoal \in [Sources -> Nat]
        BY PollEndFacts DEF PassGoal
      <3>2. [s \in Sources |-> 0] \in [Sources -> Nat]
        OBVIOUS
      <3> QED BY <1>11, <3>1, <3>2 DEF Restart
    <2>7. SourceTypes'
      BY <1>0, <1>a, <2>1 DEF SourceTypes, MaxLines
    <2>8. TaskTypes'
      BY <1>a, <1>b, <2>1 DEF TaskTypes, Written
    <2>9. OtherTypes'
      <3>1. Lines' = Lines
        BY <2>1 DEF Lines
      <3>2. \A b \in wire' : b \in Batches /\ Written(b)'
        BY <1>0, <2>1 DEF OtherTypes, Written, envVars
      <3> QED BY <1>0, <2>1, <2>2, <2>6, <3>1, <3>2 DEF OtherTypes, envVars
    <2> QED BY <2>5, <2>7, <2>8, <2>9
  <1>12. CASE ArriveLate
    <2>1. PICK b \in wire : received' = received \cup LinesOf(b) /\ wire' \subseteq wire
      BY <1>12 DEF ArriveLate, Fresh
    <2>2. UNCHANGED <<sourceVars, taskVars, queue, weather, faults, restarts, goal, evicted, dropped>>
      BY <1>12 DEF ArriveLate, queueVars
    <2>3. received' \subseteq Lines /\ \A c \in wire' : c \in Batches /\ Written(c)
      BY <1>0, <2>1, BatchLines DEF OtherTypes
    <2>4. OtherTypes'
      BY <1>0, <2>2, <2>3, OtherFrame DEF OtherTypes, sourceVars
    <2>5. TaskTypes'
      BY <1>0, <2>2, TaskFrame DEF TaskTypes, taskVars, sourceVars
    <2> QED BY <1>0, <2>2, <2>4, <2>5, SourceFrame, EntryFrame DEF sourceVars
  <1>13. CASE Weather
    <2>1. /\ weather' = "calm" /\ faults' = MaxFaults /\ restarts' = MaxRestarts
          /\ UNCHANGED <<sourceVars, taskVars, queue, wire, goal, received, evicted, dropped>>
      BY <1>13 DEF Weather, queueVars
    <2>2. TaskTypes'
      BY <1>0, <2>1, TaskFrame DEF TaskTypes, taskVars, sourceVars
    <2>3. Lines' = Lines /\ \A b \in wire' : b \in Batches /\ Written(b)'
      BY <1>0, <2>1 DEF Lines, sourceVars, OtherTypes, Written
    <2>4. OtherTypes'
      BY <1>0, <2>1, <2>3 DEF OtherTypes, sourceVars
    <2> QED BY <1>0, <2>1, <2>2, <2>4, SourceFrame, EntryFrame DEF sourceVars
  <1>14. ASSUME NEW s \in Sources, Write(s)
         PROVE  SourceTypes' /\ TaskTypes' /\ EntryTypes' /\ OtherTypes'
    <2>1. written' = [written EXCEPT ![s] = @ + 1] /\ written[s] < MaxLines(s)
          /\ UNCHANGED <<checkpoint, follower, position, taskVars, queue, envVars, histVars>>
      BY <1>14 DEF Write, queueVars
    <2>2. \A r \in Sources : /\ written[r] \in Nat /\ written'[r] \in Nat
                             /\ written[r] <= written'[r] /\ written'[r] <= MaxLines(r)
      <3>1. written[s] \in Nat /\ MaxLines(s) \in Nat
        BY <1>0 DEF SourceTypes, MaxLines
      <3>2. \A r \in Sources : written[r] \in Nat /\ written[r] <= MaxLines(r)
        BY <1>0 DEF SourceTypes
      <3>3. \A r \in Sources : written'[r] = IF r = s THEN written[r] + 1 ELSE written[r]
        BY <1>0, <2>1 DEF SourceTypes
      <3> QED BY <2>1, <3>1, <3>2, <3>3
    <2>3. SourceTypes'
      <3>1. written' \in [Sources -> Nat]
        BY <1>0, <2>1, <2>2 DEF SourceTypes
      <3>2. \A r \in Sources : checkpoint[r] <= written'[r] /\ written'[r] <= MaxLines(r)
        BY <1>0, <2>2 DEF SourceTypes
      <3>3. position \in 0..written'[Journal]
        BY <1>0, <1>a, <2>2 DEF SourceTypes
      <3> QED BY <1>0, <2>1, <3>1, <3>2, <3>3 DEF SourceTypes, MaxLines
    <2>4. \A b \in Batches : b.to <= written[b.src] => b.to <= written'[b.src]
      <3> SUFFICES ASSUME NEW b \in Batches, b.to <= written[b.src] PROVE b.to <= written'[b.src]
        OBVIOUS
      <3>1. b.src \in Sources /\ b.to \in Nat
        BY DEF Batches
      <3> QED BY <2>2, <3>1
    <2>5. TaskTypes'
      BY <1>0, <2>1, <2>4 DEF TaskTypes, taskVars, Written
    <2>6. EntryTypes'
      <3>1. \A i \in DOMAIN queue : queue[i].batch \in Batches
        <4> SUFFICES ASSUME NEW i \in DOMAIN queue PROVE queue[i].batch \in Batches
          OBVIOUS
        <4>1. queue[i] \in Entries
          BY <1>0 DEF EntryTypes
        <4> QED BY <4>1 DEF Entries
      <3> QED BY <1>0, <2>1, <2>4, <3>1 DEF EntryTypes, Written
    <2>7. OtherTypes'
      <3>1. Lines \subseteq Lines'
        <4> SUFFICES ASSUME NEW r \in Sources, NEW l \in 1..written[r] PROVE l \in 1..written'[r]
          BY DEF Lines
        <4> QED BY <2>2
      <3>2. {Journal} \X (1..written[Journal]) \subseteq {Journal} \X (1..written'[Journal])
        BY <1>a, <2>2
      <3>3. \A b \in wire : b \in Batches /\ Written(b)'
        BY <1>0, <2>4 DEF OtherTypes, Written
      <3> QED BY <1>0, <2>1, <3>1, <3>2, <3>3 DEF OtherTypes, envVars, histVars
    <2> QED BY <2>3, <2>5, <2>6, <2>7
  <1>15. CASE UNCHANGED vars
    <2>1. UNCHANGED <<sourceVars, taskVars, queue, envVars, histVars>>
      BY <1>15 DEF vars, queueVars
    <2>2. TaskTypes'
      BY <1>0, <2>1, TaskFrame DEF TaskTypes, taskVars, sourceVars
    <2> QED BY <1>0, <2>1, <2>2, SourceFrame, EntryFrame, OtherSame DEF sourceVars
  <1> QED BY <1>1, <1>2, <1>3, <1>4, <1>5, <1>6, <1>7, <1>8, <1>9, <1>10, <1>11, <1>12,
            <1>13, <1>14, <1>15 DEF Next, Progress

LEMMA TypeInit == Init => TypeOK
  BY NothingFacts, BoundsAssumption
  DEF Init, TypeOK, Journal, Sources, MaxLines, Entries, Written, Nothing, Batch

\* The state of log collection stays well typed: no checkpoint, batch, queued
\* entry or late request names a line that was not written, and only lines of
\* the journal are dropped (logs.rs).
THEOREM LogsTypeCorrect == Spec => []TypeOK
  BY TypeInit, TypeStep, PTL DEF Spec
-----------------------------------------------------------------------------
(* The queue and what is held *)

LEMMA InOrderAppend ==
    ASSUME NEW q \in Seq(Entries), NEW e \in Entries, NEW S, InOrder(q, S),
           Below(e.batch.src, e.batch.from) \subseteq S \cup Queued(q)
    PROVE  InOrder(Append(q, e), S)
  <1> DEFINE r == Append(q, e)
  <1>1. /\ DOMAIN r = 1..(Len(q) + 1) /\ \A i \in 1..Len(q) : r[i] = q[i]
        /\ r[Len(q) + 1] = e
        /\ \A n \in 1..(Len(q) + 1) : QueuedBefore(q, n) \subseteq QueuedBefore(r, n)
        /\ Queued(q) \subseteq QueuedBefore(r, Len(q) + 1)
    BY AppendFacts
  <1>2. DOMAIN q = 1..Len(q) /\ Len(q) \in Nat
    OBVIOUS
  <1> HIDE DEF r
  <1> SUFFICES ASSUME NEW i \in 1..(Len(q) + 1)
               PROVE  Below(r[i].batch.src, r[i].batch.from) \subseteq S \cup QueuedBefore(r, i)
    BY <1>1 DEF InOrder, r
  <1>3. CASE i \in 1..Len(q)
    <2>1. Below(q[i].batch.src, q[i].batch.from) \subseteq S \cup QueuedBefore(q, i)
      BY <1>2, <1>3 DEF InOrder
    <2>2. r[i] = q[i] /\ QueuedBefore(q, i) \subseteq QueuedBefore(r, i)
      BY <1>1, <1>3
    <2> QED BY <2>1, <2>2
  <1>4. CASE i = Len(q) + 1
    BY <1>1, <1>4
  <1> QED BY <1>2, <1>3, <1>4

LEMMA InOrderWithout ==
    ASSUME queue \in Seq(Entries), NEW k \in 0..Len(queue), NEW S, InOrder(queue, S),
           QueuedBefore(queue, k + 1) \subseteq S
    PROVE  InOrder(Without(k), S)
  <1>1. /\ Len(Without(k)) = Len(queue) - k /\ Without(k) \in Seq(Entries)
        /\ \A i \in 1..(Len(queue) - k) : Without(k)[i] = queue[i + k]
        /\ \A i \in 1..(Len(queue) - k) :
              QueuedBefore(queue, i + k)
                  \subseteq QueuedBefore(queue, k + 1) \cup QueuedBefore(Without(k), i)
    BY WithoutFacts
  <1>2. DOMAIN Without(k) = 1..(Len(queue) - k) /\ DOMAIN queue = 1..Len(queue) /\ Len(queue) \in Nat
    BY <1>1
  <1> SUFFICES ASSUME NEW i \in 1..(Len(queue) - k)
               PROVE  Below(Without(k)[i].batch.src, Without(k)[i].batch.from)
                          \subseteq S \cup QueuedBefore(Without(k), i)
    BY <1>2 DEF InOrder
  <1>3. i + k \in DOMAIN queue
    BY <1>2
  <1>4. Below(queue[i + k].batch.src, queue[i + k].batch.from) \subseteq S \cup QueuedBefore(queue, i + k)
    BY <1>3 DEF InOrder
  <1> QED BY <1>1, <1>4

\* The same batches, where what is no longer live is settled.
LEMMA InOrderMarked ==
    ASSUME NEW q, NEW r, NEW S, InOrder(q, S), DOMAIN r = DOMAIN q,
           \A i \in DOMAIN q : r[i].batch = q[i].batch,
           \A i \in LiveAt(q) : i \in LiveAt(r) \/ LinesOf(q[i].batch) \subseteq S
    PROVE  InOrder(r, S) /\ Queued(q) \subseteq S \cup Queued(r)
  <1>1. \A i \in LiveAt(q) : r[i].batch = q[i].batch
    BY DEF LiveAt
  <1>2. \A n : QueuedBefore(q, n) \subseteq S \cup QueuedBefore(r, n)
    BY <1>1 DEF QueuedBefore
  <1>3. Queued(q) \subseteq S \cup Queued(r)
    BY <1>1 DEF Queued
  <1>4. \A i \in DOMAIN q : Below(q[i].batch.src, q[i].batch.from) \subseteq S \cup QueuedBefore(q, i)
    BY DEF InOrder
  <1> QED BY <1>2, <1>3, <1>4 DEF InOrder

\* What precedes the batch in hand is held.
LEMMA HandBelow ==
    ASSUME TypeOK, HandInv, JournalInv, CheckpointCovered
    PROVE  Below(hand.src, hand.from) \subseteq Held
  <1> USE BoundsAssumption
  <1>1. CASE hand = Nothing
    BY <1>1, NothingFacts
  <1>2. CASE hand # Nothing /\ turn # Journal
    BY <1>2 DEF HandInv, CheckpointCovered, TypeOK
  <1>3. CASE hand # Nothing /\ turn = Journal
    <2>1. hand.src = Journal /\ hand.from = position /\ hand.to = position /\ follower = "proven"
      BY <1>3 DEF HandInv
    <2>2. Below(Journal, position + 1) \subseteq Held \cup LinesOf(hand)
      BY <2>1 DEF JournalInv
    <2>3. \A x \in Below(Journal, position) :
              x \in Below(Journal, position + 1) /\ x \notin LinesOf(hand)
      BY <2>1 DEF Below, LinesOf, TypeOK, Journal
    <2> QED BY <2>1, <2>2, <2>3
  <1> QED BY <1>1, <1>2, <1>3

\* Nothing settled is unsettled, nothing held is lost, and the queue stays in
\* order, whatever step is taken.
LEMMA QueueStep ==
    ASSUME IInv, [Next]_vars
    PROVE  /\ received \subseteq received' /\ Settled \subseteq Settled' /\ Held \subseteq Held'
           /\ QueueInv'
  <1>0. TypeOK /\ queue \in Seq(Entries) /\ DOMAIN queue = 1..Len(queue) /\ Len(queue) \in Nat
        /\ InOrder(queue, Settled) /\ hand \in Batches
    BY DEF IInv, TypeOK, QueueInv
  <1>1. \A S, T : S \subseteq T /\ InOrder(queue, S) => InOrder(queue, T)
    BY DEF InOrder
  <1>2. Below(hand.src, hand.from) \subseteq Settled \cup Queued(queue)
    BY HandBelow DEF IInv, Held
  <1>3. \A state \in {"live", "dead"} :
            /\ Entry(hand, state) \in Entries /\ Entry(hand, state).batch = hand
            /\ Entry(hand, state).state = state
    BY <1>0 DEF Entry, Entries
  <1>4. CASE UNCHANGED queue /\ received \subseteq received' /\ evicted \subseteq evicted'
             /\ dropped \subseteq dropped'
    <2>1. Settled \subseteq Settled'
      BY <1>4 DEF Settled
    <2> QED BY <1>0, <1>1, <1>4, <2>1 DEF Held, QueueInv
  <1>5. CASE AppendBatch
    <2>1. received' = received /\ dropped \subseteq dropped' /\ (Store(hand) \/ StoreFails(hand))
      BY <1>5 DEF AppendBatch, Refused
    <2>2. CASE Store(hand)
      <3>1. PICK k \in 0..Len(queue) :
                /\ queue' = Append(Without(k), Entry(hand, "live"))
                /\ evicted' = evicted \cup QueuedBefore(queue, k + 1)
        BY <2>2 DEF Store
      <3>2. Settled \subseteq Settled' /\ QueuedBefore(queue, k + 1) \subseteq Settled'
        BY <2>1, <3>1 DEF Settled
      <3>3. Without(k) \in Seq(Entries)
            /\ Queued(queue) \subseteq QueuedBefore(queue, k + 1) \cup Queued(Without(k))
        BY <1>0, WithoutFacts
      <3>4. InOrder(Without(k), Settled')
        BY <1>0, <1>1, <3>2, InOrderWithout
      <3>5. InOrder(queue', Settled')
        BY <1>2, <1>3, <3>1, <3>2, <3>3, <3>4, InOrderAppend
      <3>6. Queued(Without(k)) \subseteq Queued(queue')
        BY <1>3, <3>1, <3>3, AppendFacts
      <3> QED BY <2>1, <3>2, <3>3, <3>5, <3>6 DEF Held, QueueInv
    <2>3. CASE StoreFails(hand) /\ ~UNCHANGED queue
      <3>1. PICK state \in {"live", "dead"} : queue' = Append(queue, Entry(hand, state))
        BY <2>3 DEF StoreFails, queueVars
      <3>2. Settled \subseteq Settled'
        BY <2>1, <2>3 DEF Settled, StoreFails
      <3>3. InOrder(queue', Settled')
        BY <1>0, <1>1, <1>2, <1>3, <3>1, <3>2, InOrderAppend
      <3>4. Queued(queue) \subseteq Queued(queue')
        BY <1>0, <1>3, <3>1, AppendFacts
      <3> QED BY <2>1, <3>2, <3>3, <3>4 DEF Held, QueueInv
    <2>4. CASE StoreFails(hand) /\ UNCHANGED queue
      BY <1>4, <2>1, <2>4 DEF StoreFails
    <2> QED BY <2>1, <2>2, <2>3, <2>4
  <1>6. CASE Ack
    <2>1. Backlog /\ LinesOf(queue[HeadAt].batch) \subseteq received
      BY <1>6 DEF Ack, IInv, HandInv
    <2>2. UNCHANGED <<received, evicted, dropped>> /\ Settled' = Settled
      BY <1>6 DEF Ack, histVars, Settled
    <2>3. PICK k \in 0..Len(queue) :
              queue' = Without(k) /\ \A i \in LiveAt(queue) : i <= k => i = HeadAt
      BY <1>0, <1>6, AckFacts DEF Ack
    <2>4. QueuedBefore(queue, k + 1) \subseteq Settled
      <3>1. \A i \in LiveAt(queue) : i < k + 1 => i = HeadAt
        BY <1>0, <2>3 DEF LiveAt
      <3> QED BY <2>1, <3>1 DEF QueuedBefore, Settled
    <2>5. InOrder(queue', Settled)
      BY <1>0, <2>3, <2>4, InOrderWithout
    <2>6. Queued(queue) \subseteq Settled \cup Queued(queue')
      BY <1>0, <2>3, <2>4, WithoutFacts
    <2> QED BY <2>2, <2>5, <2>6 DEF Held, QueueInv
  <1>7. CASE AckFails
    <2>1. Backlog /\ LinesOf(queue[HeadAt].batch) \subseteq received
      BY <1>7 DEF AckFails, IInv, HandInv
    <2>2. UNCHANGED <<received, evicted, dropped>> /\ Settled' = Settled
      BY <1>7 DEF AckFails, histVars, Settled
    <2>3. queue' = [i \in DOMAIN queue |->
                       IF i = HeadAt THEN Entry(queue[i].batch, "dead") ELSE queue[i]]
      BY <1>7 DEF AckFails
    <2>4. DOMAIN queue' = DOMAIN queue /\ \A i \in DOMAIN queue : queue'[i].batch = queue[i].batch
      BY <2>3 DEF Entry
    <2>5. \A i \in LiveAt(queue) : i \in LiveAt(queue') \/ LinesOf(queue[i].batch) \subseteq Settled
      BY <2>1, <2>3 DEF LiveAt, Settled
    <2>6. InOrder(queue', Settled) /\ Queued(queue) \subseteq Settled \cup Queued(queue')
      BY <1>0, <2>4, <2>5, InOrderMarked
    <2> QED BY <2>2, <2>6 DEF Held, QueueInv
  <1>8. CASE Restart
    <2>1. UNCHANGED <<received, evicted, dropped>> /\ Settled' = Settled
      BY <1>8 DEF Restart, Settled
    <2>2. queue' = [i \in DOMAIN queue |-> Entry(queue[i].batch, "live")]
      BY <1>8 DEF Restart
    <2>3. DOMAIN queue' = DOMAIN queue /\ \A i \in DOMAIN queue : queue'[i].batch = queue[i].batch
      BY <2>2 DEF Entry
    <2>4. \A i \in LiveAt(queue) : i \in LiveAt(queue')
      BY <2>2 DEF LiveAt, Entry
    <2>5. InOrder(queue', Settled) /\ Queued(queue) \subseteq Settled \cup Queued(queue')
      BY <1>0, <2>3, <2>4, InOrderMarked
    <2> QED BY <2>1, <2>5 DEF Held, QueueInv
  <1>9. CASE PollFile \/ PollEmpty \/ PollFails \/ AttemptOk \/ AttemptFails
             \/ Persist \/ PersistFails \/ JournalRecord \/ Chatter
    BY <1>4, <1>9 DEF PollFile, PollEmpty, PollFails, AttemptOk, AttemptFails, Persist,
                      PersistFails, JournalRecord, Chatter, queueVars, histVars
  <1>10. CASE Tick \/ FollowerDies \/ ArriveLate \/ Weather \/ (\E s \in Sources : Write(s))
              \/ UNCHANGED vars
    BY <1>4, <1>10 DEF Tick, SpawnFollower, KeepFollower, FollowerDies, ArriveLate, Weather,
                       Write, vars, queueVars, histVars
  <1> QED BY <1>5, <1>6, <1>7, <1>8, <1>9, <1>10 DEF Next, Progress

\* Where the task looks for work it holds no batch; GoOn and GiveUp leave none.
LEMMA HandEmpty ==
    ASSUME HandInv, pc \in {"select", "poll", "done", "failed"}
    PROVE  hand = Nothing /\ LinesOf(hand) = {}
  BY NothingFacts DEF HandInv

\* What precedes the batch of an attempt is settled: older entries of the queue
\* went first, and a fresh batch is sent only when there are none.
LEMMA CarriedBelow ==
    ASSUME IInv
    PROVE  Below(Carried.src, Carried.from) \subseteq Settled
  <1>1. CASE Backlog
    <2>1. queue \in Seq(Entries) /\ LiveAt(queue) # {}
      BY <1>1 DEF IInv, TypeOK, Backlog
    <2>2. HeadAt \in LiveAt(queue) /\ \A i \in LiveAt(queue) : HeadAt <= i
      BY <2>1, HeadFacts DEF HeadAt
    <2>3. HeadAt \in Nat /\ LiveAt(queue) \subseteq Nat /\ HeadAt \in DOMAIN queue
      BY <2>1, <2>2 DEF LiveAt
    <2>4. QueuedBefore(queue, HeadAt) = {}
      <3>1. \A i \in LiveAt(queue) : ~(i < HeadAt)
        BY <2>2, <2>3
      <3> QED BY <3>1 DEF QueuedBefore
    <2> QED BY <1>1, <2>3, <2>4 DEF Carried, IInv, QueueInv, InOrder
  <1>2. CASE ~Backlog
    <2>1. Queued(queue) = {}
      BY <1>2 DEF Backlog, Queued
    <2> QED BY <1>2, <2>1, HandBelow DEF IInv, Carried, Held
  <1> QED BY <1>1, <1>2

\* Only persist_checkpoint moves a checkpoint, past a batch that is held.
LEMMA CheckpointStep == IInv /\ [Next]_vars => CheckpointCovered'
  <1> SUFFICES ASSUME IInv, [Next]_vars PROVE CheckpointCovered'
    OBVIOUS
  <1>1. Held \subseteq Held' /\ CheckpointCovered /\ TypeOK
    BY QueueStep DEF IInv
  <1>2. CASE UNCHANGED checkpoint
    BY <1>1, <1>2 DEF CheckpointCovered
  <1>3. CASE Persist /\ hand # Nothing
    <2>1. checkpoint' = [checkpoint EXCEPT ![hand.src] = hand.to] /\ pc = "persist"
      BY <1>3 DEF Persist
    <2>2. hand \in Batches /\ checkpoint \in [Sources -> Nat]
      BY <1>1 DEF TypeOK
    <2>3. hand.src \in Sources /\ hand.to \in Nat
      BY <2>2 DEF Batches
    <2>4. LinesOf(hand) \subseteq Held /\ Below(hand.src, hand.from) \subseteq Held
      BY <2>1, HandBelow DEF IInv, HandInv
    <2>5. Below(hand.src, hand.to + 1) \subseteq Held
      BY <2>2, <2>3, <2>4, BelowSplit
    <2>6. \A s \in Sources : Below(s, checkpoint'[s] + 1) \subseteq Held
      <3> SUFFICES ASSUME NEW s \in Sources PROVE Below(s, checkpoint'[s] + 1) \subseteq Held
        OBVIOUS
      <3>1. CASE s = hand.src
        BY <2>1, <2>2, <2>5, <3>1
      <3>2. CASE s # hand.src
        BY <1>1, <2>1, <2>2, <3>2 DEF CheckpointCovered
      <3> QED BY <3>1, <3>2
    <2> QED BY <1>1, <2>6 DEF CheckpointCovered
  <1>4. CASE ~Persist \/ hand = Nothing
    BY <1>2, <1>4 DEF Next, Progress, PollFile, PollEmpty, PollFails, AppendBatch, AttemptOk,
        AttemptFails, Ack, AckFails, Persist, PersistFails, Tick, JournalRecord, Chatter,
        FollowerDies, Restart, ArriveLate, Weather, Write, vars, sourceVars
  <1> QED BY <1>3, <1>4

\* What journalctl reads goes through export_records, or is dropped by name.
LEMMA JournalStep == IInv /\ [Next]_vars => JournalInv'
  <1> SUFFICES ASSUME IInv, [Next]_vars PROVE JournalInv'
    OBVIOUS
  <1>1. Held \subseteq Held' /\ Settled \subseteq Settled' /\ TypeOK /\ HandInv /\ JournalInv
        /\ CheckpointCovered
    BY QueueStep DEF IInv
  <1>2. CASE UNCHANGED <<follower, position, hand>>
    BY <1>1, <1>2 DEF JournalInv
  \* A batch that is put down was held, or holds no line of the journal.
  <1>3. CASE UNCHANGED <<follower, position>>
             /\ \A x \in LinesOf(hand) : x \in Held' \/ x[1] # Journal
    <2>1. \A x \in Below(Journal, position + 1) : x[1] = Journal
      BY DEF Below
    <2> QED BY <1>1, <1>3, <2>1 DEF JournalInv
  <1>4. CASE PollFile \/ PollEmpty \/ PollFails \/ Chatter
    <2>1. pc \in {"poll", "select"} /\ UNCHANGED position
      BY <1>4 DEF PollFile, PollEmpty, PollFails, Chatter, sourceVars
    <2>2. LinesOf(hand) = {}
      BY <1>1, <2>1, HandEmpty
    <2>3. follower' \in {"unproven", "proven"} => follower \in {"unproven", "proven"}
      BY <1>4 DEF PollFile, PollEmpty, PollFails, Chatter, sourceVars
    <2> QED BY <1>1, <2>1, <2>2, <2>3 DEF JournalInv
  <1>5. CASE AppendBatch
    <2>1. UNCHANGED <<follower, position>>
      BY <1>5 DEF AppendBatch, sourceVars
    <2>2. CASE Refused
      <3>1. hand.src = Journal => LinesOf(hand) \subseteq Held'
        BY <2>2 DEF Refused, Held, Settled
      <3> QED BY <1>3, <2>1, <3>1 DEF LinesOf
    <2>3. CASE ~Refused
      BY <1>2, <1>5, <2>1, <2>3 DEF AppendBatch, DrainOn, Accepted
    <2> QED BY <2>2, <2>3
  <1>6. CASE AttemptOk \/ AttemptFails \/ Ack \/ AckFails
    BY <1>2, <1>6 DEF AttemptOk, AttemptFails, LastAttempt, Ack, AckFails, DrainOn, Accepted, sourceVars
  <1>7. CASE Persist \/ PersistFails
    <2>1. LinesOf(hand) \subseteq Held /\ UNCHANGED <<follower, position>>
      BY <1>1, <1>7 DEF Persist, PersistFails, HandInv, sourceVars
    <2> QED BY <1>1, <1>3, <2>1
  <1>8. CASE Tick
    <2>1. UNCHANGED hand
      BY <1>8 DEF Tick
    <2>2. CASE KeepFollower
      BY <1>2, <2>1, <2>2 DEF KeepFollower
    <2>3. CASE SpawnFollower
      <3>0. Journal \in Sources /\ checkpoint[Journal] \in Nat /\ written[Journal] \in Nat
        BY <1>1, BoundsAssumption DEF TypeOK, Journal, Sources
      <3>1. Below(Journal, checkpoint[Journal] + 1) \subseteq Held
        BY <1>1, <3>0 DEF CheckpointCovered
      <3>2. CASE follower = "suspect" \/ checkpoint[Journal] = 0
        <4>1. position' = written[Journal] /\ dropped' = dropped \cup
                ({Journal} \X ((checkpoint[Journal] + 1)..written[Journal]) \ Queued(queue))
          BY <2>3, <3>2 DEF SpawnFollower
        <4>2. {Journal} \X ((checkpoint[Journal] + 1)..written[Journal]) \subseteq Held'
          <5>1. dropped' \subseteq Held'
            BY DEF Held, Settled
          <5>2. Queued(queue) \subseteq Held'
            BY <1>1 DEF Held
          <5> QED BY <4>1, <5>1, <5>2
        <4>3. Below(Journal, written[Journal] + 1) \subseteq Below(Journal, checkpoint[Journal] + 1)
                  \cup {Journal} \X ((checkpoint[Journal] + 1)..written[Journal])
          BY <3>0 DEF Below
        <4> QED BY <1>1, <3>1, <4>1, <4>2, <4>3 DEF JournalInv
      <3>3. CASE ~(follower = "suspect" \/ checkpoint[Journal] = 0)
        <4>1. position' = checkpoint[Journal]
          BY <2>3, <3>3 DEF SpawnFollower
        <4> QED BY <1>1, <3>1, <4>1 DEF JournalInv
      <3> QED BY <3>2, <3>3
    <2> QED BY <1>8, <2>2, <2>3 DEF Tick
  <1>9. CASE JournalRecord
    <2>1. LinesOf(hand) = {} /\ follower \in {"unproven", "proven"} /\ position' = position + 1
          /\ hand' = Batch(Journal, position', position')
      BY <1>1, <1>9, HandEmpty DEF JournalRecord, Export
    <2>2. LinesOf(hand)' = {Journal} \X (position'..position')
      BY <2>1 DEF LinesOf, Batch
    <2>3. Below(Journal, position' + 1) \subseteq Below(Journal, position + 1) \cup LinesOf(hand)'
      BY <1>1, <2>1, <2>2 DEF Below, TypeOK
    <2> QED BY <1>1, <2>1, <2>3 DEF JournalInv
  <1>10. CASE FollowerDies \/ Restart
    BY <1>10 DEF FollowerDies, Restart, JournalInv
  <1>11. CASE ArriveLate \/ Weather \/ (\E s \in Sources : Write(s)) \/ UNCHANGED vars
    BY <1>2, <1>11 DEF ArriveLate, Weather, Write, vars, sourceVars, taskVars
  <1> QED BY <1>4, <1>5, <1>6, <1>7, <1>8, <1>9, <1>10, <1>11 DEF Next, Progress

\* An abandoned request carried the head or a fresh batch.
LEMMA WireStep == IInv /\ [Next]_vars => WireInv'
  <1> SUFFICES ASSUME IInv, [Next]_vars PROVE WireInv'
    OBVIOUS
  <1>1. Settled \subseteq Settled' /\ WireInv
    BY QueueStep DEF IInv
  <1>2. CASE wire' \subseteq wire
    BY <1>1, <1>2 DEF WireInv
  <1>3. CASE AttemptFails
    <2>1. wire' \subseteq wire \cup {Carried}
      BY <1>3 DEF AttemptFails, Fresh
    <2> QED BY <1>1, <2>1, CarriedBelow DEF WireInv
  <1>4. CASE AttemptOk \/ ArriveLate
    BY <1>2, <1>4 DEF AttemptOk, ArriveLate, Fresh
  <1> QED BY <1>2, <1>3, <1>4 DEF Next, Progress, PollFile, PollEmpty, PollFails, AppendBatch,
        Ack, AckFails, Persist, PersistFails, Tick, JournalRecord, Chatter,
        FollowerDies, Restart, Weather, Write, vars, envVars

\* Lines reach the collector with a batch whose predecessors are settled.
LEMMA OrderStep == IInv /\ [Next]_vars => OrderKept'
  <1> SUFFICES ASSUME IInv, [Next]_vars PROVE OrderKept'
    OBVIOUS
  <1>1. Settled \subseteq Settled' /\ OrderKept /\ TypeOK /\ WireInv
    BY QueueStep DEF IInv
  <1>2. \A s \in Sources : \A l : <<s, l>> \in received => Below(s, l) \subseteq Settled
    <2> SUFFICES ASSUME NEW s \in Sources, NEW l, <<s, l>> \in received
                 PROVE  Below(s, l) \subseteq Settled
      OBVIOUS
    <2>1. l \in 1..written[s]
      BY <1>1, LineIs DEF TypeOK
    <2> QED BY <1>1, <2>1 DEF OrderKept
  <1>3. CASE UNCHANGED received
    BY <1>1, <1>2, <1>3 DEF OrderKept
  <1>4. ASSUME NEW b \in Batches, Below(b.src, b.from) \subseteq Settled,
               received' = received \cup LinesOf(b)
        PROVE  OrderKept'
    <2> SUFFICES ASSUME NEW s \in Sources, NEW l \in 1..written'[s], <<s, l>> \in received'
                 PROVE  Below(s, l) \subseteq Settled'
      BY DEF OrderKept
    <2>1. CASE <<s, l>> \in received
      BY <1>1, <1>2, <2>1
    <2>2. CASE <<s, l>> \in LinesOf(b)
      <3>1. s = b.src /\ l \in Nat /\ l <= b.to + 1
        BY <2>2 DEF LinesOf, Batches
      <3>2. Below(s, l) \subseteq Below(b.src, b.from) \cup LinesOf(b)
        BY <3>1, BelowSplit
      <3> QED BY <1>1, <1>4, <3>2 DEF Settled
    <2> QED BY <1>4, <2>1, <2>2
  <1>5. CASE AttemptOk
    <2>1. Carried \in Batches
      BY <1>1, CarriedFacts
    <2>2. received' = received \cup LinesOf(Carried)
      BY <1>5 DEF AttemptOk
    <2> QED BY <1>4, <2>1, <2>2, CarriedBelow
  <1>6. CASE ArriveLate
    <2>1. PICK b \in wire : received' = received \cup LinesOf(b)
      BY <1>6 DEF ArriveLate
    <2>2. b \in Batches /\ Below(b.src, b.from) \subseteq Settled
      BY <1>1 DEF TypeOK, WireInv
    <2> QED BY <1>4, <2>1, <2>2
  <1> QED BY <1>3, <1>5, <1>6 DEF Next, Progress, PollFile, PollEmpty, PollFails, AppendBatch,
        AttemptFails, Ack, AckFails, Persist, PersistFails, Tick, JournalRecord, Chatter,
        FollowerDies, Restart, Weather, Write, vars, histVars

\* The task puts its batch down.
LEMMA HandDown ==
    ASSUME IInv, GoOn \/ GiveUp
    PROVE  HandInv'
  BY DEF GoOn, GiveUp, HandInv, Nothing

\* A batch just appended is queued.
LEMMA StoredQueued ==
    ASSUME TypeOK, Store(hand)
    PROVE  LinesOf(hand) \subseteq Queued(queue')
  <1>1. PICK k \in 0..Len(queue) : queue' = Append(Without(k), Entry(hand, "live"))
    BY DEF Store
  <1>2. Entry(hand, "live") \in Entries /\ Entry(hand, "live").batch = hand
        /\ Entry(hand, "live").state = "live"
    BY DEF TypeOK, Entry, Entries
  <1>3. Without(k) \in Seq(Entries)
    BY QueueTypes
  <1> QED BY <1>1, <1>2, <1>3, AppendFacts

\* The task keeps its batch, which is held by now, and goes on with the queue.
LEMMA HandKept ==
    ASSUME IInv, [Next]_vars, UNCHANGED <<sourceVars, turn, hand>>,
           pc \in {"append", "attempt", "ack"}, pc' \in {"persist", "attempt"},
           LinesOf(hand) \subseteq Held'
    PROVE  HandInv'
  BY DEF IInv, HandInv, sourceVars, Nothing, Batch

LEMMA HandStep == IInv /\ [Next]_vars => HandInv'
  <1> SUFFICES ASSUME IInv, [Next]_vars PROVE HandInv'
    OBVIOUS
  <1>1. Held \subseteq Held' /\ received \subseteq received' /\ TypeOK /\ HandInv /\ OnceInv
    BY QueueStep DEF IInv
  <1>2. CASE PollFile
    <2>1. hand' = Batch(turn, checkpoint[turn] + 1, PollEnd(turn)) /\ pc = "poll"
          /\ written[turn] > checkpoint[turn] /\ UNCHANGED <<turn, queue, checkpoint>>
          /\ pc' = IF Backlog THEN "append" ELSE "attempt"
      BY <1>2 DEF PollFile, Export, queueVars, sourceVars
    <2>2. turn \in Files /\ turn \in Sources /\ turn # Journal
      BY <1>1, <2>1 DEF OnceInv, Files, Sources, Journal
    <2>3. checkpoint[turn] + 1 <= PollEnd(turn)
      <3>1. checkpoint[turn] \in Nat /\ written[turn] \in Nat /\ PollEnd(turn) \in Nat
            /\ (PollEnd(turn) = written[turn] \/ PollEnd(turn) = checkpoint[turn] + MaxPoll)
        BY <1>1, <2>2, PollEndFacts DEF TypeOK
      <3> QED BY <2>1, <3>1, BoundsAssumption
    <2>4. Backlog' = Backlog
      BY <2>1 DEF Backlog
    <2> QED BY <2>1, <2>2, <2>3, <2>4 DEF HandInv, Batch
  <1>3. CASE PollEmpty \/ PollFails \/ Persist \/ PersistFails
    BY <1>3, HandDown DEF PollEmpty, PollFails, Persist, PersistFails, Degrade
  <1>4. CASE AppendBatch
    <2>1. UNCHANGED sourceVars /\ pc = "append"
      BY <1>4 DEF AppendBatch
    <2>2. CASE Refused
      BY <2>2, HandDown DEF Refused, Degrade
    <2>3. CASE ~Refused
      <3>1. Store(hand) /\ UNCHANGED <<turn, hand>> /\ pc' \in {"persist", "attempt"}
        BY <1>4, <2>3 DEF AppendBatch, DrainOn, Accepted
      <3>2. LinesOf(hand) \subseteq Held'
        BY <1>1, <3>1, StoredQueued DEF Held
      <3> QED BY <2>1, <3>1, <3>2, HandKept
    <2> QED BY <2>2, <2>3
  <1>5. CASE AttemptOk
    <2>1. UNCHANGED <<sourceVars, turn, hand, queue>> /\ pc = "attempt"
          /\ received' = received \cup LinesOf(Carried)
      BY <1>5 DEF AttemptOk, Accepted, queueVars
    <2>2. CASE Backlog
      <3>1. LinesOf(queue[HeadAt].batch) \subseteq received' /\ pc' = "ack" /\ Backlog'
            /\ queue'[HeadAt'] = queue[HeadAt]
        BY <1>5, <2>1, <2>2 DEF AttemptOk, Carried, Backlog, HeadAt
      <3>2. LinesOf(hand) \subseteq Held'
        BY <1>1, <2>1, <2>2 DEF HandInv
      <3>3. LinesOf(queue[HeadAt].batch)' \subseteq received'
        BY <3>1 DEF LinesOf
      <3> QED BY <1>1, <2>1, <3>1, <3>2, <3>3 DEF HandInv, sourceVars, Nothing, Batch
    <2>3. CASE ~Backlog
      <3>1. LinesOf(hand) \subseteq Held'
        BY <2>1, <2>3 DEF Carried, Held, Settled
      <3> QED BY <1>5, <2>1, <2>3, <3>1, HandKept DEF AttemptOk, Accepted
    <2> QED BY <2>2, <2>3
  <1>6. CASE AttemptFails
    <2>1. UNCHANGED <<sourceVars, turn, hand, queue>> /\ pc = "attempt"
          /\ (UNCHANGED pc \/ LastAttempt)
      BY <1>6 DEF AttemptFails, LastAttempt, Accepted, queueVars
    <2>2. CASE Backlog
      <3>1. LinesOf(hand) \subseteq Held'
        BY <1>1, <2>1, <2>2 DEF HandInv
      <3> QED BY <2>1, <2>2, <3>1, HandKept DEF LastAttempt, Accepted
    <2>3. CASE ~Backlog
      <3>1. pc' \in {"attempt", "append"} /\ ~Backlog'
        BY <2>1, <2>3 DEF LastAttempt, Backlog
      <3> QED BY <1>1, <2>1, <3>1 DEF HandInv, sourceVars, Nothing, Batch
    <2> QED BY <2>2, <2>3
  <1>7. CASE Ack \/ AckFails
    <2>1. UNCHANGED <<sourceVars, turn, hand>> /\ pc = "ack" /\ pc' \in {"persist", "attempt"}
      BY <1>7 DEF Ack, AckFails, DrainOn, Accepted
    <2>2. LinesOf(hand) \subseteq Held'
      BY <1>1, <2>1 DEF HandInv
    <2> QED BY <2>1, <2>2, HandKept
  <1>8. CASE Tick \/ FollowerDies \/ Weather
    <2>1. pc = "select" /\ UNCHANGED hand /\ pc' \in {"select", "poll"}
      BY <1>8 DEF Tick, StartPolling, FollowerDies, Weather, taskVars
    <2> QED BY <1>1, <2>1, HandEmpty DEF HandInv, Nothing, Batch
  <1>9. CASE JournalRecord \/ Chatter
    <2>1. pc = "select" /\ UNCHANGED <<turn, queue>> /\ follower' = "proven"
          /\ pc' = (IF Backlog THEN "append" ELSE "attempt")
          /\ (hand' = Nothing \/ hand' = Batch(Journal, position', position'))
      BY <1>9 DEF JournalRecord, Chatter, Export, queueVars
    <2>2. turn' = Journal /\ Backlog' = Backlog
      BY <1>1, <2>1 DEF OnceInv, Backlog
    <2>3. position' \in Nat
      BY <1>1, <1>9 DEF JournalRecord, Chatter, TypeOK
    <2> QED BY <2>1, <2>2, <2>3 DEF HandInv, Batch, Nothing
  <1>10. CASE Restart
    BY <1>10 DEF Restart, HandInv, Nothing
  <1>11. CASE ArriveLate \/ UNCHANGED vars
    <2>1. UNCHANGED <<sourceVars, turn, hand, pc, queue>>
      BY <1>11 DEF ArriveLate, vars, queueVars, taskVars
    <2>2. Backlog' = Backlog /\ queue'[HeadAt'] = queue[HeadAt]
      BY <2>1 DEF Backlog, HeadAt
    <2>3. LinesOf(queue[HeadAt].batch)' = LinesOf(queue[HeadAt].batch)
      BY <2>2 DEF LinesOf
    <2> QED BY <1>1, <2>1, <2>2, <2>3 DEF HandInv, sourceVars, Nothing, Batch
  <1>12. CASE \E s \in Sources : Write(s)
    <2>1. pc \in {"select", "poll"} /\ UNCHANGED <<pc, hand>>
      BY <1>12 DEF Write, taskVars
    <2> QED BY <1>1, <2>1, HandEmpty DEF HandInv, Nothing, Batch
  <1> QED BY <1>2, <1>3, <1>4, <1>5, <1>6, <1>7, <1>8, <1>9, <1>10, <1>11, <1>12 DEF Next, Progress

\* A pass of run_logs_once leaves a file behind only once it has reached its
\* goal: every error ends it instead.
LEMMA OnceStep == IInv /\ [Next]_vars => OnceInv'
  <1> SUFFICES ASSUME IInv, [Next]_vars PROVE OnceInv'
    OBVIOUS
  <1>1. TypeOK /\ HandInv /\ OnceInv
    BY DEF IInv
  <1>2. Files \subseteq Sources /\ \A f \in Files : checkpoint[f] \in Nat /\ written[f] \in Nat
                                        /\ goal[f] \in Nat
    BY <1>1, BoundsAssumption DEF TypeOK, Files, Sources
  \* The next file, or the end of the pass, comes when this one is at its goal.
  <1>3. ASSUME GoOn, UNCHANGED <<written, mode, goal>>,
               pc \in {"poll", "append", "attempt", "ack", "persist"},
               \A f \in Files : checkpoint[f] <= checkpoint'[f],
               \A f \in Files : checkpoint'[f] \in Nat,
               mode = "once" => goal[turn] <= checkpoint'[turn]
        PROVE  OnceInv'
    <2>1. CASE mode = "loop"
      <3>1. pc' = "poll" => turn' \in Files
        BY <1>3, BoundsAssumption, <2>1 DEF GoOn, Files
      <3> QED BY <1>3, <2>1, <3>1 DEF GoOn, OnceInv, Journal
    <2>2. CASE mode = "once"
      <3>1. turn \in Files /\ hand' = Nothing /\ mode' = "once"
        BY <1>1, <1>3, <2>2 DEF OnceInv, GoOn
      <3>2. IF turn < NumFiles THEN pc' = "poll" /\ turn' = turn + 1 ELSE turn' = 0 /\ pc' = "done"
        BY <1>3, <2>2, <3>1 DEF GoOn
      <3>3. pc' = "poll" => turn' \in Files
        BY <3>1, <3>2, BoundsAssumption DEF Files
      <3>4. \A f \in Files : f < turn \/ f = turn \/ (turn < f /\ turn < NumFiles)
        BY <3>1, BoundsAssumption DEF Files
      <3>5. ASSUME NEW f \in Files
            PROVE  /\ goal'[f] <= written'[f] /\ goal'[f] <= checkpoint'[f] + MaxPoll
                   /\ (pc' = "done" \/ f < turn' => goal'[f] <= checkpoint'[f])
        <4>1. goal[f] <= written[f] /\ goal[f] <= checkpoint[f] + MaxPoll
              /\ (f < turn => goal[f] <= checkpoint[f])
          BY <1>1, <2>2 DEF OnceInv
        <4>2. checkpoint[f] \in Nat /\ checkpoint'[f] \in Nat /\ goal[f] \in Nat
              /\ checkpoint[f] <= checkpoint'[f]
          BY <1>2, <1>3
        <4>3. f <= turn => goal[f] <= checkpoint'[f]
          BY <1>3, <2>2, <3>1, <4>1, <4>2 DEF Files
        <4>4. (pc' = "done" \/ f < turn') => f <= turn
          BY <3>1, <3>2, <3>4, BoundsAssumption DEF Files
        <4> QED BY <1>3, <4>1, <4>2, <4>3, <4>4, BoundsAssumption
      <3>6. pc' \in {"poll", "done"} /\ (pc' = "poll" => turn' \in Files)
        BY <3>2, <3>3
      <3> QED BY <3>1, <3>5, <3>6 DEF OnceInv
    <2> QED BY <1>1, <2>1, <2>2 DEF TypeOK
  \* An error ends the pass.
  <1>4. ASSUME GiveUp, UNCHANGED <<written, checkpoint, mode, goal>>, mode = "once"
        PROVE  OnceInv'
    <2>1. \A f \in Files : ~(f < 0)
      BY BoundsAssumption DEF Files
    <2> QED BY <1>1, <1>4, <2>1 DEF GiveUp, OnceInv
  \* The batch in hand goes through the queue and the collector.
  <1>5. CASE UNCHANGED <<written, checkpoint, mode, goal, turn, hand>>
             /\ pc \in {"append", "attempt", "ack"}
             /\ pc' \in {"append", "attempt", "ack", "persist"}
    BY <1>1, <1>5 DEF OnceInv, Nothing, Batch
  <1>6. CASE PollFile
    <2>1. pc = "poll" /\ hand' = Batch(turn, checkpoint[turn] + 1, PollEnd(turn))
          /\ UNCHANGED <<written, checkpoint, mode, goal, turn>> /\ pc' \in {"append", "attempt"}
          /\ written[turn] > checkpoint[turn]
      BY <1>6 DEF PollFile, Export, sourceVars, histVars
    <2>2. turn \in Files /\ turn \in Sources
      BY <1>1, <1>2, <2>1 DEF OnceInv
    <2>3. hand' # Nothing
      <3>1. PollEnd(turn) # 0
        <4>1. checkpoint[turn] \in Nat /\ written[turn] \in Nat
              /\ (PollEnd(turn) = written[turn] \/ PollEnd(turn) = checkpoint[turn] + MaxPoll)
          BY <1>2, <2>2, PollEndFacts, <1>1
        <4> QED BY <2>1, <4>1, BoundsAssumption
      <3> QED BY <2>1, <3>1 DEF Batch, Nothing
    <2>4. mode = "once" => goal[turn] <= PollEnd(turn)
      <3>1. /\ PollEnd(turn) = written[turn] \/ PollEnd(turn) = checkpoint[turn] + MaxPoll
            /\ mode = "once" => goal[turn] <= written[turn] /\ goal[turn] <= checkpoint[turn] + MaxPoll
        BY <1>1, <2>2, PollEndFacts DEF OnceInv
      <3> QED BY <3>1
    <2>5. hand'.to = PollEnd(turn)
      BY <2>1 DEF Batch
    <2> QED BY <1>1, <2>1, <2>2, <2>3, <2>4, <2>5 DEF OnceInv
  <1>7. CASE PollEmpty
    <2>1. pc = "poll" /\ written[turn] = checkpoint[turn] /\ GoOn
          /\ UNCHANGED <<written, checkpoint, mode, goal>>
      BY <1>7 DEF PollEmpty, sourceVars, histVars
    <2>2. mode = "once" => goal[turn] <= checkpoint[turn]
      BY <1>1, <2>1 DEF OnceInv
    <2>3. \A f \in Files : checkpoint[f] <= checkpoint'[f] /\ checkpoint'[f] \in Nat
      BY <1>2, <2>1
    <2> QED BY <1>3, <2>1, <2>2, <2>3
  <1>8. CASE PollFails \/ PersistFails \/ (AppendBatch /\ Refused)
    <2>1. pc \in {"poll", "persist", "append"} /\ Degrade
          /\ UNCHANGED <<written, checkpoint, mode, goal>>
      BY <1>8 DEF PollFails, PersistFails, AppendBatch, Refused, sourceVars, histVars
    <2>2. CASE mode = "loop"
      <3>1. \A f \in Files : checkpoint[f] <= checkpoint'[f] /\ checkpoint'[f] \in Nat
        BY <1>2, <2>1
      <3>2. GoOn
        BY <2>1, <2>2 DEF Degrade
      <3> QED BY <1>3, <2>1, <2>2, <3>1, <3>2
    <2>3. CASE mode = "once"
      BY <1>4, <2>1, <2>3 DEF Degrade
    <2> QED BY <1>1, <2>2, <2>3 DEF TypeOK
  <1>9. CASE (AppendBatch /\ ~Refused) \/ AttemptOk \/ AttemptFails \/ Ack \/ AckFails
    BY <1>5, <1>9 DEF AppendBatch, AttemptOk, AttemptFails, LastAttempt, Ack, AckFails, DrainOn,
        Accepted, sourceVars, histVars
  <1>10. CASE Persist
    <2>1. pc = "persist" /\ GoOn /\ UNCHANGED <<written, mode, goal>>
          /\ checkpoint' = (IF hand = Nothing THEN checkpoint
                            ELSE [checkpoint EXCEPT ![hand.src] = hand.to])
      BY <1>10 DEF Persist, histVars
    <2>2. hand \in Batches /\ checkpoint \in [Sources -> Nat] /\ turn \in Sources
      BY <1>1 DEF TypeOK
    <2>3. hand # Nothing => hand.src = turn /\ hand.to \in Nat /\ hand.from <= hand.to
                            /\ (turn # Journal => hand.from = checkpoint[turn] + 1)
      BY <1>1, <2>2 DEF HandInv, Batches
    <2>4. \A f \in Files : checkpoint[f] <= checkpoint'[f] /\ checkpoint'[f] \in Nat
      <3> SUFFICES ASSUME NEW f \in Files PROVE checkpoint[f] <= checkpoint'[f] /\ checkpoint'[f] \in Nat
        OBVIOUS
      <3>1. CASE hand = Nothing \/ f # turn
        BY <1>2, <2>1, <2>2, <2>3, <3>1
      <3>2. CASE hand # Nothing /\ f = turn
        <4>1. checkpoint'[f] = hand.to /\ turn # Journal
          BY <1>2, <2>1, <2>2, <2>3, <3>2 DEF Files, Journal
        <4> QED BY <1>2, <2>3, <3>2, <4>1
      <3> QED BY <3>1, <3>2
    <2>5. mode = "once" => goal[turn] <= checkpoint'[turn]
      <3> SUFFICES ASSUME mode = "once" PROVE goal[turn] <= checkpoint'[turn]
        OBVIOUS
      <3>1. turn \in Files /\ hand # Nothing /\ goal[turn] <= hand.to
        BY <1>1, <2>1 DEF OnceInv
      <3>2. checkpoint'[turn] = hand.to
        BY <1>2, <2>1, <2>2, <2>3, <3>1
      <3> QED BY <3>1, <3>2
    <2> QED BY <1>3, <2>1, <2>4, <2>5
  <1>11. CASE Tick \/ JournalRecord \/ Chatter \/ FollowerDies \/ Weather
    <2>1. pc = "select" /\ mode = "loop" /\ UNCHANGED mode
          /\ pc' \in {"select", "poll", "append", "attempt"}
      <3>1. pc = "select" /\ UNCHANGED mode /\ pc' \in {"select", "poll", "append", "attempt"}
        BY <1>11 DEF Tick, StartPolling, JournalRecord, Chatter, Export, FollowerDies, Weather, taskVars
      <3> QED BY <1>1, <3>1 DEF OnceInv, TypeOK
    <2>2. (pc' = "poll" => turn' \in Files) /\ (pc' = "select" => turn' = Journal)
      <3>1. turn = Journal
        BY <1>1, <2>1 DEF OnceInv
      <3>2. CASE Tick
        BY <3>2, BoundsAssumption DEF Tick, StartPolling, Files, Journal
      <3>3. CASE JournalRecord \/ Chatter \/ FollowerDies \/ Weather
        BY <2>1, <3>1, <3>3 DEF JournalRecord, Chatter, Export, FollowerDies, Weather, taskVars
      <3> QED BY <1>11, <3>2, <3>3
    <2> QED BY <2>1, <2>2 DEF OnceInv
  <1>12. CASE Restart
    <2>1. hand' = Nothing /\ UNCHANGED <<written, checkpoint>> /\ mode' \in {"loop", "once"}
      BY <1>12 DEF Restart
    <2>2. CASE mode' = "loop"
      BY <1>12, <2>2 DEF Restart, OnceInv, Journal
    <2>3. CASE mode' = "once"
      <3>1. pc' = (IF NumFiles = 0 THEN "done" ELSE "poll")
            /\ turn' = (IF NumFiles = 0 THEN 0 ELSE 1) /\ goal' = PassGoal
        BY <1>12, <2>3 DEF Restart
      <3>2. pc' = "poll" => turn' \in Files
        BY <3>1, BoundsAssumption DEF Files
      <3>3. \A f \in Files : goal'[f] = PollEnd(f)
        BY <1>2, <3>1, BoundsAssumption DEF PassGoal, Files, Journal
      <3>4. \A f \in Files : goal'[f] <= written[f] /\ goal'[f] <= checkpoint[f] + MaxPoll
        BY <1>1, <1>2, <3>3, PollEndFacts
      <3>5. \A f \in Files : ~(pc' = "done" \/ f < turn')
        BY <3>1, BoundsAssumption DEF Files
      <3> QED BY <2>1, <2>3, <3>1, <3>2, <3>4, <3>5 DEF OnceInv
    <2> QED BY <2>1, <2>2, <2>3
  <1>13. CASE ArriveLate \/ UNCHANGED vars
    BY <1>1, <1>13 DEF ArriveLate, vars, sourceVars, taskVars, histVars, OnceInv, Nothing, Batch
  <1>14. ASSUME NEW s \in Sources, Write(s) PROVE OnceInv'
    <2>1. UNCHANGED <<checkpoint, mode, pc, turn, hand, goal>>
          /\ written' = [written EXCEPT ![s] = @ + 1]
      BY <1>14 DEF Write, taskVars, histVars
    <2>2. \A f \in Files : goal[f] <= written[f] => goal[f] <= written'[f]
      BY <1>1, <1>2, <2>1 DEF TypeOK
    <2> QED BY <1>1, <2>1, <2>2 DEF OnceInv, Nothing, Batch
  <1> QED BY <1>6, <1>7, <1>8, <1>9, <1>10, <1>11, <1>12, <1>13, <1>14 DEF Next, Progress
-----------------------------------------------------------------------------
(* The theorems *)

LEMMA LogsInit == Init => IInv
  <1> SUFFICES ASSUME Init PROVE IInv
    OBVIOUS
  <1>1. TypeOK
    BY TypeInit
  <1>2. LiveAt(queue) = {} /\ ~Backlog
    BY DEF Init, LiveAt, Backlog
  <1>3. HandInv /\ JournalInv /\ QueueInv /\ WireInv /\ OnceInv
    BY <1>2 DEF Init, HandInv, JournalInv, QueueInv, InOrder, WireInv, OnceInv, Journal
  <1>4. CheckpointCovered /\ OrderKept
    BY DEF Init, CheckpointCovered, Below, OrderKept
  <1> QED BY <1>1, <1>3, <1>4 DEF IInv

LEMMA LogsInductive == IInv /\ [Next]_vars => IInv'
  BY TypeStep, HandStep, JournalStep, QueueStep, WireStep, OnceStep, CheckpointStep, OrderStep
  DEF IInv

LEMMA LogsInvariant == Spec => []IInv
  BY LogsInit, LogsInductive, PTL DEF Spec

\* A checkpoint, of a file or of the journal, never covers a line that was not
\* handed over: every such line was received, is queued or fell to the cap
\* (export_records and persist_checkpoint in logs.rs).
THEOREM LogsCheckpointCovered == Spec => []CheckpointCovered
  <1>1. IInv => CheckpointCovered
    BY DEF IInv
  <1> QED BY <1>1, LogsInvariant, PTL

\* The collector never has a line of a source while an older one of that source
\* is still queued, in hand or unread (export_records and drain_wal in logs.rs).
THEOREM LogsOrderKept == Spec => []OrderKept
  <1>1. IInv => OrderKept
    BY DEF IInv
  <1> QED BY <1>1, LogsInvariant, PTL

\* A pass of run_logs_once that ends well has brought every file to its goal.
THEOREM LogsOncePassStrict == Spec => []OncePassStrict
  <1>1. IInv => OncePassStrict
    <2> SUFFICES ASSUME IInv, pc = "done", NEW f \in Files PROVE checkpoint[f] >= goal[f]
      BY DEF OncePassStrict
    <2>1. TypeOK /\ OnceInv /\ f \in Sources
      BY BoundsAssumption DEF IInv, Files, Sources
    <2>2. mode = "once"
      BY <2>1 DEF OnceInv, TypeOK
    <2>3. goal[f] <= checkpoint[f] /\ goal[f] \in Nat /\ checkpoint[f] \in Nat
      BY <2>1, <2>2 DEF OnceInv, TypeOK
    <2> QED BY <2>3
  <1> QED BY <1>1, LogsInvariant, PTL
=============================================================================
