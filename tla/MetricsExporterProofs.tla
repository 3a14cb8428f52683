----------------------- MODULE MetricsExporterProofs -----------------------
(***************************************************************************)
(* Proofs about MetricsExporter, for every number of ticks, retries and    *)
(* pipes, every drain limit and every capacity of the disk queue.          *)
(***************************************************************************)
EXTENDS MetricsExporter, OrderLemmas, TLAPS

\* The head of a non-empty queue is in it and nothing in it is older.
LEMMA HeadFacts ==
    ASSUME NEW T, T \subseteq Batches, T # {}
    PROVE  Min(T) \in T /\ \A i \in T : Min(T) <= i
  <1>1. T \subseteq Nat
    BY BoundsAssumption DEF Batches
  <1> QED BY <1>1, MinIsLeast

-----------------------------------------------------------------------------
(* Type correctness *)

\* The outcomes of a failed attempt.
LEMMA RetryType ==
    ASSUME TypeOK, Retry, pc \in {"connect", "send"}
    PROVE  /\ pc' \in {"idle", "connect", "append"}
           /\ batch' \in Batches \cup {0} /\ source' \in {"sampled", "queued"}
           /\ attempt' \in 0..Retries /\ drained' \in 0..MaxDrain
  BY BoundsAssumption DEF TypeOK, Retry, Finish

\* Storing a batch keeps the queue and the history sets of batches.
LEMMA StoreType ==
    ASSUME TypeOK, NEW b \in Batches, Store(b) \/ StoreFails(b)
    PROVE  /\ stored' \subseteq Batches /\ pending' \subseteq stored'
           /\ evicted' \subseteq Batches /\ unsaved' \subseteq Batches
  BY DEF TypeOK, Store, StoreFails

\* A step leaves parted alone, sets it or resets it.
LEMMA PartedType ==
    ASSUME parted \in BOOLEAN, [Next]_vars
    PROVE  parted' \in BOOLEAN
  <1>1. ASSUME NEW b, StoreFails(b) PROVE parted' \in BOOLEAN
    <2>1. parted' = parted \/ parted' = TRUE
      BY <1>1 DEF StoreFails
    <2> QED BY <2>1
  <1>2. CASE TickBacklog \/ PersistFresh
    <2>1. CASE StoreFails(nextBatch) \/ StoreFails(batch)
      BY <1>1, <2>1
    <2>2. CASE Store(nextBatch) \/ Store(batch)
      BY <2>2 DEF Store
    <2> QED BY <1>2, <2>1, <2>2 DEF TickBacklog, PersistFresh
  <1>3. CASE Restart
    BY <1>3 DEF Restart
  <1>4. CASE ~(TickBacklog \/ PersistFresh \/ Restart)
    <2>1. parted' = parted
      BY <1>4 DEF Next, Progress, TickEmpty, LaterTick, DrainNext, DrainDone, DrainReadFails,
         Ack, AckFails, FreshDone, ConnectDirect, ConnectRefused, ReuseChannel, TakePipe,
         TakeDeadPipe, SendOk, SendFails, Timeout, PipeArrives, Break, ArriveLate, Weather,
         queueVars, vars
    <2> QED BY <2>1
  <1> QED BY <1>2, <1>3, <1>4

LEMMA TypeStep == TypeOK /\ HandInv /\ [Next]_vars => TypeOK'
  <1> SUFFICES ASSUME TypeOK, HandInv, [Next]_vars PROVE TypeOK'
    OBVIOUS
  <1> USE BoundsAssumption
  <1>0. parted' \in BOOLEAN
    BY PartedType DEF TypeOK
  <1>1. CASE TickEmpty
    BY <1>0, <1>1 DEF TickEmpty, Export, TypeOK, queueVars, connVars, Batches
  <1>2. CASE TickBacklog
    <2>1. nextBatch \in Batches
      BY <1>2 DEF TickBacklog, TypeOK, Batches
    <2>2. Store(nextBatch) \/ StoreFails(nextBatch)
      BY <1>2 DEF TickBacklog
    <2> QED BY <1>0, <1>2, <2>1, <2>2, StoreType
            DEF TickBacklog, Finish, TypeOK, connVars, Batches
  <1>3. CASE LaterTick
    BY <1>3 DEF LaterTick, TypeOK, queueVars, connVars, envVars
  <1>4. CASE DrainNext
    BY <1>4, HeadFacts DEF DrainNext, Export, TypeOK, queueVars, connVars, envVars
  <1>5. CASE DrainDone \/ DrainReadFails \/ FreshDone
    BY <1>5 DEF DrainDone, DrainReadFails, FreshDone, Finish, TypeOK, queueVars, connVars, envVars
  <1>6. CASE Ack
    <2>1. pending' \subseteq pending /\ drained < MaxDrain
      BY <1>6 DEF Ack, HandInv
    <2>2. pending' # {} => Min(pending') \in pending' /\ \A i \in pending' : Min(pending') <= i
      BY <2>1, HeadFacts DEF TypeOK
    <2>3. pending' \subseteq stored' /\ stored' \subseteq stored
      BY <1>6, <2>1, <2>2 DEF Ack, Behind, TypeOK
    <2>4. /\ pc' = "drain" /\ drained' = drained + 1 /\ batch' = 0 /\ attempt' = 0
          /\ UNCHANGED <<evicted, unsaved, connVars, source, envVars>>
      BY <1>6 DEF Ack
    <2> QED BY <1>0, <2>1, <2>3, <2>4 DEF TypeOK, connVars, envVars
  <1>7. CASE AckFails
    BY <1>0, <1>7 DEF AckFails, Finish, TypeOK, connVars, envVars
  <1>8. CASE PersistFresh
    <2>1. batch \in Batches
      BY <1>8 DEF PersistFresh, HandInv
    <2> QED BY <1>0, <1>8, <2>1, StoreType DEF PersistFresh, Finish, TypeOK, connVars, envVars
  <1>9. CASE ConnectDirect \/ ReuseChannel
    BY <1>9 DEF ConnectDirect, ReuseChannel, Connected, TypeOK, queueVars, envVars
  <1>10. CASE TakePipe
    BY <1>10 DEF TakePipe, Connected, TypeOK, queueVars, envVars
  <1>11. CASE ConnectRefused \/ TakeDeadPipe
    <2>1. Retry /\ pc = "connect"
      BY <1>11 DEF ConnectRefused, TakeDeadPipe
    <2>2. slot' \in Seq({"live", "dead"}) /\ channel' = channel /\ transport' = transport
      BY <1>11 DEF ConnectRefused, TakeDeadPipe, TypeOK, connVars
    <2>3. UNCHANGED <<queueVars, envVars>>
      BY <1>11 DEF ConnectRefused, TakeDeadPipe
    <2> QED BY <2>1, <2>2, <2>3, RetryType DEF TypeOK, queueVars, envVars
  <1>12. CASE SendOk
    BY <1>12 DEF SendOk, TypeOK, HandInv, queueVars
  <1>13. CASE SendFails \/ Timeout
    BY <1>13, RetryType DEF SendFails, Timeout, Waiting, Abandon, DiscardChannel, HandInv, TypeOK, queueVars
  <1>14. CASE Restart
    BY <1>0, <1>14 DEF Restart, Finish, HandInv, TypeOK, envVars
  <1>15. CASE PipeArrives
    BY <1>15 DEF PipeArrives, TypeOK, queueVars, tickVars, envVars
  <1>16. CASE Break
    BY <1>16 DEF Break, TypeOK, queueVars, tickVars, envVars
  <1>17. CASE ArriveLate
    BY <1>17 DEF ArriveLate, TypeOK, queueVars, connVars, tickVars
  <1>18. CASE Weather
    BY <1>18 DEF Weather, TypeOK, queueVars, connVars, tickVars
  <1>19. CASE UNCHANGED vars
    BY <1>19 DEF TypeOK, vars, queueVars, connVars, tickVars, envVars
  <1> QED BY <1>1, <1>2, <1>3, <1>4, <1>5, <1>6, <1>7, <1>8, <1>9, <1>10, <1>11, <1>12,
             <1>13, <1>14, <1>15, <1>16, <1>17, <1>18, <1>19 DEF Next, Progress

-----------------------------------------------------------------------------
(* The inductive invariant *)

\* Where every batch is that the exporter no longer holds in its hands.
Kept == received \cup pending \cup evicted \cup unsaved

\* A step that touches neither queue nor collector keeps what relates them.
LEMMA QuietStep ==
    ASSUME IInv, UNCHANGED <<queueVars, wire, nextBatch, received>>
    PROVE  NumberInv' /\ CoverInv' /\ WireInv' /\ NoOvertaking' /\ Kept' = Kept
  BY DEF IInv, NumberInv, CoverInv, WireInv, NoOvertaking, Owed, Kept, queueVars

\* Nothing is forgotten by a step that keeps what is kept and the batch in hand.
LEMMA KeepStep ==
    ASSUME IInv, nextBatch' = nextBatch, Kept \subseteq Kept',
           source = "sampled" =>
               \/ source' = "sampled" /\ batch' = batch
               \/ batch \in Kept'
    PROVE  NothingForgotten'
  <1> SUFFICES ASSUME NEW b \in 1..(nextBatch - 1)
               PROVE  b \in Kept' \/ (b = batch' /\ source' = "sampled")
    BY DEF NothingForgotten, Kept
  <1>1. b \in Kept \/ (b = batch /\ source = "sampled")
    BY DEF IInv, NothingForgotten, Kept
  <1> QED BY <1>1

\* After a failed attempt the batch is in hand again, waits for the append or
\* is back in the queue.
LEMMA RetryHand ==
    ASSUME IInv, Retry, pc \in {"connect", "send"},
           UNCHANGED <<pending, nextBatch, received>>
    PROVE  /\ HandInv'
           /\ source = "sampled" => source' = "sampled" /\ batch' = batch
  BY DEF IInv, HandInv, TypeOK, Retry, Finish

\* A batch younger than everything delivered or stored enters the queue, with
\* or without success.
LEMMA StoreStep ==
    ASSUME IInv, NEW b \in Batches, Store(b) \/ StoreFails(b),
           UNCHANGED <<wire, received>>,
           b < nextBatch', nextBatch' \in Nat, nextBatch <= nextBatch',
           \A j \in stored \cup received \cup wire : j <= b
    PROVE  /\ NumberInv' /\ CoverInv' /\ WireInv' /\ NoOvertaking'
           /\ Kept \subseteq Kept' /\ b \in Kept'
  <1> USE BoundsAssumption
  <1>1. /\ stored' \subseteq stored \cup {b} /\ unsaved \subseteq unsaved'
        /\ b \in pending' \cup unsaved'
        /\ stored' \cap pending \subseteq pending'
        /\ pending \subseteq pending' \cup evicted' /\ evicted \subseteq evicted'
    BY DEF Store, StoreFails, IInv, TypeOK
  <1>2. Owed' \subseteq Owed \cup {b} /\ (b \in Owed' => b \notin received)
    BY <1>1 DEF Owed
  <1>3. stored \cup received \cup wire \cup {b} \subseteq Nat
    BY DEF IInv, TypeOK, Batches
  <1>4. NumberInv'
    BY <1>1, <1>3 DEF IInv, NumberInv, TypeOK
  <1>5. CoverInv'
    BY <1>1 DEF IInv, CoverInv
  <1>6. WireInv'
    BY <1>2, <1>3 DEF IInv, WireInv
  <1>7. NoOvertaking'
    BY <1>2, <1>3 DEF IInv, NoOvertaking
  <1>8. Kept \subseteq Kept' /\ b \in Kept'
    BY <1>1 DEF Kept
  <1> QED BY <1>4, <1>5, <1>6, <1>7, <1>8

\* What is owed is never older than the batch being exported.
LEMMA OwedFacts ==
    ASSUME IInv, pc \in {"connect", "send", "ack"}
    PROVE  batch \in Batches /\ \A i \in Owed : batch <= i
  <1>1. Owed \subseteq pending
    BY DEF IInv, CoverInv, Owed
  <1> QED BY <1>1 DEF IInv, HandInv, TypeOK

LEMMA IInvStep == IInv /\ [Next]_vars => IInv'
  <1> SUFFICES ASSUME IInv, [Next]_vars PROVE IInv'
    OBVIOUS
  <1> USE BoundsAssumption
  <1>0. TypeOK' /\ Batches \subseteq Nat
    BY TypeStep DEF IInv, Batches
  <1> DEFINE Rest == NumberInv' /\ CoverInv' /\ WireInv' /\ NoOvertaking'
  <1> SUFFICES HandInv' /\ Rest /\ NothingForgotten'
    BY <1>0 DEF IInv
  <1>1. CASE TickEmpty
    <2>1. HandInv'
      BY <1>1, <1>0 DEF TickEmpty, Export, IInv, HandInv, TypeOK, Batches, queueVars
    <2>2. Rest /\ Kept' = Kept
      BY <1>1, <1>0 DEF TickEmpty, IInv, TypeOK, NumberInv, CoverInv, WireInv, NoOvertaking, Owed, Kept, queueVars
    <2>3. NothingForgotten'
      <3> SUFFICES ASSUME NEW b \in 1..(nextBatch' - 1)
                   PROVE  b \in Kept' \/ (b = batch' /\ source' = "sampled")
        BY DEF NothingForgotten, Kept
      <3>1. CASE b = nextBatch
        BY <3>1, <1>1 DEF TickEmpty, Export
      <3>2. CASE b # nextBatch
        <4>1. b \in 1..(nextBatch - 1) /\ source = "queued"
          BY <3>2, <1>1 DEF TickEmpty, IInv, TypeOK, HandInv
        <4> QED BY <4>1, <2>2 DEF IInv, NothingForgotten, Kept
      <3> QED BY <3>1, <3>2
    <2> QED BY <2>1, <2>2, <2>3
  <1>2. CASE TickBacklog
    <2>1. nextBatch \in Batches /\ nextBatch' = nextBatch + 1 /\ UNCHANGED <<wire, received>>
      BY <1>2 DEF TickBacklog, IInv, TypeOK, Batches
    <2>2. \A j \in stored \cup received \cup wire : j <= nextBatch
      BY <2>1, <1>0 DEF IInv, NumberInv, TypeOK
    <2>3. Rest /\ Kept \subseteq Kept' /\ nextBatch \in Kept'
      BY <1>2, <1>0, <2>1, <2>2, StoreStep DEF TickBacklog
    <2>4. HandInv'
      BY <1>2 DEF TickBacklog, Finish, IInv, HandInv
    <2>5. NothingForgotten'
      <3>1. \A b \in 1..(nextBatch - 1) : b \in Kept
        BY <1>2 DEF TickBacklog, IInv, HandInv, NothingForgotten, Kept
      <3> QED BY <2>1, <2>3, <3>1, <1>0 DEF NothingForgotten, Kept, IInv, TypeOK
    <2> QED BY <2>3, <2>4, <2>5
  <1>3. CASE LaterTick \/ DrainNext \/ DrainDone \/ DrainReadFails \/ FreshDone
    <2>1. Rest /\ Kept' = Kept /\ UNCHANGED <<pending, received, nextBatch>>
      BY <1>3, QuietStep DEF LaterTick, DrainNext, DrainDone, DrainReadFails, FreshDone, queueVars, envVars
    <2>2. HandInv'
      BY <1>3, HeadFacts DEF LaterTick, DrainNext, DrainDone, DrainReadFails, FreshDone,
         Export, Finish, IInv, HandInv, TypeOK, queueVars, envVars
    <2>3. source = "sampled" => batch \in Kept
      BY <1>3 DEF LaterTick, DrainNext, DrainDone, DrainReadFails, FreshDone, IInv, HandInv, Kept
    <2> QED BY <2>1, <2>2, <2>3, KeepStep
  <1>4. CASE Ack \/ AckFails
    <2>1. /\ pending' = pending \ {batch} /\ batch \in received
          /\ UNCHANGED <<evicted, unsaved, wire, nextBatch, received>>
          /\ source = "queued" /\ source' = "queued" /\ pc' \in {"drain", "idle"}
      BY <1>4 DEF Ack, AckFails, Finish, IInv, HandInv, envVars
    <2>2. stored' \subseteq stored
      BY <1>4 DEF Ack, AckFails, Behind
    <2>3. Rest /\ Kept \subseteq Kept'
      BY <2>1, <2>2, <1>0 DEF IInv, NumberInv, CoverInv, WireInv, NoOvertaking, Owed, Kept
    <2>4. HandInv'
      BY <2>1 DEF HandInv
    <2> QED BY <2>1, <2>3, <2>4, KeepStep
  <1>5. CASE PersistFresh
    <2>1. /\ batch \in Batches /\ source = "sampled" /\ batch = nextBatch - 1
          /\ UNCHANGED <<wire, received, nextBatch>>
      BY <1>5 DEF PersistFresh, IInv, HandInv, envVars
    <2>2. \A j \in stored \cup received \cup wire : j <= batch
      BY <2>1, <1>0 DEF IInv, NumberInv, TypeOK
    <2>3. Rest /\ Kept \subseteq Kept' /\ batch \in Kept'
      BY <1>5, <1>0, <2>1, <2>2, StoreStep DEF PersistFresh, IInv, TypeOK
    <2>4. HandInv'
      BY <1>5 DEF PersistFresh, Finish, HandInv
    <2> QED BY <2>1, <2>3, <2>4, KeepStep
  <1>6. CASE ConnectDirect \/ ReuseChannel \/ TakePipe
    <2>1. Rest /\ Kept' = Kept
      BY <1>6, QuietStep DEF ConnectDirect, ReuseChannel, TakePipe, envVars
    <2>2. HandInv' /\ UNCHANGED <<nextBatch, source, batch>>
      BY <1>6 DEF ConnectDirect, ReuseChannel, TakePipe, Connected, IInv, HandInv, queueVars, envVars
    <2> QED BY <2>1, <2>2, KeepStep
  <1>7. CASE ConnectRefused \/ TakeDeadPipe
    <2>1. Retry /\ pc = "connect" /\ UNCHANGED <<queueVars, envVars>>
      BY <1>7 DEF ConnectRefused, TakeDeadPipe
    <2>2. Rest /\ Kept' = Kept
      BY <2>1, QuietStep DEF envVars
    <2> QED BY <2>1, <2>2, RetryHand, KeepStep DEF queueVars, envVars
  <1>8. CASE SendOk
    <2>1. /\ received' = received \cup {batch} /\ pc = "send" /\ pc' = "ack"
          /\ UNCHANGED <<queueVars, wire, nextBatch, source, batch, drained>>
      BY <1>8 DEF SendOk
    <2>2. batch \in Batches /\ \A i \in Owed : batch <= i
      BY <2>1, OwedFacts
    <2>3. Owed' = Owed \ {batch} /\ Owed \subseteq Batches
      BY <2>1 DEF Owed, queueVars, IInv, TypeOK
    <2>4. NumberInv'
      <3>1. batch < nextBatch
        BY <2>1, <1>0 DEF IInv, HandInv, NumberInv, TypeOK
      <3> QED BY <2>1, <3>1 DEF IInv, NumberInv, queueVars
    <2>5. CoverInv' /\ WireInv' /\ NoOvertaking'
      BY <1>0, <2>1, <2>2, <2>3 DEF IInv, CoverInv, WireInv, NoOvertaking, queueVars
    <2>6. HandInv'
      BY <2>1 DEF IInv, HandInv, queueVars
    <2>7. Kept \subseteq Kept'
      BY <2>1 DEF Kept, queueVars
    <2> QED BY <2>1, <2>4, <2>5, <2>6, <2>7, KeepStep
  <1>9. CASE SendFails \/ Timeout
    <2>1. /\ Retry /\ pc \in {"connect", "send"}
          /\ UNCHANGED <<queueVars, nextBatch, received>>
          /\ wire' \subseteq wire \cup {batch}
      BY <1>9 DEF SendFails, Timeout, Waiting, Abandon
    <2>2. batch \in Batches /\ \A i \in Owed : batch <= i
      BY <2>1, OwedFacts
    <2>3. batch < nextBatch
      BY <2>1, <1>0 DEF IInv, HandInv, NumberInv, TypeOK
    <2>4. Rest /\ Kept' = Kept
      BY <2>1, <2>2, <2>3 DEF IInv, NumberInv, CoverInv, WireInv, NoOvertaking, Owed, Kept, queueVars
    <2> QED BY <2>1, <2>4, RetryHand, KeepStep DEF queueVars
  <1>10. CASE Restart
    <2>1. /\ pending' = stored /\ source' = "queued" /\ pc' = "idle"
          /\ UNCHANGED <<stored, evicted, wire, nextBatch, received>>
          /\ unsaved \subseteq unsaved'
          /\ source = "sampled" => batch \in unsaved' \/ batch \in received
      BY <1>10 DEF Restart, Finish, envVars, IInv, HandInv
    <2>2. Rest
      BY <2>1 DEF IInv, NumberInv, CoverInv, WireInv, NoOvertaking, Owed
    <2>3. HandInv'
      BY <2>1 DEF HandInv
    <2>4. Kept \subseteq Kept'
      BY <2>1 DEF Kept, IInv, TypeOK
    <2> QED BY <2>1, <2>2, <2>3, <2>4, KeepStep DEF Kept
  <1>11. CASE ArriveLate
    <2>1. PICK b \in wire : received' = received \cup {b} /\ wire' = wire \ {b}
      BY <1>11 DEF ArriveLate
    <2>2. UNCHANGED <<queueVars, tickVars, nextBatch>>
      BY <1>11 DEF ArriveLate
    <2>3. Owed' = Owed \ {b} /\ Owed \subseteq Batches /\ wire \subseteq Batches
      BY <2>1, <2>2 DEF Owed, queueVars, IInv, TypeOK
    <2>4. NumberInv' /\ CoverInv'
      BY <2>1, <2>2 DEF IInv, NumberInv, CoverInv, queueVars
    <2>5. WireInv' /\ NoOvertaking'
      BY <1>0, <2>1, <2>3 DEF IInv, WireInv, NoOvertaking
    <2>6. HandInv'
      BY <2>1, <2>2 DEF IInv, HandInv, queueVars, tickVars
    <2>7. Kept \subseteq Kept'
      BY <2>1, <2>2 DEF Kept, queueVars
    <2> QED BY <2>2, <2>4, <2>5, <2>6, <2>7, KeepStep DEF tickVars
  <1>12. CASE PipeArrives \/ Break \/ Weather \/ UNCHANGED vars
    <2>1. UNCHANGED <<queueVars, tickVars, wire, nextBatch, received>>
      BY <1>12 DEF PipeArrives, Break, Weather, vars, envVars
    <2>2. Rest /\ Kept' = Kept
      BY <2>1, QuietStep
    <2>3. HandInv'
      BY <2>1 DEF IInv, HandInv, queueVars, tickVars
    <2> QED BY <2>1, <2>2, <2>3, KeepStep DEF tickVars
  <1> QED BY <1>1, <1>2, <1>3, <1>4, <1>5, <1>6, <1>7, <1>8, <1>9, <1>10, <1>11, <1>12
          DEF Next, Progress

LEMMA IInvInit == Init => IInv
  <1> SUFFICES ASSUME Init PROVE IInv
    OBVIOUS
  <1>1. parted \in BOOLEAN
    BY DEF Init
  <1> QED BY <1>1, BoundsAssumption, TransportsAssumption
          DEF Init, IInv, TypeOK, HandInv, NumberInv, CoverInv, WireInv, NoOvertaking,
              NothingForgotten, Owed

LEMMA MetricsStructure == Spec => []IInv
  BY IInvInit, IInvStep, PTL DEF Spec

\* The exporter's state stays well typed: the retry loop stays within its
\* schedule and no tick drains more than its limit (export_with_retry, drain_wal).
THEOREM MetricsTypeCorrect == Spec => []TypeOK
  <1>1. IInv => TypeOK
    BY DEF IInv
  <1> QED BY <1>1, MetricsStructure, PTL

\* Strict FIFO backfill (export_tick, drain_wal): no batch reaches the collector
\* while an older one is still owed, whatever fails, arrives late or restarts.
THEOREM MetricsNoOvertaking == Spec => []NoOvertaking
  <1>1. IInv => NoOvertaking
    BY DEF IInv
  <1> QED BY <1>1, MetricsStructure, PTL

\* No sampled batch disappears without a reason on record (export_tick).
THEOREM MetricsNothingForgotten == Spec => []NothingForgotten
  <1>1. IInv => NothingForgotten
    BY DEF IInv
  <1> QED BY <1>1, MetricsStructure, PTL
=============================================================================
