---------------------------- MODULE DurableFifo ----------------------------
(***************************************************************************)
(* What the disk queue promises its owner, without files, segments or      *)
(* cursors: a log of stored records, oldest first, that survives crashes.  *)
(* Records leave it only from the front, and only for a stated reason.     *)
(***************************************************************************)
EXTENDS Integers

CONSTANTS Ids  \* the records ever appended, in append order

VARIABLES
    stored,    \* what a reopen would find
    accepted,  \* records whose append returned Ok
    acked,     \* records acknowledged by the consumer
    evicted,   \* records given up to stay below the capacity
    corrupt    \* records the medium damaged

vars == <<stored, accepted, acked, evicted, corrupt>>

Init ==
    /\ stored = {} /\ accepted = {} /\ acked = {}
    /\ evicted = {} /\ corrupt = {}

\* A new record is younger than all that is stored.
Store(i) ==
    /\ \A j \in stored : j < i
    /\ i \notin accepted \cup acked \cup evicted
    /\ stored' = stored \cup {i}
    /\ UNCHANGED <<accepted, acked, evicted, corrupt>>

Accept(i) ==
    /\ i \in stored \cup evicted
    /\ accepted' = accepted \cup {i}
    /\ UNCHANGED <<stored, acked, evicted, corrupt>>

\* Records nobody is waiting for any more.
Settled == acked \cup corrupt \cup (Ids \ accepted)

\* The consumer acknowledges in order.
Ack(i) ==
    /\ i \in stored \ corrupt
    /\ \A j \in stored : j < i => j \in Settled
    /\ acked' = acked \cup {i}
    /\ UNCHANGED <<stored, accepted, evicted, corrupt>>

\* The front, up to and including k, is given back; it is settled.
Trim(k) ==
    /\ \A j \in stored : j <= k => j \in Settled
    /\ stored' = {j \in stored : j > k}
    /\ UNCHANGED <<accepted, acked, evicted, corrupt>>

\* The front is evicted, and recorded as such unless it was acknowledged.
Evict(k) ==
    /\ stored' = {j \in stored : j > k}
    /\ evicted' = evicted \cup ((stored \ stored') \ acked)
    /\ UNCHANGED <<accepted, acked, corrupt>>

Damage(i) ==
    /\ corrupt' = corrupt \cup {i}
    /\ UNCHANGED <<stored, accepted, acked, evicted>>

Next ==
    \E i \in Ids : Store(i) \/ Accept(i) \/ Ack(i) \/ Trim(i) \/ Evict(i) \/ Damage(i)

Spec == Init /\ [][Next]_vars
=============================================================================
