------------------------------- MODULE MCWal -------------------------------
(* Wal for TLC: the directory's promise as an abstract specification.       *)
EXTENDS Wal

\* The queue of records a reopen would find, as DurableFifo sees it.
Promise == INSTANCE DurableFifo WITH stored <- IdsOf(Recoverable)

\* Every step of the segment files, cursor and index is a step of the abstract
\* queue or invisible to it: records leave from the front, only when
\* acknowledged, evicted at capacity or damaged, and crashes change nothing.
KeepsPromise == Promise!Spec
=============================================================================
