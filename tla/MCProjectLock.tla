----------------------------- MODULE MCProjectLock -----------------------------
(***************************************************************************)
(* ProjectLock on a few calls, and the refinement of FifoLock.             *)
(***************************************************************************)
EXTENDS ProjectLock, Sequences

\* The calls of a key that are queued from call c on, c last: c's chain is
\* behind prev[c], and the walk ends at a chain that has resolved.
Line[c \in Calls \cup {NoCall}] ==
    IF ChainResolved(c) THEN <<>> ELSE Append(Line[prev[c]], c)

queueOf == [k \in Keys |-> Line[projectChains[k]]]
holders == {c \in Calls : lockState[c] = "running"}

Fifo == INSTANCE FifoLock WITH queue <- queueOf, holding <- holders

\* The promise chain serves the calls of a project in the order in which they
\* were made, and all of them: withProjectLock (compose.service.ts:62) implements the
\* fair FIFO lock.
ServesInOrder == Fifo!FairSpec
================================================================================
