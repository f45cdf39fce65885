-------------------------------- MODULE FifoLock --------------------------------
(***************************************************************************)
(* What a per-project lock promises: callers of a key are served one at a  *)
(* time, in the order in which they asked.  ProjectLock implements it.     *)
(***************************************************************************)
EXTENDS Sequences

CONSTANTS Calls, Keys

VARIABLES
    queue,      \* [Keys -> Seq(Calls)]: who holds the lock or waits for it
    holding     \* the calls that hold the lock of their key

fifoVars == <<queue, holding>>

Init ==
    /\ queue = [k \in Keys |-> <<>>]
    /\ holding = {}

Request(c, k) ==
    /\ \A j \in Keys : \A i \in DOMAIN queue[j] : queue[j][i] # c
    /\ queue' = [queue EXCEPT ![k] = Append(@, c)]
    /\ UNCHANGED holding

Grant(k) ==
    /\ queue[k] # <<>>
    /\ Head(queue[k]) \notin holding
    /\ holding' = holding \cup {Head(queue[k])}
    /\ UNCHANGED queue

Return(k) ==
    /\ queue[k] # <<>>
    /\ Head(queue[k]) \in holding
    /\ holding' = holding \ {Head(queue[k])}
    /\ queue' = [queue EXCEPT ![k] = Tail(@)]

Next == \E k \in Keys : (\E c \in Calls : Request(c, k)) \/ Grant(k) \/ Return(k)

Spec == Init /\ [][Next]_fifoVars

\* Whoever has asked is served one day.
Asked(c) == \E k \in Keys : \E i \in DOMAIN queue[k] : queue[k][i] = c
FairSpec == Spec /\ \A c \in Calls : Asked(c) ~> c \in holding
================================================================================
