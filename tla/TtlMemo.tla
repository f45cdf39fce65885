-------------------------------- MODULE TtlMemo --------------------------------
(***************************************************************************)
(* createTtlMemo (infrastructure/cache/ttl-memo.ts): the last result is kept *)
(* for a time, and requests made while one is under way share it. A memo is  *)
(* a record: is a value held, the value, the ticks since it was stored, and  *)
(* the request under way (by, empty or one).                                *)
(***************************************************************************)
EXTENDS Naturals

EmptyMemo(v) == [held |-> FALSE, value |-> v, age |-> 0, by |-> {}]

MemoFresh(m, ttl) == m.held /\ m.age < ttl
MemoShared(m, ttl) == ~MemoFresh(m, ttl) /\ m.by # {}

MemoSent(m, r) == [m EXCEPT !.by = {r}]

\* A result is stored and the request under way forgotten, even if clear() came between
\* and another one has been sent since: neither looks whose turn it is.
MemoFilled(m, v) == [held |-> TRUE, value |-> v, age |-> 0, by |-> {}]
MemoFailed(m) == [m EXCEPT !.by = {}]

\* clear() forgets the value and the request under way, which it cannot stop.
MemoCleared(m) == EmptyMemo(m.value)

MemoOlder(m, ttl) == IF m.held /\ m.age < ttl THEN [m EXCEPT !.age = @ + 1] ELSE m
================================================================================
