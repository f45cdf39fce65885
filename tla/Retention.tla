------------------------------- MODULE Retention -------------------------------
(***************************************************************************)
(* Data retention (modules/settings/data-retention.ts): rows of the          *)
(* notifications, and in the same way of the audit log, are deleted by age   *)
(* and then down to a maximum. Whoever writes a notification starts it, at   *)
(* most once per cooldown; the cleanup job starts it in any case.            *)
(*                                                                         *)
(* Rows are numbers in the order of their creation.                         *)
(***************************************************************************)
EXTENDS Integers, FiniteSets

CONSTANTS
    Pruners,   \* calls of pruneDataRetention
    MaxRows,   \* MAX_NOTIFICATION_ROWS, MAX_AUDIT_ROWS
    MaxRowIds  \* bound on the rows written

ASSUME RetentionAssumption == MaxRows \in Nat /\ MaxRowIds \in Nat

VARIABLES
    logRows,   \* the table
    nextRow,   \* the next row's number
    expired,   \* rows up to this one are past the retention
    cooling,   \* lastPruneAt is less than the cooldown ago
    inflight,  \* pruneInflight: the call whose work is shared, or none
    prune      \* per call, the step it stands at and what it has read

retentionVars == <<logRows, nextRow, expired, cooling, inflight, prune>>

NoPrune == [pc |-> "idle", overflow |-> 0, ids |-> {}]

RetentionInit ==
    /\ logRows = {} /\ nextRow = 1 /\ expired = 0 /\ cooling = FALSE
    /\ inflight = {}
    /\ prune = [p \in Pruners |-> NoPrune]

RowWritten ==
    /\ nextRow <= MaxRowIds
    /\ logRows' = logRows \cup {nextRow}
    /\ nextRow' = nextRow + 1
    /\ UNCHANGED <<expired, cooling, inflight, prune>>

\* Time passes: a row more is past the retention, the cooldown is over.
RowsAge ==
    \/ /\ expired + 1 < nextRow /\ expired' = expired + 1 /\ UNCHANGED cooling
       /\ UNCHANGED <<logRows, nextRow, inflight, prune>>
    \/ /\ cooling /\ cooling' = FALSE
       /\ UNCHANGED <<logRows, nextRow, expired, inflight, prune>>

\* The variant that does not wait for a call under way.
MayStartAgain(force) == force \/ ~cooling

\* A call within the cooldown returns at once unless it is forced; a call during another
\* one shares its result.
MayStart(force) == (force \/ ~cooling) /\ inflight = {}

PruneStarts(p) ==
    /\ prune[p].pc = "idle"
    /\ \E force \in BOOLEAN : MayStart(force)
    /\ inflight' = {p}
    /\ prune' = [prune EXCEPT ![p].pc = "age"]
    /\ UNCHANGED <<logRows, nextRow, expired, cooling>>

PruneByAge(p) ==
    /\ prune[p].pc = "age"
    /\ logRows' = {r \in logRows : r > expired}
    /\ prune' = [prune EXCEPT ![p].pc = "count"]
    /\ UNCHANGED <<nextRow, expired, cooling, inflight>>

\* The variant that does not ask whether there are too many.
PruneCountsUnchecked(p) ==
    /\ prune[p].pc = "count"
    /\ prune' = [prune EXCEPT ![p] = [NoPrune EXCEPT !.pc = "find",
                                                    !.overflow = Cardinality(logRows) - MaxRows]]
    /\ UNCHANGED <<logRows, nextRow, expired, cooling, inflight>>

\* capTable: count, find the oldest ones in excess, delete them.
PruneCounts(p) ==
    /\ prune[p].pc = "count"
    /\ LET count == Cardinality(logRows)
       IN  prune' = [prune EXCEPT ![p] = IF count <= MaxRows THEN [NoPrune EXCEPT !.pc = "done"]
                                         ELSE [NoPrune EXCEPT !.pc = "find",
                                                             !.overflow = count - MaxRows]]
    /\ UNCHANGED <<logRows, nextRow, expired, cooling, inflight>>

Oldest(n) == {r \in logRows : Cardinality({q \in logRows : q < r}) < n}

PruneFinds(p) ==
    /\ prune[p].pc = "find"
    /\ prune' = [prune EXCEPT ![p] =
                   [prune[p] EXCEPT !.pc = "delete", !.ids = Oldest(prune[p].overflow)]]
    /\ UNCHANGED <<logRows, nextRow, expired, cooling, inflight>>

PruneDeletes(p) ==
    /\ prune[p].pc = "delete"
    /\ logRows' = logRows \ prune[p].ids
    /\ prune' = [prune EXCEPT ![p] = [NoPrune EXCEPT !.pc = "done"]]
    /\ UNCHANGED <<nextRow, expired, cooling, inflight>>

\* The cooldown starts when the work is done, and not when a step of it has failed.
PruneEnds(p) ==
    /\ \/ prune[p].pc = "done" /\ cooling' = TRUE
       \/ prune[p].pc # "idle" /\ cooling' = cooling
    /\ prune' = [prune EXCEPT ![p] = NoPrune]
    /\ inflight' = {}
    /\ UNCHANGED <<logRows, nextRow, expired>>

RetentionNext ==
    \/ RowWritten
    \/ RowsAge
    \/ \E p \in Pruners : \/ PruneStarts(p) \/ PruneByAge(p) \/ PruneCounts(p)
                          \/ PruneFinds(p) \/ PruneDeletes(p) \/ PruneEnds(p)

RetentionSpec == RetentionInit /\ [][RetentionNext]_retentionVars

----------------------------------------------------------------------------
\* Rows and calls have their types (data-retention.ts:7).
RetentionTypeOK ==
    /\ logRows \subseteq 1 .. MaxRowIds
    /\ nextRow \in 1 .. MaxRowIds + 1 /\ expired \in 0 .. MaxRowIds
    /\ cooling \in BOOLEAN
    /\ inflight \subseteq Pruners
    /\ prune \in [Pruners -> [pc : {"idle", "age", "count", "find", "delete", "done"},
                              overflow : 0 .. MaxRowIds, ids : SUBSET (1 .. MaxRowIds)]]

\* Only rows past the retention and rows in excess of the maximum are ever deleted, and
\* of those the oldest, although the rows are counted, looked up and deleted in three
\* steps while others are written and other calls want to prune as well.
NewestRowsKept ==
    [][\A r \in logRows \ logRows' :
         r <= expired \/ Cardinality({q \in logRows : q > r}) >= MaxRows]_retentionVars
================================================================================
