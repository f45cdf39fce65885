----------------------------- MODULE LifetimeStats -----------------------------
(***************************************************************************)
(* The lifetime statistics (modules/dashboard/lifetime.service.ts): one row  *)
(* that is made when it is first needed, to which the healthcheck job adds   *)
(* samples and Docker's events their counts, each in two or three database   *)
(* calls that interleave.                                                   *)
(***************************************************************************)
EXTENDS Naturals, FiniteSets

CONSTANTS
    Recorders,  \* samples and events on their way to the row
    MaxRecords  \* bound on the records

ASSUME LifetimeAssumption == IsFiniteSet(Recorders) /\ MaxRecords \in Nat

VARIABLES
    lifetime,        \* the row: does it exist, samplesCount, containerStarts
    recorder,        \* per record, what it is, its step, and the samplesCount it read
    recordsStarted,  \* history: events and samples begun
    counted          \* history: events and samples the row should show

lifetimeVars == <<lifetime, recorder, recordsStarted, counted>>

RecordKinds == {"sample", "event"}
NoRecord == [pc |-> "idle", kind |-> "event", read |-> 0, alone |-> TRUE]

LifetimeInit ==
    /\ lifetime = [exists |-> FALSE, sample |-> 0, event |-> 0]
    /\ recorder = [r \in Recorders |-> NoRecord]
    /\ recordsStarted = 0
    /\ counted = [k \in RecordKinds |-> 0]

\* ensureRow begins: the row is looked up. Two samples on their way are not alone.
RecordBegins(r) ==
    /\ recorder[r].pc = "idle" /\ recordsStarted < MaxRecords
    /\ recordsStarted' = recordsStarted + 1
    /\ \E kind \in RecordKinds :
         LET others == {q \in Recorders \ {r} : recorder[q].pc # "idle"
                                                  /\ recorder[q].kind = "sample"}
             meets == kind = "sample" /\ others # {}
         IN  recorder' = [q \in Recorders |->
               CASE q = r -> [pc |-> IF lifetime.exists THEN "writes" ELSE "creates",
                              kind |-> kind, read |-> lifetime.sample, alone |-> ~meets]
                 [] q \in others /\ meets -> [recorder[q] EXCEPT !.alone = FALSE]
                 [] OTHER -> recorder[q]]
    /\ UNCHANGED <<lifetime, counted>>

\* The row is created, unless somebody has done so meanwhile: then the record fails on
\* the lifetime's key.
RecordCreates(r) ==
    /\ recorder[r].pc = "creates"
    /\ lifetime' = [lifetime EXCEPT !.exists = TRUE]
    /\ recorder' = [recorder EXCEPT ![r] = IF lifetime.exists THEN NoRecord
                                           ELSE [@ EXCEPT !.pc = "writes"]]
    /\ UNCHANGED <<recordsStarted, counted>>

\* The variant in which a sample writes the whole row and forgets the events.
WithWholeRow(r) ==
    IF recorder[r].kind = "event" THEN [lifetime EXCEPT !.event = @ + 1]
    ELSE [lifetime EXCEPT !.sample = recorder[r].read + 1, !.event = 0]

\* An event adds one in the database; a sample writes the columns of the samples from
\* what it has read.
WithRecord(r) ==
    IF recorder[r].kind = "event" THEN [lifetime EXCEPT !.event = @ + 1]
    ELSE [lifetime EXCEPT !.sample = recorder[r].read + 1]

\* Samples that overlap are outside what `counted` promises: one of them may be lost.
RecordWrites(r) ==
    /\ recorder[r].pc = "writes"
    /\ lifetime' = WithRecord(r)
    /\ recorder' = [recorder EXCEPT ![r] = NoRecord]
    /\ counted' = IF recorder[r].kind = "sample" /\ ~recorder[r].alone
                  THEN [counted EXCEPT !["sample"] = recorder[r].read + 1]
                  ELSE [counted EXCEPT ![recorder[r].kind] = @ + 1]
    /\ UNCHANGED recordsStarted

LifetimeNext ==
    \E r \in Recorders : RecordBegins(r) \/ RecordCreates(r) \/ RecordWrites(r)

LifetimeSpec == LifetimeInit /\ [][LifetimeNext]_lifetimeVars

----------------------------------------------------------------------------
\* The row and the records have their types (lifetime.service.ts:14).
LifetimeTypeOK ==
    /\ lifetime \in [exists : BOOLEAN, sample : 0 .. MaxRecords, event : 0 .. MaxRecords]
    /\ recorder \in [Recorders -> [pc : {"idle", "creates", "writes"}, kind : RecordKinds,
                                   read : 0 .. MaxRecords, alone : BOOLEAN]]
    /\ recordsStarted \in 0 .. MaxRecords
    /\ counted \in [RecordKinds -> 0 .. MaxRecords]

\* The row counts every event that got as far as writing, whatever samples were read
\* before and written after it, and every sample that did not overlap another one. An
\* event that fails because two records create the row at once is not counted
\* (lifetime.service.ts:187).
RecordsCounted == lifetime.event = counted["event"] /\ lifetime.sample = counted["sample"]
================================================================================
