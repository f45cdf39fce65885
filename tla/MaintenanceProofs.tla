---------------------------- MODULE MaintenanceProofs ----------------------------
(***************************************************************************)
(* What the server does beside its requests: the lifetime statistics, the    *)
(* alerts of the healthcheck job, the pruning of the tables, plugins, and     *)
(* backups with their restores. The page of a Compose project, whose saves    *)
(* meet what others write; the boxes of the departments and the order of the  *)
(* apps on the desktop. And that all of them keep their types side by side.   *)
(***************************************************************************)
EXTENDS MCMaintenance, FiniteSetTheorems, SequenceTheorems, WellFoundedInduction, TLAPS

--------------------------------------------------------------------------------
\* The lifetime statistics

LifetimeTypes ==
    /\ lifetime \in [exists : BOOLEAN, sample : Nat, event : Nat]
    /\ recorder \in [Recorders -> [pc : {"idle", "creates", "writes"}, kind : RecordKinds,
                                   read : Nat, alone : BOOLEAN]]
    /\ counted \in [RecordKinds -> Nat]

\* A sample under way.
Sampling(r) == recorder[r].pc # "idle" /\ recorder[r].kind = "sample"

\* A sample that met no other one has read what the row still shows.
ReadStands(r) ==
    Sampling(r) /\ recorder[r].alone =>
      /\ recorder[r].read = lifetime.sample
      /\ \A q \in Recorders \ {r} : ~Sampling(q)

LifetimeIInv == LifetimeTypes /\ (\A r \in Recorders : ReadStands(r)) /\ RecordsCounted

LEMMA LifetimeStart == LifetimeInit => LifetimeIInv
BY DEF LifetimeInit, LifetimeIInv, LifetimeTypes, ReadStands, Sampling, RecordsCounted,
       NoRecord, RecordKinds

LEMMA LifetimeStep ==
    ASSUME LifetimeIInv, [LifetimeNext]_lifetimeVars
    PROVE  LifetimeIInv'
<1> USE DEF LifetimeIInv
<1> DEFINE Records == [pc : {"idle", "creates", "writes"}, kind : RecordKinds,
                       read : Nat, alone : BOOLEAN]
<1>0. NoRecord \in Records /\ NoRecord.pc = "idle"
  BY DEF NoRecord, RecordKinds
<1>1. CASE UNCHANGED lifetimeVars
  BY <1>1 DEF lifetimeVars, LifetimeTypes, ReadStands, Sampling, RecordsCounted
<1>2. ASSUME NEW r \in Recorders, RecordBegins(r)
      PROVE  LifetimeIInv'
  <2>1. PICK kind \in RecordKinds :
          LET others == {q \in Recorders \ {r} : recorder[q].pc # "idle"
                                                   /\ recorder[q].kind = "sample"}
              meets == kind = "sample" /\ others # {}
          IN  recorder' = [q \in Recorders |->
                CASE q = r -> [pc |-> IF lifetime.exists THEN "writes" ELSE "creates",
                               kind |-> kind, read |-> lifetime.sample, alone |-> ~meets]
                  [] q \in others /\ meets -> [recorder[q] EXCEPT !.alone = FALSE]
                  [] OTHER -> recorder[q]]
    BY <1>2 DEF RecordBegins
  <2> DEFINE others == {q \in Recorders \ {r} : Sampling(q)}
             meets == kind = "sample" /\ others # {}
             record == [pc |-> IF lifetime.exists THEN "writes" ELSE "creates",
                        kind |-> kind, read |-> lifetime.sample, alone |-> ~meets]
  <2>2. recorder' = [q \in Recorders |->
                CASE q = r -> record
                  [] q \in others /\ meets -> [recorder[q] EXCEPT !.alone = FALSE]
                  [] OTHER -> recorder[q]]
    BY <2>1 DEF Sampling
  <2>3. record \in Records /\ record.pc # "idle" /\ record.kind = kind
        /\ record.read = lifetime.sample /\ (record.alone <=> ~meets)
    BY DEF LifetimeTypes
  <2>4. recorder'[r] = record
    BY <2>2
  <2>5. ASSUME NEW q \in Recorders \ {r}
        PROVE  /\ recorder'[q] \in Records /\ recorder'[q].pc = recorder[q].pc
               /\ recorder'[q].kind = recorder[q].kind /\ recorder'[q].read = recorder[q].read
               /\ Sampling(q) /\ kind = "sample" => ~recorder'[q].alone
               /\ recorder'[q].alone => recorder[q].alone
    <3>1. recorder[q] \in Records
      BY DEF LifetimeTypes
    <3>2. CASE q \in others /\ meets
      <4>1. recorder'[q] = [recorder[q] EXCEPT !.alone = FALSE]
        BY <2>2, <3>2
      <4> QED
        BY <3>1, <4>1
    <3>3. CASE ~(q \in others /\ meets)
      <4>1. recorder'[q] = recorder[q]
        BY <2>2, <3>3
      <4>2. ~(Sampling(q) /\ kind = "sample")
        BY <3>3
      <4> QED
        BY <3>1, <4>1, <4>2
    <3> QED
      BY <3>2, <3>3
  <2>6. UNCHANGED <<lifetime, counted>>
    BY <1>2 DEF RecordBegins
  <2>7. recorder' \in [Recorders -> Records]
    BY <2>2, <2>3, <2>4, <2>5
  <2>8. LifetimeTypes' /\ RecordsCounted'
    BY <2>6, <2>7 DEF LifetimeTypes, RecordsCounted
  <2>9. ReadStands(r)'
    <3>1. ASSUME kind = "sample", ~meets, NEW q \in Recorders \ {r}
          PROVE  ~Sampling(q)
      BY <3>1
    <3> HIDE DEF record, meets, others
    <3> QED
      BY <2>3, <2>4, <2>5, <2>6, <3>1 DEF ReadStands, Sampling
  <2>10. ASSUME NEW q \in Recorders \ {r}
         PROVE  ReadStands(q)'
    <3> HIDE DEF record, meets, others
    <3>1. ASSUME NEW p \in Recorders, recorder'[p].pc # "idle", recorder'[p].kind = "sample"
          PROVE  Sampling(p) \/ (p = r /\ kind = "sample")
      BY <2>3, <2>4, <2>5, <3>1 DEF Sampling
    <3> SUFFICES ASSUME recorder'[q].pc # "idle", recorder'[q].kind = "sample", recorder'[q].alone
                 PROVE  /\ recorder'[q].read = lifetime'.sample
                        /\ \A p \in Recorders \ {q} :
                             ~(recorder'[p].pc # "idle" /\ recorder'[p].kind = "sample")
      BY DEF ReadStands, Sampling
    <3>2. Sampling(q) /\ recorder[q].alone /\ kind # "sample"
      BY <2>5 DEF Sampling
    <3> QED
      BY <2>5, <2>6, <3>1, <3>2 DEF ReadStands
  <2> QED
    BY <2>8, <2>9, <2>10
\* The row's samples stay, and the record goes on or is over.
<1>3. ASSUME NEW r \in Recorders, RecordCreates(r)
      PROVE  LifetimeIInv'
  <2>1. recorder[r] \in Records /\ recorder[r].pc = "creates"
    BY <1>3 DEF RecordCreates, LifetimeTypes
  <2>2. PICK record \in {NoRecord, [recorder[r] EXCEPT !.pc = "writes"]} :
          recorder' = [recorder EXCEPT ![r] = record]
    BY <1>3 DEF RecordCreates
  <2>3. /\ record \in Records
        /\ record.pc # "idle" =>
             /\ record.kind = recorder[r].kind /\ record.read = recorder[r].read
             /\ record.alone = recorder[r].alone
    BY <1>0, <2>1, <2>2
  <2>4. /\ lifetime' \in [exists : BOOLEAN, sample : Nat, event : Nat]
        /\ lifetime'.sample = lifetime.sample /\ lifetime'.event = lifetime.event
        /\ counted' = counted
    BY <1>3 DEF RecordCreates, LifetimeTypes
  <2>5. recorder' \in [Recorders -> Records] /\ recorder'[r] = record
    BY <2>2, <2>3 DEF LifetimeTypes
  <2>6. LifetimeTypes' /\ RecordsCounted'
    BY <2>4, <2>5 DEF LifetimeTypes, RecordsCounted
  <2>7. \A q \in Recorders : recorder'[q].pc # "idle" =>
          /\ recorder[q].pc # "idle" /\ recorder'[q].kind = recorder[q].kind
          /\ recorder'[q].read = recorder[q].read /\ recorder'[q].alone = recorder[q].alone
    BY <2>1, <2>2, <2>3, <2>5 DEF LifetimeTypes
  <2> QED
    BY <2>4, <2>6, <2>7 DEF ReadStands, Sampling
\* The last record that may count on the row's samples, if it writes them.
<1>4. ASSUME NEW r \in Recorders, RecordWrites(r)
      PROVE  LifetimeIInv'
  <2> DEFINE record == recorder[r]
  <2>1. record \in Records /\ record.pc = "writes"
    BY <1>4 DEF RecordWrites, LifetimeTypes
  <2>2. recorder' \in [Recorders -> Records] /\ recorder' = [recorder EXCEPT ![r] = NoRecord]
    BY <1>0, <1>4 DEF RecordWrites, LifetimeTypes
  <2>3. /\ \A q \in Recorders : recorder'[q].pc # "idle" => q # r /\ recorder'[q] = recorder[q]
    BY <1>0, <2>2 DEF LifetimeTypes
  <2>4. CASE record.kind = "event"
    <3>1. /\ lifetime' = [lifetime EXCEPT !.event = @ + 1]
          /\ counted' = [counted EXCEPT !["event"] = @ + 1]
      BY <1>4, <2>4 DEF RecordWrites, WithRecord
    <3>2. LifetimeTypes' /\ RecordsCounted' /\ lifetime'.sample = lifetime.sample
      BY <2>2, <3>1 DEF LifetimeTypes, RecordsCounted, RecordKinds
    <3> QED
      BY <2>3, <3>2 DEF ReadStands, Sampling
  <2>5. CASE record.kind = "sample"
    <3>1. lifetime' = [lifetime EXCEPT !.sample = record.read + 1]
      BY <1>4, <2>5 DEF RecordWrites, WithRecord
    <3>2. counted' = [counted EXCEPT !["sample"] = record.read + 1]
      <4>1. CASE ~record.alone
        BY <1>4, <2>5, <4>1 DEF RecordWrites
      <4>2. CASE record.alone
        <5>1. record.read = counted["sample"]
          BY <2>1, <2>5, <4>2 DEF ReadStands, Sampling, RecordsCounted
        <5> QED
          BY <1>4, <2>5, <4>2, <5>1 DEF RecordWrites
      <4> QED
        BY <4>1, <4>2
    <3>3. LifetimeTypes' /\ RecordsCounted'
      BY <2>1, <2>2, <3>1, <3>2 DEF LifetimeTypes, RecordsCounted, RecordKinds
    <3>4. \A q \in Recorders : recorder'[q].pc # "idle" /\ recorder'[q].kind = "sample" =>
            ~recorder'[q].alone
      BY <2>1, <2>3, <2>5 DEF ReadStands, Sampling
    <3> QED
      BY <3>3, <3>4 DEF ReadStands, Sampling
  <2> QED
    BY <2>1, <2>4, <2>5 DEF RecordKinds
<1> QED
  BY <1>1, <1>2, <1>3, <1>4 DEF LifetimeNext

\* However many records interleave, the row of the lifetime statistics shows every event that
\* was written and every sample that overlapped no other one (lifetime.service.ts:187).
THEOREM EventsAndSamplesCounted == LifetimeSpec => []RecordsCounted
<1>1. LifetimeIInv => RecordsCounted
  BY DEF LifetimeIInv
<1> QED
  BY <1>1, LifetimeStart, LifetimeStep, PTL DEF LifetimeSpec

\* The records under way.
UnderWay == {r \in Recorders : recorder[r].pc # "idle"}

\* Each number of samples that the row shows, or that a record has read and may write with one
\* added, leaves room for the events counted and for the records under way: a record was begun
\* for each of them.
LeavesRoom(samples) ==
    samples + lifetime.event + Cardinality(UnderWay) <= recordsStarted

RecordsFit ==
    /\ recordsStarted \in 0 .. MaxRecords
    /\ LeavesRoom(lifetime.sample)
    /\ \A r \in Recorders : LeavesRoom(recorder[r].read)

LEMMA RecordsUnderWay ==
    IsFiniteSet(UnderWay) /\ Cardinality(UnderWay) \in Nat
<1>1. UnderWay \subseteq Recorders
  BY DEF UnderWay
<1> QED
  BY <1>1, LifetimeAssumption, FS_Subset, FS_CardinalityType

LEMMA RecordsStayFit ==
    ASSUME LifetimeIInv, LifetimeIInv', RecordsFit, [LifetimeNext]_lifetimeVars
    PROVE  RecordsFit'
<1> DEFINE Numbered == [pc : {"idle", "creates", "writes"}, kind : RecordKinds,
                        read : Nat, alone : BOOLEAN]
           n == Cardinality(UnderWay)
<1>0. /\ n \in Nat /\ IsFiniteSet(UnderWay) /\ MaxRecords \in Nat
      /\ lifetime.sample \in Nat /\ lifetime.event \in Nat
      /\ lifetime'.sample \in Nat /\ lifetime'.event \in Nat
      /\ recorder \in [Recorders -> Numbered] /\ recorder' \in [Recorders -> Numbered]
  BY RecordsUnderWay, LifetimeAssumption DEF LifetimeIInv, LifetimeTypes
<1>1. CASE UNCHANGED lifetimeVars
  BY <1>1 DEF lifetimeVars, RecordsFit, LeavesRoom, UnderWay
<1>2. ASSUME NEW r \in Recorders, RecordBegins(r)
      PROVE  RecordsFit'
  <2>1. /\ recorder[r].pc = "idle" /\ recordsStarted < MaxRecords
        /\ recordsStarted' = recordsStarted + 1 /\ lifetime' = lifetime
    BY <1>2 DEF RecordBegins
  <2>2. /\ recorder'[r].pc # "idle" /\ recorder'[r].read = lifetime.sample
        /\ \A q \in Recorders \ {r} :
             recorder'[q].pc = recorder[q].pc /\ recorder'[q].read = recorder[q].read
    BY <1>0, <1>2 DEF RecordBegins
  <2>3. UnderWay' = UnderWay \cup {r} /\ r \notin UnderWay
    BY <2>1, <2>2 DEF UnderWay
  <2>4. Cardinality(UnderWay') = n + 1
    BY <1>0, <2>3, FS_AddElement
  <2>5. LeavesRoom(lifetime.sample)'
    BY <1>0, <2>1, <2>4 DEF RecordsFit, LeavesRoom
  <2>6. ASSUME NEW q \in Recorders \ {r}
        PROVE  LeavesRoom(recorder[q].read)'
    <3>1. recorder[q].read \in Nat
      BY <1>0
    <3> QED
      BY <1>0, <2>1, <2>2, <2>4, <3>1 DEF RecordsFit, LeavesRoom
  <2>7. LeavesRoom(recorder[r].read)'
    BY <2>1, <2>2, <2>5 DEF LeavesRoom
  <2> QED
    BY <1>0, <2>1, <2>5, <2>6, <2>7 DEF RecordsFit, LeavesRoom
\* A record that is over makes room for what it writes.
<1>3. ASSUME NEW r \in Recorders, recorder[r].pc # "idle",
             recorder' = [recorder EXCEPT ![r] = NoRecord],
             recordsStarted' = recordsStarted,
             \/ lifetime'.sample = lifetime.sample /\ lifetime'.event = lifetime.event
             \/ lifetime'.sample = lifetime.sample /\ lifetime'.event = lifetime.event + 1
             \/ /\ lifetime'.sample = recorder[r].read + 1 /\ lifetime'.event = lifetime.event
      PROVE  RecordsFit'
  <2>1. /\ recorder'[r].pc = "idle" /\ recorder'[r].read = 0
        /\ \A q \in Recorders \ {r} : recorder'[q] = recorder[q]
    BY <1>0, <1>3 DEF NoRecord
  <2>2. UnderWay' = UnderWay \ {r} /\ r \in UnderWay
    BY <1>3, <2>1 DEF UnderWay
  <2>3. Cardinality(UnderWay') = n - 1 /\ Cardinality(UnderWay') \in Nat
    <3>1. IsFiniteSet(UnderWay') /\ Cardinality(UnderWay') = n - 1
      BY <1>0, <2>2, FS_RemoveElement
    <3> QED
      BY <3>1, FS_CardinalityType
  <2> DEFINE m == Cardinality(UnderWay')
  <2>4. ASSUME NEW q \in Recorders
        PROVE  recorder[q].read \in Nat /\ LeavesRoom(recorder[q].read)
    BY <1>0 DEF RecordsFit
  <2>5. LeavesRoom(lifetime.sample) /\ recordsStarted \in Nat
    BY <1>0 DEF RecordsFit
  <2>6. lifetime'.sample + lifetime'.event + m <= recordsStarted
    <3> HIDE DEF m, n
    <3>1. m = n - 1
      BY <2>3 DEF m, n
    <3>2. /\ lifetime.sample + lifetime.event + n <= recordsStarted
          /\ recorder[r].read + lifetime.event + n <= recordsStarted
      BY <2>4, <2>5 DEF LeavesRoom, n
    <3> QED
      BY <1>0, <1>3, <2>4, <2>5, <3>1, <3>2
  <2>7. lifetime'.event \in {lifetime.event, lifetime.event + 1}
    BY <1>3
  <2>8. ASSUME NEW q \in Recorders
        PROVE  LeavesRoom(recorder[q].read)'
    <3>1. recorder'[q].read \in Nat
      BY <1>0
    <3>2. recorder'[q].read = 0 \/ recorder'[q].read = recorder[q].read
      BY <2>1
    <3>3. recorder[q].read + lifetime.event + n <= recordsStarted
      BY <2>4 DEF LeavesRoom
    <3> HIDE DEF m, n
    <3>4. m = n - 1
      BY <2>3 DEF m, n
    <3>5. recorder'[q].read + lifetime'.event + m <= recordsStarted
      BY <1>0, <2>4, <2>5, <2>7, <3>2, <3>3, <3>4
    <3> QED
      BY <1>3, <3>5 DEF LeavesRoom, m
  <2> QED
    BY <1>3, <2>6, <2>8 DEF RecordsFit, LeavesRoom
<1>4. ASSUME NEW r \in Recorders, RecordCreates(r)
      PROVE  RecordsFit'
  <2>1. /\ recorder[r].pc = "creates" /\ recordsStarted' = recordsStarted
        /\ lifetime'.sample = lifetime.sample /\ lifetime'.event = lifetime.event
    BY <1>4 DEF RecordCreates, LifetimeIInv, LifetimeTypes
  <2>2. CASE recorder' = [recorder EXCEPT ![r] = NoRecord]
    BY <1>3, <2>1, <2>2
  <2>3. CASE recorder' = [recorder EXCEPT ![r] = [recorder[r] EXCEPT !.pc = "writes"]]
    <3>1. /\ recorder'[r].pc = "writes" /\ recorder'[r].read = recorder[r].read
          /\ \A q \in Recorders \ {r} : recorder'[q] = recorder[q]
      BY <1>0, <2>3
    <3>2. UnderWay' = UnderWay
      BY <2>1, <3>1 DEF UnderWay
    <3>3. \A q \in Recorders : recorder'[q].read = recorder[q].read
      BY <3>1
    <3> QED
      BY <2>1, <3>2, <3>3 DEF RecordsFit, LeavesRoom
  <2> QED
    BY <1>4, <2>2, <2>3 DEF RecordCreates
<1>5. ASSUME NEW r \in Recorders, RecordWrites(r)
      PROVE  RecordsFit'
  <2>1. /\ recorder[r].pc # "idle" /\ recordsStarted' = recordsStarted
        /\ recorder' = [recorder EXCEPT ![r] = NoRecord] /\ lifetime' = WithRecord(r)
    BY <1>5 DEF RecordWrites
  <2>2. \/ lifetime'.sample = lifetime.sample /\ lifetime'.event = lifetime.event + 1
        \/ lifetime'.sample = recorder[r].read + 1 /\ lifetime'.event = lifetime.event
    BY <2>1 DEF WithRecord, LifetimeIInv, LifetimeTypes
  <2> QED
    BY <1>3, <2>1, <2>2
<1> QED
  BY <1>1, <1>2, <1>4, <1>5 DEF LifetimeNext

\* The row and the records keep their types: no overlap of records makes the row show more
\* events or samples than were begun (lifetime.service.ts:14).
THEOREM LifetimeTypesStay == LifetimeSpec => []LifetimeTypeOK
<1>1. LifetimeInit => RecordsFit
  <2> SUFFICES ASSUME LifetimeInit PROVE RecordsFit
    OBVIOUS
  <2>1. UnderWay = {}
    BY DEF LifetimeInit, UnderWay, NoRecord
  <2> QED
    BY <2>1, FS_EmptySet, LifetimeAssumption
    DEF LifetimeInit, RecordsFit, LeavesRoom, NoRecord
<1>2. LifetimeIInv /\ RecordsFit => LifetimeTypeOK
  <2> SUFFICES ASSUME LifetimeIInv, RecordsFit PROVE LifetimeTypeOK
    OBVIOUS
  <2> DEFINE n == Cardinality(UnderWay)
             Bounded == 0 .. MaxRecords
  <2>1. n \in Nat /\ recordsStarted \in Bounded /\ recordsStarted \in Nat
    BY RecordsUnderWay DEF RecordsFit
  <2> HIDE DEF n
  <2>2. ASSUME NEW samples \in Nat, LeavesRoom(samples)
        PROVE  samples \in Bounded /\ lifetime.event \in Bounded
    <3>1. samples + lifetime.event + n <= recordsStarted /\ lifetime.event \in Nat
      BY <2>2 DEF LeavesRoom, n, LifetimeIInv, LifetimeTypes
    <3> QED
      BY <2>1, <3>1, LifetimeAssumption DEF RecordsFit
  <2>3. lifetime.sample \in Bounded /\ lifetime.event \in Bounded
    BY <2>2 DEF RecordsFit, LifetimeIInv, LifetimeTypes
  <2>4. \A r \in Recorders : recorder[r].read \in Bounded
    BY <2>2 DEF RecordsFit, LifetimeIInv, LifetimeTypes
  <2> HIDE DEF Bounded
  <2>5. lifetime \in [exists : BOOLEAN, sample : Bounded, event : Bounded]
    BY <2>3 DEF LifetimeIInv, LifetimeTypes
  <2>6. recorder \in [Recorders -> [pc : {"idle", "creates", "writes"}, kind : RecordKinds,
                                    read : Bounded, alone : BOOLEAN]]
    BY <2>4 DEF LifetimeIInv, LifetimeTypes
  <2>7. counted \in [RecordKinds -> Bounded]
    BY <2>3 DEF LifetimeIInv, LifetimeTypes, RecordsCounted, RecordKinds
  <2> QED
    BY <2>1, <2>5, <2>6, <2>7 DEF LifetimeTypeOK, Bounded
<1> QED
  BY <1>1, <1>2, LifetimeStart, LifetimeStep, RecordsStayFit, PTL DEF LifetimeSpec

--------------------------------------------------------------------------------
\* Alerts

\* The fingerprint of an alert was let through no earlier than what the alert is about.
AlertsIInv ==
    /\ active \subseteq AlertTexts
    /\ lastSentAt \in [Fingerprints -> Ages]
    /\ healthCheck \in [HealthChecks ->
         [pc : {"idle", "reads", "prunes", "filters", "notifies"}, alerts : SUBSET AlertTexts]]
    /\ decided \in [Subjects -> Ages]
    /\ \A a \in AlertTexts : lastSentAt[Fingerprint(a)] <= decided[Subject(a)]
    /\ NoRepeatedAlert

LEMMA TextsAndSubjects ==
    ASSUME NEW a \in AlertTexts
    PROVE  /\ Fingerprint(a) \in Fingerprints /\ Subject(a) \in Subjects
           /\ \A b \in AlertTexts : Subject(a) = Subject(b) => Fingerprint(a) = Fingerprint(b)
<1>1. Fingerprint(a) \in Fingerprints
  BY DEF AlertTexts, Fingerprint, Fingerprints
<1>2. Subject(a) \in Subjects
  BY DEF Subjects
<1>3. \A b \in AlertTexts : Subject(b)[1] = b[1]
  BY DEF Subject, AlertTexts
<1> QED
  BY <1>1, <1>2, <1>3 DEF Fingerprint

LEMMA AlertsStart == AlertsInit => AlertsIInv
<1> SUFFICES ASSUME AlertsInit PROVE AlertsIInv
  OBVIOUS
<1>1. Never \in Ages /\ Never \in Nat
  BY AlertsAssumption DEF Never, Ages
<1>2. lastSentAt \in [Fingerprints -> Ages] /\ decided \in [Subjects -> Ages]
  BY <1>1 DEF AlertsInit
<1>3. \A a \in AlertTexts : lastSentAt[Fingerprint(a)] <= decided[Subject(a)]
  BY <1>1, TextsAndSubjects DEF AlertsInit
<1> QED
  BY <1>2, <1>3 DEF AlertsInit, AlertsIInv, NotRunning, NoRepeatedAlert

LEMMA AlertsStep ==
    ASSUME AlertsIInv, [AlertsNext]_alertsVars
    PROVE  AlertsIInv'
<1> USE DEF AlertsIInv
<1> DEFINE Runs == [pc : {"idle", "reads", "prunes", "filters", "notifies"},
                    alerts : SUBSET AlertTexts]
<1>0. NotRunning \in Runs
  BY DEF NotRunning
\* What was sent and decided stays.
<1>1. ASSUME UNCHANGED <<lastSentAt, decided, wrong>>, active' \subseteq AlertTexts,
             healthCheck' \in [HealthChecks -> Runs]
      PROVE  AlertsIInv'
  BY <1>1 DEF NoRepeatedAlert
<1>2. CASE UNCHANGED alertsVars
  BY <1>1, <1>2 DEF alertsVars
<1>3. CASE ConditionsChange
  BY <1>1, <1>3 DEF ConditionsChange
<1>4. ASSUME NEW c \in HealthChecks,
             \/ CheckBegins(c) \/ CheckReads(c) \/ CheckFails(c)
             \/ CachePruned(c) \/ CachePruneFails(c) \/ Notifies(c)
      PROVE  AlertsIInv'
  <2>1. healthCheck[c] \in Runs
    OBVIOUS
  <2>2. PICK run : healthCheck' = [healthCheck EXCEPT ![c] = run] /\ run \in Runs
    <3>1. CASE CheckBegins(c) \/ CachePruneFails(c)
      BY <2>1, <3>1 DEF CheckBegins, CachePruneFails
    <3>2. CASE CheckReads(c)
      <4> DEFINE read == [pc |-> IF OfCache(active) # {} THEN "prunes" ELSE "filters",
                          alerts |-> active]
      <4>1. read \in Runs
        OBVIOUS
      <4> QED
        BY <3>2, <4>1 DEF CheckReads
    <3>3. CASE CachePruned(c)
      <4> DEFINE alerts == healthCheck[c].alerts
                 pruned == [pc |-> "filters", alerts |-> alerts \ OfCache(alerts)]
      <4>1. pruned \in Runs
        BY <2>1
      <4>2. healthCheck' = [healthCheck EXCEPT ![c] = pruned]
        BY <3>3 DEF CachePruned
      <4> QED
        BY <4>1, <4>2
    <3>4. CASE CheckFails(c) \/ Notifies(c)
      BY <1>0, <3>4 DEF CheckFails, Notifies
    <3> QED
      BY <1>4, <3>1, <3>2, <3>3, <3>4
  <2>3. UNCHANGED <<lastSentAt, decided, wrong>> /\ active' \subseteq AlertTexts
    BY <1>4 DEF CheckBegins, CheckReads, CheckFails, CachePruned, CachePruneFails, Notifies
  <2> QED
    BY <1>1, <2>2, <2>3
<1>5. ASSUME NEW c \in HealthChecks, CheckFilters(c)
      PROVE  AlertsIInv'
  <2>1. PICK chosen \in Chosen(healthCheck[c].alerts) :
          LET through == Through(chosen)
          IN  /\ lastSentAt' = Noted(through)
              /\ decided' = [s \in Subjects |-> IF s \in {Subject(a) : a \in through} THEN 0
                                                ELSE decided[s]]
              /\ wrong' = wrong
                   \cup (IF Repeated(through) THEN {"repeated"} ELSE {})
                   \cup (IF Swallowed(healthCheck[c].alerts \ through, through)
                         THEN {"swallowed"} ELSE {})
              /\ healthCheck' = [healthCheck EXCEPT ![c] = IF through = {} THEN NotRunning
                                               ELSE [pc |-> "notifies", alerts |-> through]]
    BY <1>5 DEF CheckFilters
  <2> DEFINE through == Through(chosen)
  <2>2. through \subseteq AlertTexts /\ \A a \in through : ~CoolingDown(Fingerprint(a))
    BY DEF Chosen, Through
  <2>3. /\ lastSentAt' = Noted(through)
        /\ decided' = [s \in Subjects |-> IF s \in {Subject(a) : a \in through} THEN 0
                                          ELSE decided[s]]
        /\ wrong' \subseteq wrong \cup (IF Repeated(through) THEN {"repeated"} ELSE {})
                                  \cup {"swallowed"}
        /\ healthCheck' = [healthCheck EXCEPT ![c] = IF through = {} THEN NotRunning
                                         ELSE [pc |-> "notifies", alerts |-> through]]
        /\ UNCHANGED active
    BY <1>5, <2>1 DEF CheckFilters
  <2> HIDE DEF through
  <2>4. ASSUME NEW a \in AlertTexts
        PROVE  /\ lastSentAt[Fingerprint(a)] \in Nat /\ decided[Subject(a)] \in Nat
               /\ lastSentAt[Fingerprint(a)] <= decided[Subject(a)]
    BY TextsAndSubjects, AlertsAssumption DEF Ages, Never
  <2>5. ~Repeated(through)
    <3> SUFFICES ASSUME NEW a \in through PROVE ~(decided[Subject(a)] < AlertCooldown)
      BY DEF Repeated
    <3>1. ~(lastSentAt[Fingerprint(a)] < AlertCooldown)
      BY <2>2 DEF CoolingDown
    <3> DEFINE sent == lastSentAt[Fingerprint(a)] told == decided[Subject(a)]
    <3>2. sent \in Nat /\ told \in Nat /\ sent <= told /\ ~(sent < AlertCooldown)
      BY <2>2, <2>4, <3>1
    <3> HIDE DEF sent, told
    <3>3. ~(told < AlertCooldown)
      BY <3>2, AlertsAssumption
    <3> QED
      BY <3>3 DEF told
  <2>6. NoRepeatedAlert'
    BY <2>3, <2>5 DEF NoRepeatedAlert
  <2>7. healthCheck' \in [HealthChecks -> Runs]
    BY <1>0, <2>2, <2>3
  <2>8. 0 \in Ages
    BY AlertsAssumption DEF Ages, Never
  <2>9. lastSentAt' \in [Fingerprints -> Ages] /\ decided' \in [Subjects -> Ages]
    BY <2>3, <2>8 DEF Noted
  <2>10. ASSUME NEW a \in AlertTexts
         PROVE  lastSentAt'[Fingerprint(a)] <= decided'[Subject(a)]
    <3>1. Fingerprint(a) \in Fingerprints /\ Subject(a) \in Subjects
      BY TextsAndSubjects
    <3>2. CASE Fingerprint(a) \in {Fingerprint(b) : b \in through}
      <4>1. lastSentAt'[Fingerprint(a)] = 0
        BY <2>3, <3>1, <3>2 DEF Noted
      <4>2. decided'[Subject(a)] \in Nat
        BY <2>9, <3>1, AlertsAssumption DEF Ages, Never
      <4> QED
        BY <4>1, <4>2
    <3>3. CASE Fingerprint(a) \notin {Fingerprint(b) : b \in through}
      <4>1. Subject(a) \notin {Subject(b) : b \in through}
        BY <2>2, <3>3, TextsAndSubjects
      <4>2. /\ lastSentAt'[Fingerprint(a)] = lastSentAt[Fingerprint(a)]
            /\ decided'[Subject(a)] = decided[Subject(a)]
        BY <2>3, <3>1, <3>3, <4>1 DEF Noted
      <4> QED
        BY <2>4, <4>2
    <3> QED
      BY <3>2, <3>3
  <2> QED
    BY <2>3, <2>6, <2>7, <2>9, <2>10
<1>6. CASE AlertsTick
  <2>1. \A m, n \in Ages : AgeAfter(n) \in Ages /\ (m <= n => AgeAfter(m) <= AgeAfter(n))
    BY AlertsAssumption DEF Ages, Never, AgeAfter
  <2>2. lastSentAt' \in [Fingerprints -> Ages] /\ decided' \in [Subjects -> Ages]
    BY <1>6, <2>1 DEF AlertsTick
  <2>3. ASSUME NEW a \in AlertTexts
        PROVE  lastSentAt'[Fingerprint(a)] <= decided'[Subject(a)]
    BY <1>6, <2>1, TextsAndSubjects DEF AlertsTick
  <2> QED
    BY <1>6, <2>2, <2>3 DEF AlertsTick, NoRepeatedAlert
<1> QED
  BY <1>2, <1>3, <1>4, <1>5, <1>6 DEF AlertsNext

\* Whatever runs of the healthcheck overlap, for any number of them and any cooldown, nobody is
\* alerted of a thing twice within it (alert-cooldown.ts:31).
THEOREM AlertsAreNotRepeated == AlertsSpec => []NoRepeatedAlert
<1>1. AlertsIInv => NoRepeatedAlert
  BY DEF AlertsIInv
<1> QED
  BY <1>1, AlertsStart, AlertsStep, PTL DEF AlertsSpec

\* What bounds the alerts, beside their invariant.
AlertsKeepBounds == active \in Snapshots /\ wrong \subseteq {"repeated", "swallowed"}

LEMMA FewerAlerts ==
    ASSUME NEW s \in Snapshots, NEW t, t \subseteq s
    PROVE  t \in Snapshots
BY DEF Snapshots

LEMMA AlertsBounded ==
    ASSUME AlertsIInv, AlertsKeepBounds, [AlertsNext]_alertsVars
    PROVE  AlertsKeepBounds'
<1> USE DEF AlertsKeepBounds
<1>1. CASE ConditionsChange
  <2>1. active' \in Snapshots
    BY <1>1, FewerAlerts DEF ConditionsChange
  <2> QED
    BY <1>1, <2>1 DEF ConditionsChange
<1>2. ASSUME NEW c \in HealthChecks, CachePruned(c)
      PROVE  AlertsKeepBounds'
  <2>1. active' \in Snapshots
    BY <1>2, FewerAlerts DEF CachePruned
  <2> QED
    BY <1>2, <2>1 DEF CachePruned
<1>3. ASSUME NEW c \in HealthChecks, CheckFilters(c)
      PROVE  AlertsKeepBounds'
  <2>1. active' = active /\ wrong' \subseteq wrong \cup {"repeated", "swallowed"}
    BY <1>3 DEF CheckFilters
  <2> QED
    BY <2>1
<1>4. CASE UNCHANGED <<active, wrong>>
  BY <1>4
<1>5. ASSUME AlertsNext, ~ConditionsChange,
             ~ \E c \in HealthChecks : CachePruned(c) \/ CheckFilters(c)
      PROVE  UNCHANGED <<active, wrong>>
  BY <1>5 DEF AlertsNext, CheckBegins, CheckReads, CheckFails, CachePruneFails, Notifies,
              AlertsTick
<1> QED
  BY <1>1, <1>2, <1>3, <1>4, <1>5 DEF alertsVars

\* Alerts, ages and runs keep their types: no step of a run raises two alerts of one
\* measurement (alert-cooldown.ts:3).
THEOREM AlertsTypesStay == AlertsSpec => []AlertsTypeOK
<1>1. AlertsInit => AlertsKeepBounds
  BY DEF AlertsInit, AlertsKeepBounds, Snapshots
<1>2. AlertsIInv /\ AlertsKeepBounds => AlertsTypeOK
  BY DEF AlertsIInv, AlertsKeepBounds, AlertsTypeOK
<1> QED
  BY <1>1, <1>2, AlertsStart, AlertsStep, AlertsBounded, PTL DEF AlertsSpec

--------------------------------------------------------------------------------
\* What is held back

\* A fingerprint cools down because an alert of that fingerprint was let through.
CoolsForOneAlike ==
    \A k \in Fingerprints : lastSentAt[k] < AlertCooldown =>
        \E b \in AlertTexts : Fingerprint(b) = k /\ decided[Subject(b)] <= lastSentAt[k]

\* Texts that the cooldown cannot tell apart are about one thing.
AlikeAreOne == \A a, b \in AlertTexts : Fingerprint(a) = Fingerprint(b) => Subject(a) = Subject(b)

LEMMA CoolingStands ==
    ASSUME AlertsIInv, CoolsForOneAlike, [AlertsNext]_alertsVars
    PROVE  CoolsForOneAlike'
<1>1. CASE UNCHANGED <<lastSentAt, decided>>
  BY <1>1 DEF CoolsForOneAlike
<1>2. ASSUME NEW c \in HealthChecks, CheckFilters(c)
      PROVE  CoolsForOneAlike'
  <2>1. PICK chosen \in Chosen(healthCheck[c].alerts) :
          LET through == Through(chosen)
          IN  /\ lastSentAt' = Noted(through)
              /\ decided' = [s \in Subjects |-> IF s \in {Subject(a) : a \in through} THEN 0
                                                ELSE decided[s]]
    BY <1>2 DEF CheckFilters
  <2> DEFINE through == Through(chosen)
  <2>2. through \subseteq AlertTexts
    BY DEF AlertsIInv, Chosen, Through
  <2>3. /\ lastSentAt' = Noted(through)
        /\ decided' = [s \in Subjects |-> IF s \in {Subject(a) : a \in through} THEN 0
                                          ELSE decided[s]]
    BY <2>1
  <2> HIDE DEF through
  <2> SUFFICES ASSUME NEW k \in Fingerprints, lastSentAt'[k] < AlertCooldown
               PROVE  \E b \in AlertTexts : /\ Fingerprint(b) = k
                                            /\ decided'[Subject(b)] <= lastSentAt'[k]
    BY DEF CoolsForOneAlike
  <2>4. ASSUME NEW b \in through, Fingerprint(b) = k
        PROVE  decided'[Subject(b)] = 0 /\ lastSentAt'[k] = 0
    BY <2>2, <2>3, <2>4, TextsAndSubjects DEF Noted
  <2>5. CASE \E b \in through : Fingerprint(b) = k
    BY <2>2, <2>4, <2>5
  <2>6. CASE \A b \in through : Fingerprint(b) # k
    <3>1. lastSentAt'[k] = lastSentAt[k]
      BY <2>3, <2>6 DEF Noted
    <3>2. PICK b \in AlertTexts : Fingerprint(b) = k /\ decided[Subject(b)] <= lastSentAt[k]
      BY <3>1 DEF CoolsForOneAlike
    <3>3. Subject(b) \in Subjects /\ Subject(b) \notin {Subject(a) : a \in through}
      BY <2>2, <2>6, <3>2, TextsAndSubjects
    <3>4. decided'[Subject(b)] = decided[Subject(b)]
      BY <2>3, <3>3
    <3> QED
      BY <3>1, <3>2, <3>4
  <2> QED
    BY <2>5, <2>6
<1>3. CASE AlertsTick
  <2> SUFFICES ASSUME NEW k \in Fingerprints, lastSentAt'[k] < AlertCooldown
               PROVE  \E b \in AlertTexts : /\ Fingerprint(b) = k
                                            /\ decided'[Subject(b)] <= lastSentAt'[k]
    BY DEF CoolsForOneAlike
  <2>1. lastSentAt[k] \in Ages /\ lastSentAt'[k] = AgeAfter(lastSentAt[k])
    BY <1>3 DEF AlertsIInv, AlertsTick
  <2>2. \A m, n \in Ages : /\ AgeAfter(n) < AlertCooldown => n < AlertCooldown
                           /\ m <= n => AgeAfter(m) <= AgeAfter(n)
    BY AlertsAssumption DEF Ages, Never, AgeAfter
  <2>3. PICK b \in AlertTexts : Fingerprint(b) = k /\ decided[Subject(b)] <= lastSentAt[k]
    BY <2>1, <2>2 DEF CoolsForOneAlike
  <2>4. decided[Subject(b)] \in Ages /\ decided'[Subject(b)] = AgeAfter(decided[Subject(b)])
    BY <1>3, TextsAndSubjects DEF AlertsIInv, AlertsTick
  <2> QED
    BY <2>1, <2>2, <2>3, <2>4
<1> QED
  BY <1>1, <1>2, <1>3
     DEF AlertsNext, alertsVars, ConditionsChange, CheckBegins, CheckReads, CheckFails,
         CachePruned, CachePruneFails, Notifies

LEMMA AlikeNotSwallowed ==
    ASSUME AlikeAreOne, AlertsIInv, CoolsForOneAlike, NoAlertSwallowed, [AlertsNext]_alertsVars
    PROVE  NoAlertSwallowed'
<1>1. CASE UNCHANGED wrong
  BY <1>1 DEF NoAlertSwallowed
<1>2. ASSUME NEW c \in HealthChecks, CheckFilters(c)
      PROVE  NoAlertSwallowed'
  <2> DEFINE alerts == healthCheck[c].alerts
  <2>1. PICK chosen \in Chosen(alerts) :
          LET through == Through(chosen)
          IN  wrong' = wrong
                \cup (IF Repeated(through) THEN {"repeated"} ELSE {})
                \cup (IF Swallowed(alerts \ through, through) THEN {"swallowed"} ELSE {})
    BY <1>2 DEF CheckFilters
  <2> DEFINE through == Through(chosen)
             held == alerts \ through
  <2>2. alerts \subseteq AlertTexts
    BY DEF AlertsIInv
  <2>3. ASSUME NEW a \in held, decided[Subject(a)] >= AlertCooldown
        PROVE  \E b \in through : Subject(b) = Subject(a)
    <3>1. a \in AlertTexts /\ Fingerprint(a) \in Fingerprints /\ Subject(a) \in Subjects
      BY <2>2, TextsAndSubjects
    <3>2. PICK b \in chosen : Fingerprint(b) = Fingerprint(a)
      BY DEF Chosen
    <3>3. b \in AlertTexts
      BY <2>2 DEF Chosen
    <3>4. Subject(b) = Subject(a)
      BY <3>1, <3>2, <3>3 DEF AlikeAreOne
    <3>5. ~CoolingDown(Fingerprint(b))
      <4> SUFFICES ASSUME lastSentAt[Fingerprint(a)] < AlertCooldown PROVE FALSE
        BY <3>2 DEF CoolingDown
      <4>1. PICK x \in AlertTexts : /\ Fingerprint(x) = Fingerprint(a)
                                    /\ decided[Subject(x)] <= lastSentAt[Fingerprint(a)]
        BY <3>1 DEF CoolsForOneAlike
      <4>2. Subject(x) = Subject(a)
        BY <3>1, <4>1 DEF AlikeAreOne
      <4>3. lastSentAt[Fingerprint(a)] \in Nat /\ decided[Subject(a)] \in Nat
        BY <3>1, AlertsAssumption DEF AlertsIInv, Ages, Never
      <4> QED
        BY <2>3, <4>1, <4>2, <4>3, AlertsAssumption
    <3> QED
      BY <3>4, <3>5 DEF Through
  <2>4. ~Swallowed(held, through)
    BY <2>3 DEF Swallowed
  <2>5. wrong' = wrong \cup (IF Repeated(through) THEN {"repeated"} ELSE {})
                       \cup (IF Swallowed(held, through) THEN {"swallowed"} ELSE {})
    BY <2>1
  <2> HIDE DEF held, through
  <2> QED
    BY <2>4, <2>5 DEF NoAlertSwallowed
<1> QED
  BY <1>1, <1>2
     DEF AlertsNext, alertsVars, ConditionsChange, CheckBegins, CheckReads, CheckFails,
         CachePruned, CachePruneFails, Notifies, AlertsTick

\* Where no two things have texts of one fingerprint, no alert is held back that was not let through
\* within the cooldown, for any checks and texts: what AlertsSwallowed shows comes of nothing but
\* names that differ in their numbers (alertFingerprint and filterAlertsWithCooldown,
\* alert-cooldown.ts:10, 20).
THEOREM OnlyAlikeAreHeldBack ==
    ASSUME AlikeAreOne
    PROVE  AlertsSpec => []NoAlertSwallowed
<1>1. AlertsInit => CoolsForOneAlike /\ NoAlertSwallowed
  BY AlertsAssumption DEF AlertsInit, CoolsForOneAlike, NoAlertSwallowed, Never
<1>2. AlertsIInv /\ CoolsForOneAlike /\ [AlertsNext]_alertsVars => CoolsForOneAlike'
  BY CoolingStands
<1>3. AlertsIInv /\ CoolsForOneAlike /\ NoAlertSwallowed /\ [AlertsNext]_alertsVars
      => NoAlertSwallowed'
  BY AlikeNotSwallowed
<1> QED
  BY <1>1, <1>2, <1>3, AlertsStart, AlertsStep, PTL DEF AlertsSpec

--------------------------------------------------------------------------------
\* The pruning of a table

Newer(rows, r) == {q \in rows : q > r}

PruneCalls == [pc : {"idle", "age", "count", "find", "delete", "done"},
               overflow : Nat, ids : SUBSET Nat]

RetentionTypes ==
    /\ logRows \subseteq Nat /\ IsFiniteSet(logRows)
    /\ nextRow \in Nat /\ expired \in Nat /\ \A r \in logRows : r < nextRow
    /\ prune \in [Pruners -> PruneCalls]

\* What a call has counted is still there, and each row it is about to delete has MaxRows
\* newer ones.
KeepsNewest(call, rows) ==
    /\ call.pc = "find" => call.overflow + MaxRows <= Cardinality(rows)
    /\ call.pc = "delete" =>
         call.ids \subseteq rows /\ \A r \in call.ids : Cardinality(Newer(rows, r)) >= MaxRows

RetentionIInv ==
    /\ RetentionTypes
    /\ \A p \in Pruners : prune[p].pc # "idle" => inflight = {p}
    /\ \A p \in Pruners : KeepsNewest(prune[p], logRows)

LEMMA RetentionStart == RetentionInit => RetentionIInv
BY FS_EmptySet DEF RetentionInit, RetentionIInv, RetentionTypes, PruneCalls, KeepsNewest, NoPrune

\* Counting more rows never gives fewer.
LEMMA CountsGrow ==
    ASSUME RetentionTypes, RetentionTypes', logRows \subseteq logRows'
    PROVE  /\ Cardinality(logRows) <= Cardinality(logRows')
           /\ \A r \in logRows : Cardinality(Newer(logRows, r)) <= Cardinality(Newer(logRows', r))
           /\ Cardinality(logRows) \in Nat /\ Cardinality(logRows') \in Nat
           /\ \A r \in logRows : /\ Cardinality(Newer(logRows, r)) \in Nat
                                 /\ Cardinality(Newer(logRows', r)) \in Nat
<1> USE DEF RetentionTypes
<1>1. ASSUME NEW r \in logRows
      PROVE  /\ Newer(logRows, r) \subseteq Newer(logRows', r) /\ IsFiniteSet(Newer(logRows', r))
             /\ Newer(logRows, r) \subseteq logRows /\ IsFiniteSet(Newer(logRows, r))
  <2>1. /\ Newer(logRows, r) \subseteq logRows /\ Newer(logRows', r) \subseteq logRows'
        /\ Newer(logRows, r) \subseteq Newer(logRows', r)
    BY DEF Newer
  <2> QED
    BY <2>1, FS_Subset
<1>2. ASSUME NEW r \in logRows
      PROVE  /\ Cardinality(Newer(logRows, r)) <= Cardinality(Newer(logRows', r))
             /\ Cardinality(Newer(logRows, r)) \in Nat /\ Cardinality(Newer(logRows', r)) \in Nat
  <2> DEFINE a == Newer(logRows, r) b == Newer(logRows', r)
  <2>1. a \subseteq b /\ IsFiniteSet(b) /\ IsFiniteSet(a)
    BY <1>1
  <2> HIDE DEF a, b
  <2>2. Cardinality(a) <= Cardinality(b) /\ Cardinality(a) \in Nat /\ Cardinality(b) \in Nat
    BY <2>1, FS_Subset, FS_CardinalityType
  <2> QED
    BY <2>2 DEF a, b
<1> QED
  BY <1>2, FS_Subset, FS_CardinalityType

\* Each of the n oldest rows has all but n of the rows above it.
LEMMA AboveTheOldest ==
    ASSUME RetentionTypes, NEW n \in Nat, n + MaxRows <= Cardinality(logRows),
           NEW r \in Oldest(n)
    PROVE  Cardinality(Newer(logRows, r)) >= MaxRows
<1> DEFINE older == {q \in logRows : q < r}
<1>1. /\ r \in logRows /\ r \in Nat /\ Cardinality(older) < n
      /\ \A q \in logRows : q \in Nat
  BY DEF Oldest, RetentionTypes
<1>2. IsFiniteSet(older) /\ IsFiniteSet(Newer(logRows, r)) /\ IsFiniteSet(logRows)
  <2>1. older \subseteq logRows /\ Newer(logRows, r) \subseteq logRows
    BY DEF Newer
  <2> QED
    BY <2>1, FS_Subset DEF RetentionTypes
<1>3. logRows = (older \cup Newer(logRows, r)) \cup {r}
  <2>1. ASSUME NEW q \in logRows PROVE q < r \/ q > r \/ q = r
    BY <1>1
  <2> QED
    BY <1>1, <2>1 DEF Newer
<1>4. older \cap Newer(logRows, r) = {} /\ r \notin older \cup Newer(logRows, r)
  <2>1. ASSUME NEW q \in logRows PROVE ~(q < r /\ q > r) /\ ~(r < r) /\ ~(r > r)
    BY <1>1
  <2> QED
    BY <2>1 DEF Newer
<1> DEFINE newer == Newer(logRows, r)
<1> HIDE DEF older, newer
<1>5. /\ IsFiniteSet(older \cup newer)
      /\ Cardinality(older \cup newer) = Cardinality(older) + Cardinality(newer)
                                         - Cardinality(older \cap newer)
  BY <1>2, FS_Union DEF newer
<1>6. Cardinality(older \cap newer) = 0
  BY <1>4, FS_EmptySet DEF newer
<1>7. Cardinality(logRows) = Cardinality(older \cup newer) + 1
  BY <1>3, <1>4, <1>5, FS_AddElement DEF newer
<1>8. /\ Cardinality(older) \in Nat /\ Cardinality(newer) \in Nat
      /\ Cardinality(older \cup newer) \in Nat
  BY <1>2, <1>5, FS_CardinalityType DEF newer
<1>9. Cardinality(newer) >= MaxRows
  BY <1>1, <1>5, <1>6, <1>7, <1>8, RetentionAssumption
<1> QED
  BY <1>9 DEF newer

LEMMA RetentionStep ==
    ASSUME RetentionIInv, [RetentionNext]_retentionVars
    PROVE  RetentionIInv'
<1> USE DEF RetentionIInv
<1>1. CASE UNCHANGED retentionVars
  BY <1>1 DEF retentionVars, RetentionTypes, KeepsNewest, Newer
\* New rows come above the others.
<1>2. CASE RowWritten
  <2>1. /\ logRows' = logRows \cup {nextRow} /\ nextRow' = nextRow + 1
        /\ UNCHANGED <<expired, inflight, prune>>
    BY <1>2 DEF RowWritten
  <2>2. RetentionTypes'
    BY <2>1, FS_AddElement DEF RetentionTypes
  <2>3. /\ Cardinality(logRows) <= Cardinality(logRows')
        /\ Cardinality(logRows) \in Nat /\ Cardinality(logRows') \in Nat
        /\ \A r \in logRows : /\ Cardinality(Newer(logRows, r)) <= Cardinality(Newer(logRows', r))
                              /\ Cardinality(Newer(logRows, r)) \in Nat
                              /\ Cardinality(Newer(logRows', r)) \in Nat
    BY <2>1, <2>2, CountsGrow DEF RetentionIInv
  <2>4. ASSUME NEW p \in Pruners
        PROVE  KeepsNewest(prune'[p], logRows')
    <3>1. KeepsNewest(prune[p], logRows) /\ prune[p] \in PruneCalls /\ prune'[p] = prune[p]
      BY <2>1 DEF RetentionTypes
    <3>2. prune[p].pc = "find" => prune[p].overflow + MaxRows <= Cardinality(logRows')
      <4> DEFINE n == prune[p].overflow count == Cardinality(logRows) more == Cardinality(logRows')
      <4>1. n \in Nat /\ count \in Nat /\ more \in Nat /\ count <= more
        BY <2>3, <3>1 DEF PruneCalls
      <4>2. prune[p].pc = "find" => n + MaxRows <= count
        BY <3>1 DEF KeepsNewest
      <4> HIDE DEF n, count, more
      <4>3. prune[p].pc = "find" => n + MaxRows <= more
        BY <4>1, <4>2, RetentionAssumption
      <4> QED
        BY <4>3 DEF n, more
    <3>3. ASSUME prune[p].pc = "delete", NEW r \in prune[p].ids
          PROVE  Cardinality(Newer(logRows', r)) >= MaxRows /\ r \in logRows'
      <4>1. r \in logRows /\ Cardinality(Newer(logRows, r)) >= MaxRows
        BY <3>1, <3>3 DEF KeepsNewest
      <4>2. MaxRows \in Nat /\ prune'[p] = prune[p] /\ r \in logRows'
        BY <2>1, <3>1, <4>1, RetentionAssumption
      <4>3. /\ Cardinality(Newer(logRows, r)) \in Nat /\ Cardinality(Newer(logRows', r)) \in Nat
            /\ Cardinality(Newer(logRows, r)) <= Cardinality(Newer(logRows', r))
        BY <2>3, <4>1
      <4> QED
        BY <4>1, <4>2, <4>3
    <3> QED
      BY <3>1, <3>2, <3>3 DEF KeepsNewest, Newer
  <2> QED
    BY <2>1, <2>2, <2>4
<1>3. CASE RowsAge
  <2>1. UNCHANGED <<logRows, nextRow, inflight, prune>> /\ expired' \in Nat
    BY <1>3 DEF RowsAge, RetentionTypes
  <2>2. RetentionTypes'
    BY <2>1 DEF RetentionTypes
  <2> QED
    BY <2>1, <2>2
\* The others are idle while a call prunes.
<1>4. ASSUME NEW p \in Pruners,
             NEW call \in PruneCalls, prune' = [prune EXCEPT ![p] = call], RetentionTypes',
             inflight' = {p} \/ call.pc = "idle", prune[p].pc = "idle" => inflight = {},
             KeepsNewest(call, logRows')
      PROVE  RetentionIInv'
  <2>1. ASSUME NEW q \in Pruners \ {p}
        PROVE  prune[q].pc = "idle" /\ prune'[q] = prune[q] /\ KeepsNewest(prune'[q], logRows')
    <3>1. prune[q].pc = "idle"
      BY <1>4
    <3>2. prune'[q] = prune[q]
      BY <1>4 DEF RetentionTypes
    <3> QED
      BY <3>1, <3>2 DEF KeepsNewest
  <2>2. prune'[p] = call
    BY <1>4 DEF RetentionTypes
  <2> QED
    BY <1>4, <2>1, <2>2 DEF KeepsNewest, Newer
<1>5. NoPrune \in PruneCalls
  BY DEF NoPrune, PruneCalls
<1>6. ASSUME NEW p \in Pruners, PruneStarts(p)
      PROVE  RetentionIInv'
  <2>1. prune[p] \in PruneCalls /\ prune[p].pc = "idle" /\ inflight = {} /\ inflight' = {p}
    BY <1>6 DEF PruneStarts, MayStart, RetentionTypes
  <2> DEFINE call == [prune[p] EXCEPT !.pc = "age"]
  <2>2. call \in PruneCalls /\ call.pc = "age" /\ prune' = [prune EXCEPT ![p] = call]
    BY <1>6, <2>1 DEF PruneStarts, PruneCalls
  <2>3. RetentionTypes'
    BY <1>6, <2>2 DEF PruneStarts, RetentionTypes
  <2> HIDE DEF call
  <2> QED
    BY <1>4, <2>1, <2>2, <2>3 DEF KeepsNewest
<1>7. ASSUME NEW p \in Pruners, PruneByAge(p)
      PROVE  RetentionIInv'
  <2>1. prune[p] \in PruneCalls /\ prune[p].pc = "age" /\ inflight = {p} /\ inflight' = {p}
    BY <1>7 DEF PruneByAge, RetentionTypes
  <2> DEFINE call == [prune[p] EXCEPT !.pc = "count"]
  <2>2. call \in PruneCalls /\ call.pc = "count" /\ prune' = [prune EXCEPT ![p] = call]
    BY <1>7, <2>1 DEF PruneByAge, PruneCalls
  <2>3. logRows' \subseteq logRows /\ IsFiniteSet(logRows') /\ UNCHANGED <<nextRow, expired>>
    <3>1. logRows' \subseteq logRows
      BY <1>7 DEF PruneByAge
    <3> QED
      BY <1>7, <3>1, FS_Subset DEF PruneByAge, RetentionTypes
  <2>4. RetentionTypes'
    BY <2>2, <2>3 DEF RetentionTypes
  <2> HIDE DEF call
  <2> QED
    BY <1>4, <2>1, <2>2, <2>4 DEF KeepsNewest
<1>8. ASSUME NEW p \in Pruners, PruneCounts(p)
      PROVE  RetentionIInv'
  <2>1. prune[p] \in PruneCalls /\ prune[p].pc = "count" /\ inflight = {p} /\ inflight' = {p}
    BY <1>8 DEF PruneCounts, RetentionTypes
  <2> DEFINE count == Cardinality(logRows)
             call == IF count <= MaxRows THEN [NoPrune EXCEPT !.pc = "done"]
                     ELSE [NoPrune EXCEPT !.pc = "find", !.overflow = count - MaxRows]
  <2>2. count \in Nat
    BY FS_CardinalityType DEF RetentionTypes
  <2>3. prune' = [prune EXCEPT ![p] = call] /\ UNCHANGED <<logRows, nextRow, expired>>
    BY <1>8 DEF PruneCounts
  <2> HIDE DEF count
  <2>4. /\ call \in PruneCalls
        /\ \/ call.pc = "done"
           \/ call.pc = "find" /\ call.overflow + MaxRows <= count
    <3>1. CASE count <= MaxRows
      BY <3>1 DEF NoPrune, PruneCalls
    <3>2. CASE ~(count <= MaxRows)
      <4>1. count - MaxRows \in Nat /\ (count - MaxRows) + MaxRows = count
        BY <2>2, <3>2, RetentionAssumption
      <4> DEFINE n == count - MaxRows
      <4>2. call = [NoPrune EXCEPT !.pc = "find", !.overflow = n]
        BY <3>2
      <4> HIDE DEF call, n
      <4>3. call \in PruneCalls /\ call.pc = "find" /\ call.overflow = n
        BY <4>1, <4>2 DEF NoPrune, PruneCalls, n
      <4> QED
        BY <2>2, <4>1, <4>3 DEF n
    <3> QED
      BY <3>1, <3>2
  <2>5. RetentionTypes'
    BY <2>3, <2>4 DEF RetentionTypes
  <2> HIDE DEF call
  <2>6. KeepsNewest(call, logRows')
    BY <2>3, <2>4 DEF KeepsNewest, count
  <2> QED
    BY <1>4, <2>1, <2>3, <2>4, <2>5, <2>6
<1>9. ASSUME NEW p \in Pruners, PruneFinds(p)
      PROVE  RetentionIInv'
  <2>1. prune[p] \in PruneCalls /\ prune[p].pc = "find" /\ inflight = {p} /\ inflight' = {p}
    BY <1>9 DEF PruneFinds, RetentionTypes
  <2> DEFINE ids == Oldest(prune[p].overflow)
             call == [prune[p] EXCEPT !.pc = "delete", !.ids = ids]
  <2>2. prune' = [prune EXCEPT ![p] = call] /\ UNCHANGED <<logRows, nextRow, expired>>
    BY <1>9 DEF PruneFinds, RetentionTypes
  <2>3. ids \subseteq logRows /\ \A r \in ids : Cardinality(Newer(logRows, r)) >= MaxRows
    <3>1. prune[p].overflow \in Nat /\ prune[p].overflow + MaxRows <= Cardinality(logRows)
      BY <2>1 DEF KeepsNewest, PruneCalls
    <3> QED
      BY <3>1, AboveTheOldest DEF Oldest
  <2> HIDE DEF ids
  <2>4. call \in PruneCalls /\ call.pc = "delete" /\ call.ids = ids
    BY <2>1, <2>3 DEF PruneCalls, RetentionTypes
  <2>5. RetentionTypes'
    BY <2>2, <2>4 DEF RetentionTypes
  <2> HIDE DEF call
  <2>6. KeepsNewest(call, logRows')
    BY <2>2, <2>3, <2>4 DEF KeepsNewest, Newer
  <2> QED
    BY <1>4, <2>1, <2>2, <2>4, <2>5, <2>6
<1>10. ASSUME NEW p \in Pruners, PruneDeletes(p)
       PROVE  RetentionIInv'
  <2>1. prune[p] \in PruneCalls /\ prune[p].pc = "delete" /\ inflight = {p} /\ inflight' = {p}
    BY <1>10 DEF PruneDeletes, RetentionTypes
  <2> DEFINE call == [NoPrune EXCEPT !.pc = "done"]
  <2>2. call \in PruneCalls /\ call.pc = "done" /\ prune' = [prune EXCEPT ![p] = call]
    BY <1>10 DEF PruneDeletes, PruneCalls, NoPrune
  <2>3. logRows' \subseteq logRows /\ IsFiniteSet(logRows') /\ UNCHANGED <<nextRow, expired>>
    <3>1. logRows' \subseteq logRows
      BY <1>10 DEF PruneDeletes
    <3> QED
      BY <1>10, <3>1, FS_Subset DEF PruneDeletes, RetentionTypes
  <2>4. RetentionTypes'
    BY <2>2, <2>3 DEF RetentionTypes
  <2> HIDE DEF call
  <2> QED
    BY <1>4, <2>1, <2>2, <2>4 DEF KeepsNewest
<1>11. ASSUME NEW p \in Pruners, PruneEnds(p)
       PROVE  RetentionIInv'
  <2>1. /\ prune' = [prune EXCEPT ![p] = NoPrune] /\ prune[p].pc # "idle"
        /\ UNCHANGED <<logRows, nextRow, expired>> /\ NoPrune.pc = "idle"
    BY <1>11 DEF PruneEnds, NoPrune
  <2>2. RetentionTypes'
    BY <1>5, <2>1 DEF RetentionTypes
  <2> QED
    BY <1>4, <1>5, <2>1, <2>2 DEF KeepsNewest
<1> QED
  BY <1>1, <1>2, <1>3, <1>6, <1>7, <1>8, <1>9, <1>10, <1>11 DEF RetentionNext

\* Only a call deletes rows, and what it deletes it may.
LEMMA DeletedMayGo ==
    ASSUME RetentionIInv, [RetentionNext]_retentionVars, NEW r \in logRows \ logRows'
    PROVE  r <= expired \/ Cardinality({q \in logRows : q > r}) >= MaxRows
<1> USE DEF RetentionIInv
<1>1. PICK p \in Pruners : PruneByAge(p) \/ PruneDeletes(p)
  BY DEF RetentionNext, retentionVars, RowWritten, RowsAge, PruneStarts, PruneCounts, PruneFinds,
         PruneEnds
<1>2. CASE PruneByAge(p)
  <2>1. r \in Nat /\ expired \in Nat /\ ~(r > expired)
    BY <1>2 DEF PruneByAge, RetentionTypes
  <2> QED
    BY <2>1
<1>3. CASE PruneDeletes(p)
  <2>1. r \in prune[p].ids /\ prune[p].pc = "delete"
    BY <1>3 DEF PruneDeletes
  <2> QED
    BY <2>1 DEF KeepsNewest, Newer
<1> QED
  BY <1>1, <1>2, <1>3

\* A pruning that counts, finds and deletes in three steps while rows are written deletes none
\* of the MaxRows newest rows, but those past the retention (data-retention.ts:28).
THEOREM NewestRowsStay == RetentionSpec => NewestRowsKept
<1> DEFINE MayGo == \A r \in logRows \ logRows' :
                      r <= expired \/ Cardinality({q \in logRows : q > r}) >= MaxRows
<1>1. RetentionIInv /\ [RetentionNext]_retentionVars => [MayGo]_retentionVars
  BY DeletedMayGo
<1> QED
  BY <1>1, RetentionStart, RetentionStep, PTL DEF RetentionSpec, NewestRowsKept

\* What bounds a call's work is the bound on the rows.
RowIds == 1 .. MaxRowIds

BoundedCalls == [pc : {"idle", "age", "count", "find", "delete", "done"},
                 overflow : 0 .. MaxRowIds, ids : SUBSET RowIds]

RetentionKeepsBounds ==
    /\ logRows \subseteq RowIds
    /\ nextRow \in 1 .. MaxRowIds + 1 /\ expired < nextRow /\ cooling \in BOOLEAN
    /\ inflight \subseteq Pruners
    /\ prune \in [Pruners -> BoundedCalls]

LEMMA RowsAreFew ==
    ASSUME logRows \subseteq RowIds
    PROVE  Cardinality(logRows) \in 0 .. MaxRowIds
<1>1. MaxRowIds \in Nat
  BY RetentionAssumption
<1>2. IsFiniteSet(RowIds) /\ Cardinality(RowIds) = MaxRowIds
  BY <1>1, FS_Interval DEF RowIds
<1>3. Cardinality(logRows) <= Cardinality(RowIds) /\ Cardinality(logRows) \in Nat
  BY <1>2, FS_Subset, FS_CardinalityType
<1> QED
  BY <1>1, <1>2, <1>3

LEMMA RetentionBounded ==
    ASSUME RetentionIInv, RetentionKeepsBounds, [RetentionNext]_retentionVars
    PROVE  RetentionKeepsBounds'
<1> USE DEF RetentionKeepsBounds
<1>0. MaxRowIds \in Nat /\ MaxRows \in Nat /\ nextRow \in Nat /\ expired \in Nat
  BY RetentionAssumption DEF RetentionIInv, RetentionTypes
<1>1. CASE UNCHANGED retentionVars
  BY <1>1 DEF retentionVars
<1>2. CASE RowWritten
  <2>1. nextRow \in RowIds /\ nextRow' \in 1 .. MaxRowIds + 1 /\ expired < nextRow'
    BY <1>0, <1>2 DEF RowWritten, RowIds
  <2> QED
    BY <1>2, <2>1 DEF RowWritten
<1>3. CASE RowsAge
  BY <1>0, <1>3 DEF RowsAge
<1>4. ASSUME NEW p \in Pruners, NEW call \in BoundedCalls, prune' = [prune EXCEPT ![p] = call],
             logRows' \subseteq logRows, UNCHANGED <<nextRow, expired>>,
             cooling' \in BOOLEAN, inflight' \subseteq inflight \cup {p}
      PROVE  RetentionKeepsBounds'
  BY <1>4
<1>5. ASSUME NEW p \in Pruners, PruneStarts(p) \/ PruneByAge(p)
      PROVE  RetentionKeepsBounds'
  <2>1. PICK pc \in {"age", "count"} : prune' = [prune EXCEPT ![p].pc = pc]
    BY <1>5 DEF PruneStarts, PruneByAge
  <2>2. [prune[p] EXCEPT !.pc = pc] \in BoundedCalls
    BY DEF BoundedCalls
  <2> QED
    BY <1>4, <1>5, <2>1, <2>2 DEF PruneStarts, PruneByAge
<1>6. ASSUME NEW p \in Pruners, PruneCounts(p)
      PROVE  RetentionKeepsBounds'
  <2> DEFINE count == Cardinality(logRows)
             call == IF count <= MaxRows THEN [NoPrune EXCEPT !.pc = "done"]
                     ELSE [NoPrune EXCEPT !.pc = "find", !.overflow = count - MaxRows]
  <2>1. count \in 0 .. MaxRowIds
    BY RowsAreFew
  <2>2. prune' = [prune EXCEPT ![p] = call]
        /\ UNCHANGED <<logRows, nextRow, expired, cooling, inflight>>
    BY <1>6 DEF PruneCounts
  <2>3. call \in BoundedCalls
    <3>1. CASE count <= MaxRows
      BY <1>0, <3>1 DEF NoPrune, BoundedCalls
    <3>2. CASE ~(count <= MaxRows)
      <4> DEFINE n == count - MaxRows
      <4> HIDE DEF count
      <4>1. n \in 0 .. MaxRowIds
        BY <1>0, <2>1, <3>2
      <4>2. call = [NoPrune EXCEPT !.pc = "find", !.overflow = n]
        BY <3>2
      <4> HIDE DEF n
      <4> QED
        BY <4>1, <4>2 DEF NoPrune, BoundedCalls
    <3> QED
      BY <3>1, <3>2
  <2> HIDE DEF call
  <2> QED
    BY <1>4, <2>2, <2>3
<1>7. ASSUME NEW p \in Pruners, PruneFinds(p)
      PROVE  RetentionKeepsBounds'
  <2> DEFINE call == [prune[p] EXCEPT !.pc = "delete", !.ids = Oldest(prune[p].overflow)]
  <2>1. Oldest(prune[p].overflow) \subseteq RowIds
    BY DEF Oldest
  <2>2. call \in BoundedCalls
    BY <2>1 DEF BoundedCalls
  <2>3. prune' = [prune EXCEPT ![p] = call]
    BY <1>7 DEF PruneFinds
  <2> HIDE DEF call
  <2> QED
    BY <1>4, <1>7, <2>2, <2>3 DEF PruneFinds
<1>8. ASSUME NEW p \in Pruners, PruneDeletes(p) \/ PruneEnds(p)
      PROVE  RetentionKeepsBounds'
  <2>1. NoPrune \in BoundedCalls /\ [NoPrune EXCEPT !.pc = "done"] \in BoundedCalls
    BY <1>0 DEF NoPrune, BoundedCalls
  <2> QED
    BY <1>4, <1>8, <2>1 DEF PruneDeletes, PruneEnds
<1> QED
  BY <1>1, <1>2, <1>3, <1>5, <1>6, <1>7, <1>8 DEF RetentionNext

\* Rows and calls keep their types: what a call has counted and found is of the table
\* (data-retention.ts:7).
THEOREM RetentionTypesStay == RetentionSpec => []RetentionTypeOK
<1>1. RetentionInit => RetentionKeepsBounds
  <2> SUFFICES ASSUME RetentionInit PROVE RetentionKeepsBounds
    OBVIOUS
  <2>1. NoPrune \in BoundedCalls
    BY RetentionAssumption DEF NoPrune, BoundedCalls
  <2>2. nextRow \in 1 .. MaxRowIds + 1 /\ expired < nextRow
    BY RetentionAssumption DEF RetentionInit
  <2> QED
    BY <2>1, <2>2 DEF RetentionInit, RetentionKeepsBounds
<1>2. RetentionIInv /\ RetentionKeepsBounds => RetentionTypeOK
  BY RetentionAssumption
  DEF RetentionIInv, RetentionTypes, RetentionKeepsBounds, RetentionTypeOK, BoundedCalls, RowIds
<1> QED
  BY <1>1, <1>2, RetentionStart, RetentionStep, RetentionBounded, PTL DEF RetentionSpec

--------------------------------------------------------------------------------
\* Plugins

PluginCallRows ==
    [pc : {"idle", "read", "write", "look", "load", "unload"}, op : PluginOps,
     dir : PluginDirs \cup {"none"}, row : SUBSET PluginDirs,
     worker : PluginWorkers \cup {NoWorker}]
WorkerRows == [pc : {"free", "loading", "ready", "ended"}, dir : PluginDirs \cup {"none"}]

PluginsTypes ==
    /\ disabled \subseteq PluginDirs
    /\ registry \in [PluginDirs -> PluginWorkers \cup {NoWorker}]
    /\ workers \in [PluginWorkers -> WorkerRows]
    /\ calls \in [PluginCalls -> PluginCallRows]
    /\ asked \in [PluginDirs -> PluginOps \cup {"none"}]

\* A request about a plugin that none has overlapped is the only one that is served.
ServedAlone(c) ==
    calls[c].pc # "idle" =>
      /\ calls[c].dir \in PluginDirs
      /\ calls[c].dir \notin overlapped => Serving = {c}

\* What a request has read of the row is still so, for every plugin but those.
ReadStillTrue(c) ==
    calls[c].pc = "write" =>
      \A d \in PluginDirs \ overlapped : d \in calls[c].row <=> d \in disabled

\* A worker is loaded for one request, and for a plugin that is not registered.
LoadsItsOwn(c) ==
    calls[c].pc = "load" =>
      /\ calls[c].op = "enable" /\ calls[c].worker \in PluginWorkers
      /\ workers[calls[c].worker] = [pc |-> "loading", dir |-> calls[c].dir]
      /\ \A b \in PluginCalls \ {c} : calls[b].pc = "load" => calls[b].worker # calls[c].worker
      /\ calls[c].dir \notin overlapped => ~Registered(calls[c].dir)

\* A request waits for the worker in the registry to unload.
UnloadsRegistered(c) ==
    calls[c].pc = "unload" =>
      /\ calls[c].op = "disable" /\ Registered(calls[c].dir)
      /\ calls[c].worker = registry[calls[c].dir]

\* A registered worker is the plugin's, running or ended uncleanly; a worker that runs is
\* registered.
WorkersAreTrue(d) ==
    /\ Registered(d) =>
         /\ workers[registry[d]].dir = d
         /\ \/ workers[registry[d]].pc = "ready"
            \/ workers[registry[d]].pc = "ended" /\ d \in unclean
    /\ d \notin overlapped => \A w \in Running(d) : registry[d] = w

RowAsAsked(d) ==
    /\ asked[d] = "disable" => d \in disabled
    /\ asked[d] = "enable" => d \notin disabled

\* Row and registry are as the last request asked; while it is under way, from its write on
\* the row is.
AskedStands(d) ==
    /\ (\A c \in Serving : calls[c].dir # d) =>
         RowAsAsked(d) /\ (asked[d] = "disable" => ~Registered(d))
    /\ \A c \in Serving : calls[c].dir = d =>
         /\ asked[d] = calls[c].op
         /\ calls[c].pc \notin {"read", "write"} => RowAsAsked(d)

PluginsIInv ==
    /\ PluginsTypes
    /\ \A c \in PluginCalls : ServedAlone(c) /\ ReadStillTrue(c) /\ LoadsItsOwn(c)
                              /\ UnloadsRegistered(c)
    /\ \A d \in PluginDirs : WorkersAreTrue(d)
    /\ \A d \in PluginDirs \ (overlapped \cup unclean) : AskedStands(d)

LEMMA PluginRows ==
    /\ NoCall \in PluginCallRows /\ NoCall.pc = "idle"
    /\ Free \in WorkerRows /\ Free.pc = "free"
BY DEF NoCall, PluginCallRows, PluginOps, Free, WorkerRows

LEMMA PluginTypes ==
    ASSUME PluginsTypes
    PROVE  /\ \A c \in PluginCalls : calls[c] \in PluginCallRows
           /\ \A w \in PluginWorkers : workers[w] \in WorkerRows
           /\ \A d \in PluginDirs : registry[d] \in PluginWorkers \cup {NoWorker}
           /\ \A d \in PluginDirs : Registered(d) <=> registry[d] \in PluginWorkers
BY PluginsAssumption DEF PluginsTypes, Registered

\* No request is under way: a state as after a start.
LEMMA AtRest ==
    ASSUME PluginsTypes, \A c \in PluginCalls : calls[c] = NoCall,
           \A d \in PluginDirs : asked[d] = "none",
           \A d \in PluginDirs : WorkersAreTrue(d)
    PROVE  PluginsIInv
BY PluginRows DEF PluginsIInv, ServedAlone, ReadStillTrue, LoadsItsOwn, UnloadsRegistered,
                  AskedStands, RowAsAsked, Serving

LEMMA PluginsStart == PluginsInit => PluginsIInv
<1> SUFFICES ASSUME PluginsInit PROVE PluginsIInv
  OBVIOUS
<1>1. PluginsTypes
  BY PluginRows, PluginsAssumption
     DEF PluginsInit, PluginsTypes, PluginCallRows
<1>2. \A d \in PluginDirs : WorkersAreTrue(d)
  BY PluginRows DEF PluginsInit, WorkersAreTrue, Registered, Running
<1> QED
  BY <1>1, <1>2, AtRest DEF PluginsInit

\* A start runs a worker of its own for each plugin it loads.
LEMMA RestartStep ==
    ASSUME PluginsTypes, Restart
    PROVE  PluginsIInv'
<1>1. PICK ds \in SUBSET (PluginDirs \ disabled) : Started(ds)
  BY DEF Restart
<1>2. PICK chosen \in [ds -> PluginWorkers] :
        /\ \A d, e \in ds : chosen[d] = chosen[e] => d = e
        /\ registry' = [d \in PluginDirs |-> IF d \in ds THEN chosen[d] ELSE NoWorker]
        /\ workers' = [w \in PluginWorkers |->
             IF \E d \in ds : chosen[d] = w
             THEN [pc |-> "ready", dir |-> CHOOSE d \in ds : chosen[d] = w] ELSE Free]
  BY <1>1 DEF Started
<1>3. ASSUME NEW d \in ds
      PROVE  /\ registry'[d] = chosen[d] /\ chosen[d] \in PluginWorkers
             /\ workers'[chosen[d]] = [pc |-> "ready", dir |-> d]
  <2>1. (CHOOSE e \in ds : chosen[e] = chosen[d]) = d
    BY <1>2
  <2> QED
    BY <1>2, <2>1
<1>4. ASSUME NEW w \in PluginWorkers
      PROVE  \/ \E d \in ds : chosen[d] = w /\ workers'[w] = [pc |-> "ready", dir |-> d]
             \/ workers'[w] = Free
  BY <1>2, <1>3
<1>5. registry' \in [PluginDirs -> PluginWorkers \cup {NoWorker}]
  BY <1>2
<1>6. workers' \in [PluginWorkers -> WorkerRows]
  <2>1. \A w \in PluginWorkers : workers'[w] \in WorkerRows
    <3>1. \A d \in ds : [pc |-> "ready", dir |-> d] \in WorkerRows
      BY DEF WorkerRows
    <3> QED
      BY <1>4, <3>1, PluginRows
  <2> QED
    BY <1>2, <2>1
<1>7. PluginsTypes'
  BY <1>5, <1>6, PluginRows, PluginsAssumption
     DEF Restart, PluginsTypes, PluginCallRows
<1>8. ASSUME NEW d \in PluginDirs
      PROVE  WorkersAreTrue(d)'
  <2>1. registry'[d] # NoWorker => d \in ds
    BY <1>2
  <2>2. ASSUME NEW w \in PluginWorkers, workers'[w].pc = "ready", workers'[w].dir = d
        PROVE  registry'[d] = w
    <3>1. workers'[w] # Free
      BY <2>2, PluginRows
    <3>2. PICK e \in ds : chosen[e] = w /\ workers'[w] = [pc |-> "ready", dir |-> e]
      BY <1>4, <3>1
    <3>3. e = d
      BY <2>2, <3>2
    <3> QED
      BY <1>3, <3>2, <3>3
  <2>3. registry'[d] # NoWorker =>
          workers'[registry'[d]].dir = d /\ workers'[registry'[d]].pc = "ready"
    <3> SUFFICES ASSUME d \in ds
                 PROVE  /\ workers'[registry'[d]].dir = d
                        /\ workers'[registry'[d]].pc = "ready"
      BY <2>1
    <3>1. workers'[registry'[d]] = [pc |-> "ready", dir |-> d]
      BY <1>3
    <3> QED
      BY <3>1
  <2> QED
    BY <2>2, <2>3 DEF WorkersAreTrue, Registered, Running
<1>9. \A c \in PluginCalls : calls'[c] = NoCall
  BY DEF Restart
<1>10. \A d \in PluginDirs : asked'[d] = "none"
  BY DEF Restart
<1> QED
  BY <1>7, <1>8, <1>9, <1>10, PluginRows
     DEF PluginsIInv, ServedAlone, ReadStillTrue, LoadsItsOwn, UnloadsRegistered, AskedStands,
         RowAsAsked, Serving

\* What the steps make of a request's record and of a worker's.
LEMMA PluginRecords ==
    ASSUME PluginsTypes
    PROVE  /\ \A c \in PluginCalls, pc \in {"write", "look", "load", "unload"} :
                /\ [calls[c] EXCEPT !.pc = pc] \in PluginCallRows
                /\ [calls[c] EXCEPT !.pc = pc].pc = pc
                /\ [calls[c] EXCEPT !.pc = pc].op = calls[c].op
                /\ [calls[c] EXCEPT !.pc = pc].dir = calls[c].dir
                /\ [calls[c] EXCEPT !.pc = pc].row = calls[c].row
                /\ [calls[c] EXCEPT !.pc = pc].worker = calls[c].worker
           /\ \A w \in PluginWorkers, pc \in {"ready", "ended"} :
                /\ [workers[w] EXCEPT !.pc = pc] \in WorkerRows
                /\ [workers[w] EXCEPT !.pc = pc].pc = pc
                /\ [workers[w] EXCEPT !.pc = pc].dir = workers[w].dir
<1>1. ASSUME NEW c \in PluginCalls, NEW pc \in {"write", "look", "load", "unload"}
      PROVE  /\ [calls[c] EXCEPT !.pc = pc] \in PluginCallRows
             /\ [calls[c] EXCEPT !.pc = pc].pc = pc
             /\ [calls[c] EXCEPT !.pc = pc].op = calls[c].op
             /\ [calls[c] EXCEPT !.pc = pc].dir = calls[c].dir
             /\ [calls[c] EXCEPT !.pc = pc].row = calls[c].row
             /\ [calls[c] EXCEPT !.pc = pc].worker = calls[c].worker
  <2>1. calls[c] \in PluginCallRows
    BY DEF PluginsTypes
  <2> QED
    BY <2>1 DEF PluginCallRows
<1>2. ASSUME NEW w \in PluginWorkers, NEW pc \in {"ready", "ended"}
      PROVE  /\ [workers[w] EXCEPT !.pc = pc] \in WorkerRows
             /\ [workers[w] EXCEPT !.pc = pc].pc = pc
             /\ [workers[w] EXCEPT !.pc = pc].dir = workers[w].dir
  <2>1. workers[w] \in WorkerRows
    BY DEF PluginsTypes
  <2> QED
    BY <2>1 DEF WorkerRows
<1> QED
  BY <1>1, <1>2

\* A step in which no request begins, and one about an overlapped plugin at most goes on
\* beside others: who is served alone stays so.
LEMMA AloneStays ==
    ASSUME PluginsIInv, overlapped' = overlapped,
           \A b \in PluginCalls : calls'[b].pc # "idle" =>
             calls[b].pc # "idle" /\ calls'[b].dir = calls[b].dir
    PROVE  \A b \in PluginCalls : ServedAlone(b)'
BY DEF PluginsIInv, ServedAlone, Serving

\* Beside a request that is served, one about a plugin none has overlapped is not.
LEMMA OnlyItsOwn ==
    ASSUME PluginsIInv, NEW c \in PluginCalls, calls[c].pc # "idle"
    PROVE  /\ calls[c].dir \in PluginDirs
           /\ \A b \in PluginCalls \ {c} :
                calls[b].pc # "idle" => /\ calls[b].dir \in overlapped
                                        /\ calls[c].dir \in overlapped
           /\ \A d \in PluginDirs \ overlapped :
                d # calls[c].dir => \A b \in Serving : calls[b].dir # d
BY DEF PluginsIInv, ServedAlone, Serving

\* A request stands or goes on with the worker it has, and the others do not move.
LEMMA RowUntouched ==
    ASSUME PluginsIInv, UNCHANGED <<disabled, overlapped>>,
           \A b \in PluginCalls : calls'[b].pc = "write" =>
             calls[b].pc = "write" /\ calls'[b].row = calls[b].row
    PROVE  \A b \in PluginCalls : ReadStillTrue(b)'
BY DEF PluginsIInv, ReadStillTrue

\* Whoever begins beside another request marks its plugin and the others'.
LEMMA BeginStep ==
    ASSUME PluginsIInv, NEW c \in PluginCalls, NEW d \in PluginDirs, NEW op \in PluginOps,
           Begin(c, d, op)
    PROVE  PluginsIInv'
<1> USE DEF PluginsIInv
<1> DEFINE new == [NoCall EXCEPT !.pc = "read", !.op = op, !.dir = d]
<1>1. new \in PluginCallRows /\ new.pc = "read" /\ new.op = op /\ new.dir = d
  BY DEF NoCall, PluginCallRows
<1>2. /\ calls[c].pc = "idle" /\ calls' = [calls EXCEPT ![c] = new]
      /\ UNCHANGED <<disabled, registry, workers, unclean>>
      /\ asked' = [asked EXCEPT ![d] = op]
      /\ overlapped' = IF Serving = {} THEN overlapped
                       ELSE overlapped \cup {d} \cup {calls[b].dir : b \in Serving}
  BY DEF Begin
<1> HIDE DEF new
<1>3. /\ calls'[c] = new /\ calls' \in [PluginCalls -> PluginCallRows]
      /\ \A b \in PluginCalls \ {c} : calls'[b] = calls[b]
      /\ \A b \in PluginCalls : calls'[b].pc \notin {"idle", "read"} => calls'[b] = calls[b]
  BY <1>1, <1>2 DEF PluginsTypes
<1>4. PluginsTypes'
  BY <1>2, <1>3 DEF PluginsTypes
<1>5. Serving' = Serving \cup {c} /\ c \notin Serving
  BY <1>1, <1>2, <1>3 DEF Serving
<1>6. ASSUME NEW b \in PluginCalls
      PROVE  ServedAlone(b)'
  <2>1. CASE Serving = {}
    <3>1. calls'[b].pc # "idle" => b = c
      BY <1>3, <2>1 DEF Serving
    <3> QED
      BY <1>1, <1>3, <1>5, <2>1, <3>1 DEF ServedAlone
  <2>2. CASE Serving # {}
    <3>1. calls'[b].pc # "idle" => calls'[b].dir \in PluginDirs
      BY <1>1, <1>3 DEF ServedAlone
    <3>2. calls'[b].pc # "idle" => calls'[b].dir \in overlapped'
      BY <1>1, <1>2, <1>3, <2>2 DEF Serving
    <3> QED
      BY <3>1, <3>2 DEF ServedAlone
  <2> QED
    BY <2>1, <2>2
<1>7. overlapped \subseteq overlapped'
  BY <1>2
<1>8. ASSUME NEW b \in PluginCalls
      PROVE  ReadStillTrue(b)'
  BY <1>2, <1>3, <1>7 DEF ReadStillTrue
<1>9. ASSUME NEW b \in PluginCalls
      PROVE  LoadsItsOwn(b)' /\ UnloadsRegistered(b)'
  BY <1>2, <1>3, <1>7 DEF LoadsItsOwn, UnloadsRegistered, Registered
<1>10. ASSUME NEW e \in PluginDirs
       PROVE  WorkersAreTrue(e)'
  BY <1>2, <1>7 DEF WorkersAreTrue, Registered, Running
<1>11. ASSUME NEW e \in PluginDirs, e \notin overlapped', e \notin unclean'
       PROVE  AskedStands(e)'
  <2>1. AskedStands(e) /\ \A b \in Serving : calls[b].dir # e
    BY <1>2, <1>7, <1>11
  <2>2. CASE e = d
    <3>1. Serving' = {c} /\ asked'[e] = op
      BY <1>2, <1>5, <1>11, <2>2 DEF PluginsTypes
    <3> QED
      BY <1>1, <1>3, <2>2, <3>1 DEF AskedStands
  <2>3. CASE e # d
    <3>1. asked'[e] = asked[e] /\ \A b \in Serving' : calls'[b].dir # e
      BY <1>1, <1>2, <1>3, <1>5, <2>1, <2>3 DEF PluginsTypes
    <3> QED
      BY <1>2, <2>1, <3>1 DEF AskedStands, RowAsAsked, Registered
  <2> QED
    BY <2>2, <2>3
<1> QED
  BY <1>4, <1>6, <1>8, <1>9, <1>10, <1>11

\* A plugin about which nothing is asked stands as it did, when its row, its registration
\* and what was asked of it stay.
LEMMA StandsAsBefore ==
    ASSUME PluginsIInv, NEW d \in PluginDirs \ (overlapped \cup unclean),
           \A b \in Serving : calls[b].dir # d, \A b \in Serving' : calls'[b].dir # d,
           asked'[d] = asked[d], d \in disabled' <=> d \in disabled,
           registry'[d] = registry[d]
    PROVE  AskedStands(d)'
BY DEF PluginsIInv, AskedStands, RowAsAsked, Registered

LEMMA ReadStep ==
    ASSUME PluginsIInv, NEW c \in PluginCalls, ReadDisabled(c)
    PROVE  PluginsIInv'
<1> USE DEF PluginsIInv
<1> DEFINE next == [calls[c] EXCEPT !.pc = "write", !.row = disabled]
<1>1. calls[c] \in PluginCallRows /\ calls[c].pc = "read"
  BY PluginTypes DEF ReadDisabled
<1>2. /\ calls' = [calls EXCEPT ![c] = next]
      /\ UNCHANGED <<disabled, registry, workers, asked, overlapped, unclean>>
  BY DEF ReadDisabled, PluginsTypes
<1>3. /\ next \in PluginCallRows /\ next.pc = "write" /\ next.row = disabled
      /\ next.dir = calls[c].dir /\ next.op = calls[c].op
  BY <1>1 DEF PluginCallRows, PluginsTypes
<1> HIDE DEF next
<1>4. calls'[c] = next /\ \A b \in PluginCalls \ {c} : calls'[b] = calls[b]
  BY <1>2 DEF PluginsTypes
<1>5. PluginsTypes'
  BY <1>2, <1>3 DEF PluginsTypes
<1>6. \A b \in PluginCalls : ServedAlone(b)'
  BY <1>1, <1>2, <1>3, <1>4, AloneStays
<1>7. ASSUME NEW b \in PluginCalls
      PROVE  ReadStillTrue(b)' /\ LoadsItsOwn(b)' /\ UnloadsRegistered(b)'
  <2>1. CASE b = c
    BY <1>2, <1>3, <1>4, <2>1 DEF ReadStillTrue, LoadsItsOwn, UnloadsRegistered
  <2>2. CASE b # c
    BY <1>2, <1>3, <1>4, <2>2 DEF ReadStillTrue, LoadsItsOwn, UnloadsRegistered, Registered
  <2> QED
    BY <2>1, <2>2
<1>8. ASSUME NEW d \in PluginDirs
      PROVE  WorkersAreTrue(d)'
  BY <1>2 DEF WorkersAreTrue, Registered, Running
<1>9. ASSUME NEW d \in PluginDirs \ (overlapped \cup unclean)
      PROVE  AskedStands(d)'
  BY <1>1, <1>2, <1>3, <1>4 DEF AskedStands, RowAsAsked, Registered, Serving
<1> QED
  BY <1>2, <1>5, <1>6, <1>7, <1>8, <1>9

\* The row is written as it was read, but for the request's own plugin.
LEMMA WriteStep ==
    ASSUME PluginsIInv, NEW c \in PluginCalls, WriteDisabled(c)
    PROVE  PluginsIInv'
<1> USE DEF PluginsIInv
<1> DEFINE dir == calls[c].dir
           next == [calls[c] EXCEPT !.pc = "look"]
<1>1. /\ calls[c] \in PluginCallRows /\ calls[c].pc = "write" /\ dir \in PluginDirs
      /\ UNCHANGED <<registry, workers, overlapped, unclean>>
  BY PluginTypes, OnlyItsOwn DEF WriteDisabled
<1>2. PICK call \in {next, NoCall} :
        /\ calls' = [calls EXCEPT ![c] = call]
        /\ \/ /\ call = next /\ asked' = asked
              /\ disabled' = IF calls[c].op = "enable" THEN calls[c].row \ {dir}
                             ELSE calls[c].row \cup {dir}
           \/ call = NoCall /\ asked' = [asked EXCEPT ![dir] = "none"] /\ disabled' = disabled
  BY DEF WriteDisabled, PluginsTypes
<1>3. /\ call \in PluginCallRows
      /\ call.pc = "idle" \/ (call.pc = "look" /\ call.dir = dir /\ call.op = calls[c].op)
      /\ next.pc = "look" /\ NoCall.pc = "idle"
  <2>1. next \in PluginCallRows /\ next.pc = "look" /\ next.dir = dir /\ next.op = calls[c].op
    BY PluginRecords
  <2> HIDE DEF next
  <2> QED
    BY <1>2, <2>1, PluginRows
<1> HIDE DEF next
<1>4. calls'[c] = call /\ \A b \in PluginCalls \ {c} : calls'[b] = calls[b]
  BY <1>2 DEF PluginsTypes
<1>5. PluginsTypes'
  <2>1. disabled' \subseteq PluginDirs
    BY <1>1, <1>2 DEF PluginsTypes, PluginCallRows
  <2> QED
    BY <1>1, <1>2, <1>3, <2>1 DEF PluginsTypes
<1>6. \A b \in PluginCalls : ServedAlone(b)'
  BY <1>1, <1>3, <1>4, AloneStays
<1>7. ASSUME NEW d \in PluginDirs \ overlapped, d # dir
      PROVE  d \in disabled' <=> d \in disabled
  BY <1>1, <1>2, <1>7 DEF ReadStillTrue
<1>8. ASSUME NEW b \in PluginCalls
      PROVE  ReadStillTrue(b)' /\ LoadsItsOwn(b)' /\ UnloadsRegistered(b)'
  <2>1. CASE b = c
    BY <1>3, <1>4, <2>1 DEF ReadStillTrue, LoadsItsOwn, UnloadsRegistered
  <2>2. CASE b # c
    <3>1. LoadsItsOwn(b)' /\ UnloadsRegistered(b)'
      BY <1>1, <1>3, <1>4, <2>2 DEF LoadsItsOwn, UnloadsRegistered, Registered
    <3>2. ReadStillTrue(b)'
      <4>1. calls[b].pc = "write" => dir \in overlapped
        BY <1>1, <2>2, OnlyItsOwn
      <4> QED
        BY <1>1, <1>4, <1>7, <2>2, <4>1 DEF ReadStillTrue
    <3> QED
      BY <3>1, <3>2
  <2> QED
    BY <2>1, <2>2
<1>9. ASSUME NEW d \in PluginDirs
      PROVE  WorkersAreTrue(d)'
  BY <1>1 DEF WorkersAreTrue, Registered, Running
<1>10. ASSUME NEW d \in PluginDirs \ (overlapped \cup unclean)
       PROVE  AskedStands(d)'
  <2>1. CASE d # dir
    <3>1. \A b \in Serving : calls[b].dir # d
      BY <1>1, <2>1, OnlyItsOwn
    <3>2. \A b \in Serving' : calls'[b].dir # d
      BY <1>3, <1>4, <2>1, <3>1 DEF Serving
    <3>3. asked'[d] = asked[d] /\ registry'[d] = registry[d]
      BY <1>1, <1>2, <2>1 DEF PluginsTypes
    <3> QED
      BY <1>7, <2>1, <3>1, <3>2, <3>3, StandsAsBefore
  <2>2. CASE d = dir
    <3>1. Serving = {c} /\ asked[d] = calls[c].op
      BY <1>1, <2>2 DEF ServedAlone, AskedStands, Serving
    <3>2. \A b \in Serving' : b = c
      BY <1>4, <3>1 DEF Serving
    <3>3. CASE call = NoCall
      <4>1. Serving' = {} /\ asked'[d] = "none"
        BY <1>1, <1>2, <1>3, <1>4, <2>2, <3>2, <3>3 DEF Serving, PluginsTypes
      <4> QED
        BY <4>1 DEF AskedStands, RowAsAsked
    <3>4. CASE call = next
      <4>1. /\ call.pc = "look" /\ call.dir = dir /\ call.op = calls[c].op /\ asked' = asked
            /\ disabled' = IF calls[c].op = "enable" THEN calls[c].row \ {dir}
                           ELSE calls[c].row \cup {dir}
        BY <1>2, <1>3, <3>4
      <4>2. Serving' = {c}
        BY <1>4, <3>2, <4>1 DEF Serving
      <4>3. RowAsAsked(d)'
        BY <2>2, <3>1, <4>1 DEF RowAsAsked
      <4> QED
        BY <1>4, <2>2, <3>1, <4>1, <4>2, <4>3 DEF AskedStands
    <3> QED
      BY <3>3, <3>4
  <2> QED
    BY <2>1, <2>2
<1> QED
  BY <1>1, <1>5, <1>6, <1>8, <1>9, <1>10

\* A request that is done, or that goes on with a worker, after its look or its load. The
\* row stays.
LEMMA CallGoesOn ==
    ASSUME PluginsIInv, NEW c \in PluginCalls, NEW call \in PluginCallRows,
           calls[c].pc \in {"look", "load"}, calls' = [calls EXCEPT ![c] = call],
           UNCHANGED <<disabled, asked, overlapped, unclean>>,
           \/ call.pc = "idle"
           \/ /\ call.pc \in {"load", "unload"}
              /\ call.dir = calls[c].dir /\ call.op = calls[c].op,
           PluginsTypes', LoadsItsOwn(c)', UnloadsRegistered(c)',
           \A b \in PluginCalls \ {c} : LoadsItsOwn(b)' /\ UnloadsRegistered(b)',
           \A d \in PluginDirs : WorkersAreTrue(d)',
           \A d \in PluginDirs : d # calls[c].dir => registry'[d] = registry[d],
           call.pc = "idle" /\ calls[c].op = "disable" => registry'[calls[c].dir] = NoWorker
    PROVE  PluginsIInv'
<1> USE DEF PluginsIInv
<1> DEFINE dir == calls[c].dir
<1>1. calls[c] \in PluginCallRows /\ dir \in PluginDirs
  BY PluginTypes, OnlyItsOwn
<1>2. calls'[c] = call /\ \A b \in PluginCalls \ {c} : calls'[b] = calls[b]
  BY DEF PluginsTypes
<1>3. \A b \in PluginCalls : ServedAlone(b)'
  BY <1>2, AloneStays
<1>4. \A b \in PluginCalls : ReadStillTrue(b)'
  BY <1>2, RowUntouched
<1>5. ASSUME NEW d \in PluginDirs \ (overlapped \cup unclean)
      PROVE  AskedStands(d)'
  <2>1. CASE d # dir
    <3>1. \A b \in Serving : calls[b].dir # d
      BY <2>1, OnlyItsOwn
    <3>2. \A b \in Serving' : calls'[b].dir # d
      BY <1>2, <2>1, <3>1 DEF Serving
    <3> QED
      BY <2>1, <3>1, <3>2, StandsAsBefore
  <2>2. CASE d = dir
    <3>1. Serving = {c} /\ asked[d] = calls[c].op /\ RowAsAsked(d)
      BY <1>1, <2>2 DEF ServedAlone, AskedStands, Serving
    <3>2. \A b \in Serving' : b = c
      BY <1>2, <3>1 DEF Serving
    <3>3. RowAsAsked(d)'
      BY <3>1 DEF RowAsAsked
    <3>4. CASE call.pc = "idle"
      <4>1. Serving' = {}
        BY <1>2, <3>2, <3>4 DEF Serving
      <4> QED
        BY <2>2, <3>1, <3>3, <3>4, <4>1 DEF AskedStands, Registered
    <3>5. CASE call.pc # "idle"
      <4>1. c \in Serving' /\ calls'[c].dir = d
        BY <1>2, <2>2, <3>5 DEF Serving
      <4> QED
        BY <1>2, <3>1, <3>2, <3>3, <3>5, <4>1 DEF AskedStands
    <3> QED
      BY <3>4, <3>5
  <2> QED
    BY <2>1, <2>2
<1> QED
  BY <1>3, <1>4, <1>5

LEMMA LookEnableStep ==
    ASSUME PluginsIInv, NEW c \in PluginCalls, LookEnable(c)
    PROVE  PluginsIInv'
<1> USE DEF PluginsIInv
<1> DEFINE dir == calls[c].dir
<1>1. /\ calls[c] \in PluginCallRows /\ calls[c].pc = "look" /\ calls[c].op = "enable"
      /\ dir \in PluginDirs /\ UNCHANGED <<disabled, registry, asked, overlapped, unclean>>
  BY PluginTypes, OnlyItsOwn DEF LookEnable
<1>2. CASE Registered(dir)
  <2>1. calls' = [calls EXCEPT ![c] = NoCall] /\ UNCHANGED workers
    BY <1>2 DEF LookEnable, Done
  <2>2. PluginsTypes' /\ calls'[c] = NoCall /\ \A b \in PluginCalls \ {c} : calls'[b] = calls[b]
    BY <1>1, <2>1, PluginRows DEF PluginsTypes
  <2>3. \A b \in PluginCalls : LoadsItsOwn(b)' /\ UnloadsRegistered(b)'
    BY <1>1, <2>1, <2>2, PluginRows DEF LoadsItsOwn, UnloadsRegistered, Registered
  <2>4. \A d \in PluginDirs : WorkersAreTrue(d)'
    BY <1>1, <2>1 DEF WorkersAreTrue, Registered, Running
  <2> QED
    BY <1>1, <2>1, <2>2, <2>3, <2>4, PluginRows, CallGoesOn
<1>3. CASE ~Registered(dir)
  <2>1. PICK w \in FreeWorkers :
          /\ workers' = [workers EXCEPT ![w] = [pc |-> "loading", dir |-> dir]]
          /\ calls' = [calls EXCEPT ![c] = [calls[c] EXCEPT !.pc = "load", !.worker = w]]
    BY <1>3 DEF LookEnable
  <2> DEFINE call == [calls[c] EXCEPT !.pc = "load", !.worker = w]
             worker == [pc |-> "loading", dir |-> dir]
  <2>2. /\ w \in PluginWorkers /\ workers[w].pc \in {"free", "ended"}
        /\ \A d \in PluginDirs : registry[d] # w
    BY <2>1 DEF FreeWorkers
  <2>3. /\ call \in PluginCallRows /\ call.pc = "load" /\ call.worker = w
        /\ call.dir = dir /\ call.op = "enable"
    BY <1>1, <2>2 DEF PluginCallRows
  <2>4. calls' = [calls EXCEPT ![c] = call]
    BY <2>1 DEF PluginsTypes
  <2>5. worker \in WorkerRows /\ worker.pc = "loading"
    BY <1>1 DEF WorkerRows
  <2>6. workers' = [workers EXCEPT ![w] = worker]
    BY <2>1
  <2> HIDE DEF call
  <2>7. /\ calls'[c] = call /\ \A b \in PluginCalls \ {c} : calls'[b] = calls[b]
        /\ workers'[w] = worker /\ \A v \in PluginWorkers \ {w} : workers'[v] = workers[v]
    BY <2>2, <2>4, <2>6 DEF PluginsTypes
  <2>8. PluginsTypes'
    BY <1>1, <2>3, <2>4, <2>5, <2>6 DEF PluginsTypes
  <2>9. ASSUME NEW b \in PluginCalls \ {c}, calls[b].pc = "load"
        PROVE  calls[b].worker # w /\ calls[b].worker \in PluginWorkers
    <3>1. calls[b].worker \in PluginWorkers /\ workers[calls[b].worker].pc = "loading"
      <4>1. LoadsItsOwn(b)
        OBVIOUS
      <4> QED
        BY <2>9, <4>1 DEF LoadsItsOwn
    <3> QED
      BY <2>2, <3>1
  <2>10. LoadsItsOwn(c)' /\ UnloadsRegistered(c)'
    BY <1>1, <1>3, <2>2, <2>3, <2>7, <2>9 DEF LoadsItsOwn, UnloadsRegistered, Registered
  <2>11. ASSUME NEW b \in PluginCalls \ {c}
         PROVE  LoadsItsOwn(b)' /\ UnloadsRegistered(b)'
    <3>1. UnloadsRegistered(b)'
      BY <1>1, <2>7 DEF UnloadsRegistered, Registered
    <3>2. LoadsItsOwn(b)'
      <4> SUFFICES ASSUME calls[b].pc = "load"
                   PROVE  LoadsItsOwn(b)'
        BY <2>7 DEF LoadsItsOwn
      <4>1. calls[b].worker # w /\ workers'[calls[b].worker] = workers[calls[b].worker]
        BY <2>7, <2>9
      <4> QED
        BY <1>1, <2>3, <2>7, <4>1 DEF LoadsItsOwn, Registered
    <3> QED
      BY <3>1, <3>2
  <2>12. ASSUME NEW d \in PluginDirs
         PROVE  WorkersAreTrue(d)'
    <3>1. Registered(d) => registry[d] \in PluginWorkers \ {w}
      BY <2>2, PluginTypes
    <3>2. Running(d)' \subseteq Running(d)
      BY <2>5, <2>7 DEF Running
    <3> QED
      BY <1>1, <2>7, <3>1, <3>2 DEF WorkersAreTrue, Registered
  <2> QED
    BY <1>1, <2>3, <2>4, <2>8, <2>10, <2>11, <2>12, CallGoesOn
<1> QED
  BY <1>2, <1>3

LEMMA LookDisableStep ==
    ASSUME PluginsIInv, NEW c \in PluginCalls, LookDisable(c)
    PROVE  PluginsIInv'
<1> USE DEF PluginsIInv
<1> DEFINE dir == calls[c].dir
<1>1. /\ calls[c] \in PluginCallRows /\ calls[c].pc = "look" /\ calls[c].op = "disable"
      /\ dir \in PluginDirs
      /\ UNCHANGED <<disabled, registry, workers, asked, overlapped, unclean>>
  BY PluginTypes, OnlyItsOwn DEF LookDisable
<1>2. PICK call \in PluginCallRows :
        /\ calls' = [calls EXCEPT ![c] = call]
        /\ \/ call.pc = "idle" /\ registry[dir] = NoWorker
           \/ /\ call.pc = "unload" /\ call.op = "disable" /\ call.dir = dir
              /\ call.worker = registry[dir] /\ Registered(dir)
  <2>1. CASE Registered(dir)
    <3> DEFINE call == [calls[c] EXCEPT !.pc = "unload", !.worker = registry[dir]]
    <3>1. registry[dir] \in PluginWorkers
      BY <1>1, <2>1, PluginTypes
    <3>2. /\ call \in PluginCallRows /\ call.pc = "unload" /\ call.op = "disable"
          /\ call.dir = dir /\ call.worker = registry[dir]
      BY <1>1, <3>1 DEF PluginCallRows
    <3>3. calls' = [calls EXCEPT ![c] = call]
      BY <2>1 DEF LookDisable, PluginsTypes
    <3> HIDE DEF call
    <3> QED
      BY <2>1, <3>2, <3>3
  <2>2. CASE ~Registered(dir)
    BY <2>2, PluginRows DEF LookDisable, Done, Registered
  <2> QED
    BY <2>1, <2>2
<1>3. calls'[c] = call /\ \A b \in PluginCalls \ {c} : calls'[b] = calls[b]
  BY <1>2 DEF PluginsTypes
<1>4. PluginsTypes'
  BY <1>1, <1>2 DEF PluginsTypes
<1>5. LoadsItsOwn(c)' /\ UnloadsRegistered(c)'
  BY <1>1, <1>2, <1>3 DEF LoadsItsOwn, UnloadsRegistered, Registered
<1>6. ASSUME NEW b \in PluginCalls \ {c}
      PROVE  LoadsItsOwn(b)' /\ UnloadsRegistered(b)'
  BY <1>1, <1>2, <1>3 DEF LoadsItsOwn, UnloadsRegistered, Registered
<1>7. \A d \in PluginDirs : WorkersAreTrue(d)'
  BY <1>1 DEF WorkersAreTrue, Registered, Running
<1> QED
  BY <1>1, <1>2, <1>4, <1>5, <1>6, <1>7, CallGoesOn

\* Where nobody else asks about the plugin, the worker is registered; otherwise one that runs
\* already may stay in the registry, and the plugin is among the overlapped ones.
LEMMA LoadDoneStep ==
    ASSUME PluginsIInv, NEW c \in PluginCalls, LoadDone(c)
    PROVE  PluginsIInv'
<1> USE DEF PluginsIInv
<1> DEFINE dir == calls[c].dir
           w == calls[c].worker
           ready == [workers[w] EXCEPT !.pc = "ready"]
<1>1. /\ calls[c] \in PluginCallRows /\ calls[c].pc = "load" /\ dir \in PluginDirs
      /\ UNCHANGED <<disabled, asked, overlapped, unclean>>
  BY PluginTypes, OnlyItsOwn DEF LoadDone
<1>2. /\ calls[c].op = "enable" /\ w \in PluginWorkers
      /\ workers[w] = [pc |-> "loading", dir |-> dir]
      /\ \A b \in PluginCalls \ {c} : calls[b].pc = "load" => calls[b].worker # w
      /\ dir \notin overlapped => ~Registered(dir)
  <2>1. LoadsItsOwn(c)
    OBVIOUS
  <2> QED
    BY <1>1, <2>1 DEF LoadsItsOwn
<1>3. /\ calls' = [calls EXCEPT ![c] = NoCall]
      /\ workers' = [workers EXCEPT ![w] = ready]
      /\ registry' = IF Registered(dir) THEN registry ELSE [registry EXCEPT ![dir] = w]
  BY DEF LoadDone, Done
<1>4. ready \in WorkerRows /\ ready.pc = "ready" /\ ready.dir = dir
  <2>1. ready \in WorkerRows /\ ready.pc = "ready" /\ ready.dir = workers[w].dir
    BY <1>2, PluginRecords
  <2> HIDE DEF ready
  <2> QED
    BY <1>2, <2>1
<1> HIDE DEF ready
<1>5. /\ calls'[c] = NoCall /\ \A b \in PluginCalls \ {c} : calls'[b] = calls[b]
      /\ workers'[w] = ready /\ \A v \in PluginWorkers \ {w} : workers'[v] = workers[v]
      /\ \A d \in PluginDirs \ {dir} : registry'[d] = registry[d]
      /\ registry'[dir] = IF Registered(dir) THEN registry[dir] ELSE w
  BY <1>1, <1>2, <1>3 DEF PluginsTypes
<1>6. PluginsTypes'
  BY <1>1, <1>2, <1>3, <1>4, PluginRows DEF PluginsTypes
<1>7. w # NoWorker
  BY <1>2, PluginsAssumption
<1>8. LoadsItsOwn(c)' /\ UnloadsRegistered(c)'
  BY <1>5, PluginRows DEF LoadsItsOwn, UnloadsRegistered
<1>9. ASSUME NEW b \in PluginCalls \ {c}
      PROVE  LoadsItsOwn(b)' /\ UnloadsRegistered(b)'
  <2>1. calls[b].pc # "idle" => calls[b].dir \in overlapped /\ calls[b].dir \in PluginDirs
    BY <1>1, OnlyItsOwn
  <2>2. LoadsItsOwn(b) /\ UnloadsRegistered(b)
    OBVIOUS
  <2>3. LoadsItsOwn(b)'
    <3> SUFFICES ASSUME calls[b].pc = "load"
                 PROVE  LoadsItsOwn(b)'
      BY <1>5 DEF LoadsItsOwn
    <3>1. calls[b].worker \in PluginWorkers \ {w}
      BY <1>2, <2>2 DEF LoadsItsOwn
    <3> QED
      BY <1>1, <1>5, <2>1, <2>2, <3>1, PluginRows DEF LoadsItsOwn
  <2>4. UnloadsRegistered(b)'
    BY <1>5, <2>1, <2>2 DEF UnloadsRegistered, Registered
  <2> QED
    BY <2>3, <2>4
<1>10. ASSUME NEW d \in PluginDirs
       PROVE  WorkersAreTrue(d)'
  <2>1. WorkersAreTrue(d)
    OBVIOUS
  <2>2. ASSUME Registered(d)
        PROVE  registry[d] \in PluginWorkers \ {w} /\ registry'[d] = registry[d]
    <3>1. workers[registry[d]].pc # "loading" /\ registry[d] \in PluginWorkers
      BY <2>1, <2>2, PluginTypes DEF WorkersAreTrue
    <3> QED
      BY <1>2, <1>5, <2>2, <3>1
  <2>3. ASSUME Registered(d)'
        PROVE  /\ workers'[registry'[d]].dir = d
               /\ \/ workers'[registry'[d]].pc = "ready"
                  \/ workers'[registry'[d]].pc = "ended" /\ d \in unclean'
    <3>1. CASE Registered(d)
      BY <1>1, <1>5, <2>1, <2>2, <3>1 DEF WorkersAreTrue
    <3>2. CASE ~Registered(d)
      <4>1. d = dir /\ registry'[d] = w
        BY <1>5, <2>3, <3>2 DEF Registered
      <4> QED
        BY <1>4, <1>5, <4>1
    <3> QED
      BY <3>1, <3>2
  <2>4. ASSUME d \notin overlapped, NEW v \in PluginWorkers, workers'[v].pc = "ready",
               workers'[v].dir = d
        PROVE  registry'[d] = v
    <3>1. CASE v = w
      BY <1>2, <1>4, <1>5, <2>4, <3>1
    <3>2. CASE v # w
      <4>1. v \in Running(d)
        BY <1>5, <2>4, <3>2 DEF Running
      <4>2. registry[d] = v
        BY <2>1, <2>4, <4>1 DEF WorkersAreTrue
      <4>3. Registered(d)
        BY <4>2, PluginsAssumption DEF Registered
      <4> QED
        BY <2>2, <4>2, <4>3
    <3> QED
      BY <3>1, <3>2
  <2> QED
    BY <1>1, <2>3, <2>4 DEF WorkersAreTrue, Running
<1> QED
  BY <1>1, <1>2, <1>3, <1>5, <1>6, <1>8, <1>9, <1>10, PluginRows, CallGoesOn

\* A worker that ends is not one that loads for another request; if it is registered, its
\* plugin is among the unclean ones.
LEMMA WorkerEnds ==
    ASSUME PluginsIInv, NEW w \in PluginWorkers,
           workers' = [workers EXCEPT ![w].pc = "ended"],
           \A d \in PluginDirs : registry'[d] = w => d \in unclean',
           \A d \in PluginDirs : registry'[d] \in {registry[d], NoWorker},
           \A d \in PluginDirs : registry'[d] # registry[d] => registry[d] = w,
           unclean \subseteq unclean', overlapped' = overlapped
    PROVE  /\ workers' \in [PluginWorkers -> WorkerRows]
           /\ \A d \in PluginDirs : WorkersAreTrue(d)'
           /\ \A b \in PluginCalls :
                calls[b].pc = "load" /\ calls[b].worker # w /\ calls'[b] = calls[b]
                  /\ (\A a \in PluginCalls \ {b} : calls'[a].pc = "load" => calls'[a] = calls[a])
                => LoadsItsOwn(b)'
<1> USE DEF PluginsIInv
<1> DEFINE ended == [workers[w] EXCEPT !.pc = "ended"]
<1>1. /\ ended \in WorkerRows /\ ended.pc = "ended" /\ ended.dir = workers[w].dir
      /\ workers' = [workers EXCEPT ![w] = ended]
  BY PluginRecords DEF PluginsTypes
<1> HIDE DEF ended
<1>2. workers'[w] = ended /\ \A v \in PluginWorkers \ {w} : workers'[v] = workers[v]
  BY <1>1 DEF PluginsTypes
<1>3. workers' \in [PluginWorkers -> WorkerRows]
  BY <1>1 DEF PluginsTypes
<1>4. ASSUME NEW d \in PluginDirs
      PROVE  WorkersAreTrue(d)'
  <2>1. WorkersAreTrue(d) /\ registry[d] \in PluginWorkers \cup {NoWorker}
    BY PluginTypes
  <2>2. ASSUME Registered(d)'
        PROVE  /\ workers'[registry'[d]].dir = d
               /\ \/ workers'[registry'[d]].pc = "ready"
                  \/ workers'[registry'[d]].pc = "ended" /\ d \in unclean'
    <3>1. registry'[d] = registry[d] /\ Registered(d)
      BY <2>2 DEF Registered
    <3>2. CASE registry[d] = w
      BY <1>1, <1>2, <2>1, <3>1, <3>2 DEF WorkersAreTrue
    <3>3. CASE registry[d] # w
      BY <1>2, <2>1, <3>1, <3>3 DEF WorkersAreTrue, Registered
    <3> QED
      BY <3>2, <3>3
  <2>3. ASSUME d \notin overlapped, NEW v \in PluginWorkers, workers'[v].pc = "ready",
               workers'[v].dir = d
        PROVE  registry'[d] = v
    <3>1. v # w /\ v \in Running(d)
      BY <1>1, <1>2, <2>3 DEF Running
    <3>2. registry[d] = v
      BY <2>1, <2>3, <3>1 DEF WorkersAreTrue
    <3> QED
      BY <3>1, <3>2
  <2> QED
    BY <2>2, <2>3 DEF WorkersAreTrue, Running
<1>5. ASSUME NEW b \in PluginCalls, calls[b].pc = "load", calls[b].worker # w,
             calls'[b] = calls[b],
             \A a \in PluginCalls \ {b} : calls'[a].pc = "load" => calls'[a] = calls[a]
      PROVE  LoadsItsOwn(b)'
  <2>1. LoadsItsOwn(b) /\ calls[b].dir \in PluginDirs
    BY <1>5, OnlyItsOwn
  <2>2. workers'[calls[b].worker] = workers[calls[b].worker]
    BY <1>2, <1>5, <2>1 DEF LoadsItsOwn
  <2>3. \A a \in PluginCalls \ {b} : calls'[a].pc = "load" => calls'[a].worker # calls'[b].worker
    BY <1>5, <2>1 DEF LoadsItsOwn
  <2>4. registry[calls[b].dir] = NoWorker => registry'[calls[b].dir] = NoWorker
    BY <2>1
  <2> QED
    BY <1>5, <2>1, <2>2, <2>3, <2>4 DEF LoadsItsOwn, Registered
<1> QED
  BY <1>3, <1>4, <1>5

LEMMA LoadFailsStep ==
    ASSUME PluginsIInv, NEW c \in PluginCalls, LoadFails(c)
    PROVE  PluginsIInv'
<1> USE DEF PluginsIInv
<1> DEFINE w == calls[c].worker
<1>1. /\ calls[c] \in PluginCallRows /\ calls[c].pc = "load"
      /\ UNCHANGED <<disabled, registry, asked, overlapped, unclean>>
      /\ calls' = [calls EXCEPT ![c] = NoCall]
      /\ workers' = [workers EXCEPT ![w].pc = "ended"]
  BY PluginTypes DEF LoadFails, Done
<1>2. /\ calls[c].op = "enable" /\ w \in PluginWorkers /\ workers[w].pc = "loading"
      /\ \A b \in PluginCalls \ {c} : calls[b].pc = "load" => calls[b].worker # w
  <2>1. LoadsItsOwn(c)
    OBVIOUS
  <2> QED
    BY <1>1, <2>1 DEF LoadsItsOwn
<1>3. calls'[c] = NoCall /\ \A b \in PluginCalls \ {c} : calls'[b] = calls[b]
  BY <1>1 DEF PluginsTypes
<1>4. ASSUME NEW d \in PluginDirs
      PROVE  registry[d] # w
  <2>1. w # NoWorker /\ WorkersAreTrue(d)
    BY <1>2, PluginsAssumption
  <2> QED
    BY <1>2, <2>1 DEF WorkersAreTrue, Registered
<1>5. /\ workers' \in [PluginWorkers -> WorkerRows]
      /\ \A d \in PluginDirs : WorkersAreTrue(d)'
      /\ \A b \in PluginCalls :
           calls[b].pc = "load" /\ calls[b].worker # w /\ calls'[b] = calls[b]
             /\ (\A a \in PluginCalls \ {b} : calls'[a].pc = "load" => calls'[a] = calls[a])
           => LoadsItsOwn(b)'
  <2> HIDE DEF w
  <2> QED
    BY <1>1, <1>2, <1>4, WorkerEnds
<1>6. PluginsTypes'
  BY <1>1, <1>5, PluginRows DEF PluginsTypes
<1>7. LoadsItsOwn(c)' /\ UnloadsRegistered(c)'
  BY <1>3, PluginRows DEF LoadsItsOwn, UnloadsRegistered
<1>8. ASSUME NEW b \in PluginCalls \ {c}
      PROVE  LoadsItsOwn(b)' /\ UnloadsRegistered(b)'
  <2>1. UnloadsRegistered(b)'
    BY <1>1, <1>3 DEF UnloadsRegistered, Registered
  <2>2. CASE calls[b].pc = "load"
    BY <1>2, <1>3, <1>5, <2>1, <2>2, PluginRows
  <2>3. CASE calls[b].pc # "load"
    BY <1>3, <2>1, <2>3 DEF LoadsItsOwn
  <2> QED
    BY <2>1, <2>2, <2>3
<1> QED
  BY <1>1, <1>2, <1>5, <1>6, <1>7, <1>8, PluginRows, CallGoesOn

LEMMA ExitStep ==
    ASSUME PluginsIInv, NEW w \in PluginWorkers, WorkerExits(w)
    PROVE  PluginsIInv'
<1> USE DEF PluginsIInv
<1>1. /\ workers[w].pc = "ready" /\ workers' = [workers EXCEPT ![w].pc = "ended"]
      /\ unclean' = unclean \cup {workers[w].dir}
      /\ UNCHANGED <<disabled, registry, calls, asked, overlapped>>
  BY DEF WorkerExits
<1>2. ASSUME NEW d \in PluginDirs, registry[d] = w
      PROVE  d \in unclean'
  <2>1. WorkersAreTrue(d) /\ Registered(d)
    BY <1>2, PluginsAssumption DEF Registered
  <2> QED
    BY <1>1, <1>2, <2>1 DEF WorkersAreTrue
<1>3. /\ workers' \in [PluginWorkers -> WorkerRows]
      /\ \A d \in PluginDirs : WorkersAreTrue(d)'
      /\ \A b \in PluginCalls :
           calls[b].pc = "load" /\ calls[b].worker # w /\ calls'[b] = calls[b]
             /\ (\A a \in PluginCalls \ {b} : calls'[a].pc = "load" => calls'[a] = calls[a])
           => LoadsItsOwn(b)'
  BY <1>1, <1>2, WorkerEnds
<1>4. PluginsTypes'
  BY <1>1, <1>3 DEF PluginsTypes
<1>5. ASSUME NEW b \in PluginCalls
      PROVE  ServedAlone(b)' /\ ReadStillTrue(b)' /\ UnloadsRegistered(b)'
  BY <1>1 DEF ServedAlone, ReadStillTrue, UnloadsRegistered, Registered, Serving
<1>6. ASSUME NEW b \in PluginCalls
      PROVE  LoadsItsOwn(b)'
  <2>1. LoadsItsOwn(b)
    OBVIOUS
  <2>2. CASE calls[b].pc = "load"
    <3>1. calls[b].worker # w
      BY <1>1, <2>1, <2>2 DEF LoadsItsOwn
    <3> QED
      BY <1>1, <1>3, <2>2, <3>1
  <2>3. CASE calls[b].pc # "load"
    BY <1>1, <2>3 DEF LoadsItsOwn
  <2> QED
    BY <2>2, <2>3
<1>7. ASSUME NEW d \in PluginDirs, d \notin overlapped', d \notin unclean'
      PROVE  AskedStands(d)'
  <2>1. AskedStands(d)
    BY <1>1, <1>7
  <2> QED
    BY <1>1, <2>1 DEF AskedStands, RowAsAsked, Registered, Serving
<1> QED
  BY <1>3, <1>4, <1>5, <1>6, <1>7

\* The requests that wait for a worker are about the plugin it is registered for.
LEMMA WaitersPlugin ==
    ASSUME PluginsIInv, NEW w \in PluginWorkers, Waiting(w) # {}
    PROVE  /\ workers[w].dir \in PluginDirs /\ registry[workers[w].dir] = w
           /\ workers[w].pc \in {"ready", "ended"}
           /\ \A c \in Waiting(w) : calls[c].dir = workers[w].dir
           /\ \A c \in PluginCalls \ Waiting(w) :
                calls[c].pc = "unload" => calls[c].dir # workers[w].dir
           /\ \A d \in PluginDirs : registry[d] = w => d = workers[w].dir
<1> USE DEF PluginsIInv
<1>1. ASSUME NEW d \in PluginDirs, registry[d] = w
      PROVE  d = workers[w].dir /\ workers[w].pc \in {"ready", "ended"}
  <2>1. WorkersAreTrue(d) /\ Registered(d)
    BY <1>1, PluginsAssumption DEF Registered
  <2> QED
    BY <1>1, <2>1 DEF WorkersAreTrue
<1>2. ASSUME NEW c \in PluginCalls, calls[c].pc = "unload"
      PROVE  calls[c].dir \in PluginDirs /\ registry[calls[c].dir] = calls[c].worker
  <2>1. UnloadsRegistered(c)
    OBVIOUS
  <2> QED
    BY <1>2, <2>1, OnlyItsOwn DEF UnloadsRegistered
<1>3. ASSUME NEW c \in Waiting(w)
      PROVE  /\ calls[c].dir = workers[w].dir /\ calls[c].dir \in PluginDirs
             /\ registry[calls[c].dir] = w /\ workers[w].pc \in {"ready", "ended"}
  BY <1>1, <1>2 DEF Waiting
<1>4. PICK c \in PluginCalls : c \in Waiting(w)
  BY DEF Waiting
<1>5. ASSUME NEW b \in PluginCalls \ Waiting(w), calls[b].pc = "unload"
      PROVE  calls[b].dir # workers[w].dir
  BY <1>2, <1>3, <1>4, <1>5 DEF Waiting
<1> QED
  BY <1>1, <1>3, <1>4, <1>5

\* The worker has unloaded or failed to; who waited for it is answered.
LEMMA UnloadStep ==
    ASSUME PluginsIInv, NEW w \in PluginWorkers, Unloaded(w) \/ UnloadFails(w)
    PROVE  PluginsIInv'
<1> USE DEF PluginsIInv
<1> DEFINE dir == workers[w].dir
<1>1. /\ Waiting(w) # {} /\ workers' = [workers EXCEPT ![w].pc = "ended"]
      /\ calls' = [c \in PluginCalls |-> IF c \in Waiting(w) THEN NoCall ELSE calls[c]]
      /\ UNCHANGED <<disabled, asked, overlapped>>
      /\ \/ unclean' = unclean /\ registry' = [registry EXCEPT ![dir] = NoWorker]
         \/ unclean' = unclean \cup {dir} /\ registry' = registry
  BY DEF Unloaded, UnloadFails, Answered
<1>2. /\ dir \in PluginDirs /\ registry[dir] = w
      /\ \A c \in Waiting(w) : calls[c].dir = dir
      /\ \A c \in PluginCalls \ Waiting(w) : calls[c].pc = "unload" => calls[c].dir # dir
      /\ \A d \in PluginDirs : registry[d] = w => d = dir
      /\ workers[w].pc \in {"ready", "ended"}
  BY <1>1, WaitersPlugin
<1> HIDE DEF dir
<1>3. /\ \A c \in Waiting(w) : calls'[c] = NoCall /\ calls[c].pc = "unload"
      /\ \A c \in PluginCalls \ Waiting(w) : calls'[c] = calls[c]
      /\ \A d \in PluginDirs \ {dir} : registry'[d] = registry[d]
      /\ w # NoWorker
  BY <1>1, <1>2, PluginsAssumption DEF Waiting, PluginsTypes
<1>4. \/ registry'[dir] = NoWorker
      \/ registry'[dir] = w /\ dir \in unclean'
  BY <1>1, <1>2 DEF PluginsTypes
<1>5. /\ workers' \in [PluginWorkers -> WorkerRows]
      /\ \A d \in PluginDirs : WorkersAreTrue(d)'
      /\ \A b \in PluginCalls :
           calls[b].pc = "load" /\ calls[b].worker # w /\ calls'[b] = calls[b]
             /\ (\A a \in PluginCalls \ {b} : calls'[a].pc = "load" => calls'[a] = calls[a])
           => LoadsItsOwn(b)'
  <2>1. \A d \in PluginDirs : registry'[d] = w => d \in unclean'
    BY <1>2, <1>3, <1>4
  <2>2. \A d \in PluginDirs : registry'[d] \in {registry[d], NoWorker}
    BY <1>2, <1>3, <1>4
  <2>3. \A d \in PluginDirs : registry'[d] # registry[d] => registry[d] = w
    BY <1>2, <1>3
  <2> QED
    BY <1>1, <2>1, <2>2, <2>3, WorkerEnds
<1>6. PluginsTypes'
  <2>1. calls' \in [PluginCalls -> PluginCallRows]
    BY <1>1, PluginRows DEF PluginsTypes
  <2> QED
    BY <1>1, <1>5, <2>1 DEF PluginsTypes
<1>7. ASSUME NEW b \in PluginCalls
      PROVE  LoadsItsOwn(b)' /\ UnloadsRegistered(b)'
  <2>1. /\ LoadsItsOwn(b) /\ UnloadsRegistered(b)
        /\ calls[b].pc # "idle" => calls[b].dir \in PluginDirs
    BY OnlyItsOwn
  <2>2. CASE b \in Waiting(w)
    BY <1>3, <2>2, PluginRows DEF LoadsItsOwn, UnloadsRegistered
  <2>3. CASE b \notin Waiting(w)
    <3>1. UnloadsRegistered(b)'
      BY <1>2, <1>3, <2>1, <2>3 DEF UnloadsRegistered, Registered
    <3>2. CASE calls[b].pc = "load"
      <4>1. calls[b].worker # w
        BY <1>2, <2>1, <3>2 DEF LoadsItsOwn
      <4>2. \A a \in PluginCalls : calls'[a].pc = "load" => calls'[a] = calls[a]
        BY <1>3, PluginRows
      <4> QED
        BY <1>3, <1>5, <2>3, <3>1, <3>2, <4>1, <4>2
    <3>3. CASE calls[b].pc # "load"
      BY <1>3, <2>3, <3>1, <3>3 DEF LoadsItsOwn
    <3> QED
      BY <3>2, <3>3
  <2> QED
    BY <2>2, <2>3
<1>8. \A b \in PluginCalls : calls'[b].pc # "idle" => calls'[b] = calls[b]
  BY <1>3, PluginRows
<1>9. \A b \in PluginCalls : ServedAlone(b)'
  BY <1>1, <1>8, AloneStays
<1>10. \A b \in PluginCalls : ReadStillTrue(b)'
  BY <1>1, <1>8, RowUntouched
<1>11. ASSUME NEW d \in PluginDirs, d \notin overlapped', d \notin unclean'
       PROVE  AskedStands(d)'
  <2>1. AskedStands(d) /\ d \in PluginDirs \ (overlapped \cup unclean)
    BY <1>1, <1>11
  <2>2. PICK c \in PluginCalls : c \in Waiting(w) /\ calls[c].pc = "unload"
    BY <1>1 DEF Waiting
  <2>3. CASE d # dir
    <3>1. \A b \in Serving : calls[b].dir # d
      BY <1>2, <2>1, <2>2, <2>3, OnlyItsOwn
    <3>2. \A b \in Serving' : calls'[b].dir # d
      BY <1>8, <3>1 DEF Serving
    <3> QED
      BY <1>1, <1>3, <2>1, <2>3, <3>1, <3>2, StandsAsBefore
  <2>4. CASE d = dir
    <3>1. registry'[d] = NoWorker
      BY <1>4, <1>11, <2>4
    <3>2. Serving = {c} /\ c \in Serving /\ calls[c].dir = d
      BY <1>2, <2>1, <2>2, <2>4 DEF ServedAlone, Serving
    <3>3. Serving' = {}
      BY <1>3, <1>8, <2>2, <3>2, PluginRows DEF Serving
    <3>4. RowAsAsked(d)
      BY <2>1, <2>2, <3>2 DEF AskedStands
    <3> QED
      BY <1>1, <3>1, <3>3, <3>4 DEF AskedStands, RowAsAsked, Registered
  <2> QED
    BY <2>3, <2>4
<1> QED
  BY <1>5, <1>6, <1>7, <1>9, <1>10, <1>11

LEMMA PluginsStep ==
    ASSUME PluginsIInv, [PluginsNext]_pluginVars
    PROVE  PluginsIInv'
<1>1. CASE UNCHANGED pluginVars
  BY <1>1 DEF pluginVars, PluginsIInv, PluginsTypes, ServedAlone, ReadStillTrue, LoadsItsOwn,
              UnloadsRegistered, WorkersAreTrue, AskedStands, RowAsAsked, Registered, Running,
              Serving
<1>2. CASE Restart
  BY <1>2, RestartStep DEF PluginsIInv
<1>3. ASSUME NEW w \in PluginWorkers,
             WorkerThrows(w) \/ WorkerExits(w) \/ Unloaded(w) \/ UnloadFails(w)
      PROVE  PluginsIInv'
  BY <1>3, RestartStep, ExitStep, UnloadStep DEF PluginsIInv, WorkerThrows
<1>4. ASSUME NEW c \in PluginCalls,
             \/ \E d \in PluginDirs, op \in PluginOps : Begin(c, d, op)
             \/ ReadDisabled(c) \/ WriteDisabled(c) \/ LookEnable(c) \/ LookDisable(c)
             \/ LoadDone(c) \/ LoadFails(c)
      PROVE  PluginsIInv'
  BY <1>4, BeginStep, ReadStep, WriteStep, LookEnableStep, LookDisableStep, LoadDoneStep,
     LoadFailsStep
<1> QED
  BY <1>1, <1>2, <1>3, <1>4 DEF PluginsNext

\* The invariant gives the property.
LEMMA AsAsked == PluginsIInv => PluginsAsAsked
<1> SUFFICES ASSUME PluginsIInv, NEW d \in PluginDirs \ (overlapped \cup unclean),
                    \A c \in Serving : calls[c].dir # d
             PROVE  /\ Cardinality(Running(d)) <= 1
                    /\ Registered(d) <=> registry[d] \in Running(d)
                    /\ Running(d) # {} => Registered(d)
                    /\ asked[d] = "disable" => d \in disabled /\ ~ Registered(d)
                    /\ asked[d] = "enable" => d \notin disabled
  BY DEF PluginsAsAsked
<1> USE DEF PluginsIInv
<1>1. WorkersAreTrue(d) /\ AskedStands(d)
  OBVIOUS
<1>2. Running(d) \subseteq {registry[d]}
  BY <1>1 DEF WorkersAreTrue
<1>3. Cardinality(Running(d)) <= 1
  <2>1. CASE Running(d) = {}
    BY <2>1, FS_EmptySet
  <2>2. CASE Running(d) # {}
    BY <1>2, <2>2, FS_Singleton
  <2> QED
    BY <2>1, <2>2
<1>4. Registered(d) => registry[d] \in Running(d)
  BY <1>1, PluginTypes DEF WorkersAreTrue, Running
<1>5. Running(d) # {} => Registered(d)
  BY <1>2, PluginTypes DEF Running
<1> QED
  BY <1>1, <1>3, <1>4, <1>5 DEF AskedStands, RowAsAsked

\* For any number of plugins, requests and workers: once its requests are over, a plugin is as
\* the last of them asked, but for the overlaps and failures the property names
\* (plugins/index.ts:127 and 167).
THEOREM PluginsFollowRequests == PluginsSpec => []PluginsAsAsked
BY PluginsStart, PluginsStep, AsAsked, PTL DEF PluginsSpec

\* Beside the invariant of the plugins: a worker that is or was used is some plugin's.
PluginsKeepBounds ==
    /\ toggles \in 0 .. MaxToggles
    /\ overlapped \subseteq PluginDirs /\ unclean \subseteq PluginDirs
    /\ \A w \in PluginWorkers : workers[w].pc # "free" => workers[w].dir \in PluginDirs

LEMMA PluginsBounded ==
    ASSUME PluginsIInv, PluginsKeepBounds, [PluginsNext]_pluginVars
    PROVE  PluginsKeepBounds'
<1> USE DEF PluginsKeepBounds
<1>0. /\ workers \in [PluginWorkers -> WorkerRows]
      /\ \A c \in PluginCalls : calls[c].pc # "idle" => calls[c].dir \in PluginDirs
      /\ \A c \in PluginCalls : calls[c].pc = "load" =>
           /\ calls[c].worker \in PluginWorkers
           /\ workers[calls[c].worker] = [pc |-> "loading", dir |-> calls[c].dir]
  BY DEF PluginsIInv, PluginsTypes, ServedAlone, LoadsItsOwn
<1>1. CASE UNCHANGED pluginVars
  BY <1>1 DEF pluginVars
<1>2. ASSUME Restart
      PROVE  PluginsKeepBounds'
  <2>1. PICK ds \in SUBSET (PluginDirs \ disabled) : Started(ds)
    BY <1>2 DEF Restart
  <2>2. PICK chosen \in [ds -> PluginWorkers] :
          workers' = [w \in PluginWorkers |->
            IF \E d \in ds : chosen[d] = w
            THEN [pc |-> "ready", dir |-> CHOOSE d \in ds : chosen[d] = w] ELSE Free]
    BY <2>1 DEF Started
  <2>3. ASSUME NEW w \in PluginWorkers, workers'[w].pc # "free"
        PROVE  workers'[w].dir \in PluginDirs
    <3>1. \E d \in ds : chosen[d] = w
      BY <2>2, <2>3 DEF Free
    <3>2. (CHOOSE d \in ds : chosen[d] = w) \in ds
      BY <3>1
    <3> QED
      BY <2>2, <3>1, <3>2
  <2> QED
    BY <1>2, <2>3, PluginsAssumption DEF Restart
<1>3. ASSUME NEW w \in PluginWorkers, WorkerExits(w)
      PROVE  PluginsKeepBounds'
  BY <1>0, <1>3 DEF WorkerExits, WorkerRows
<1>4. ASSUME NEW w \in PluginWorkers, Unloaded(w) \/ UnloadFails(w)
      PROVE  PluginsKeepBounds'
  <2>1. Waiting(w) # {} /\ workers' = [workers EXCEPT ![w].pc = "ended"]
        /\ UNCHANGED <<toggles, overlapped>> /\ unclean' \subseteq unclean \cup {workers[w].dir}
    BY <1>4 DEF Unloaded, UnloadFails
  <2>2. workers[w].dir \in PluginDirs
    BY <2>1, WaitersPlugin
  <2> QED
    BY <1>0, <2>1, <2>2 DEF WorkerRows
<1>5. ASSUME NEW c \in PluginCalls, NEW d \in PluginDirs, NEW op \in PluginOps, Begin(c, d, op)
      PROVE  PluginsKeepBounds'
  <2>1. \A b \in Serving : calls[b].dir \in PluginDirs
    BY <1>0 DEF Serving
  <2>2. toggles' \in 0 .. MaxToggles
    BY <1>5, PluginsAssumption DEF Begin
  <2> QED
    BY <1>5, <2>1, <2>2 DEF Begin
<1>6. ASSUME NEW c \in PluginCalls, ReadDisabled(c) \/ WriteDisabled(c) \/ LookDisable(c)
      PROVE  PluginsKeepBounds'
  BY <1>6 DEF ReadDisabled, WriteDisabled, LookDisable
<1>7. ASSUME NEW c \in PluginCalls, LookEnable(c)
      PROVE  PluginsKeepBounds'
  <2>1. calls[c].dir \in PluginDirs /\ UNCHANGED <<toggles, overlapped, unclean>>
    BY <1>0, <1>7 DEF LookEnable
  <2>2. \/ workers' = workers
        \/ \E w \in FreeWorkers :
             workers' = [workers EXCEPT ![w] = [pc |-> "loading", dir |-> calls[c].dir]]
    BY <1>7 DEF LookEnable
  <2> QED
    BY <1>0, <2>1, <2>2
<1>8. ASSUME NEW c \in PluginCalls, LoadDone(c) \/ LoadFails(c)
      PROVE  PluginsKeepBounds'
  <2>1. calls[c].pc = "load" /\ UNCHANGED <<toggles, overlapped, unclean>>
    BY <1>8 DEF LoadDone, LoadFails
  <2>2. PICK w \in PluginWorkers : w = calls[c].worker /\ workers[w].dir \in PluginDirs
    <3>1. /\ workers[calls[c].worker] = [pc |-> "loading", dir |-> calls[c].dir]
          /\ calls[c].worker \in PluginWorkers /\ calls[c].dir \in PluginDirs
      BY <1>0, <2>1
    <3> QED
      BY <3>1
  <2>3. PICK pc \in {"ready", "ended"} : workers' = [workers EXCEPT ![w].pc = pc]
    BY <1>8, <2>2 DEF LoadDone, LoadFails
  <2> QED
    BY <1>0, <2>1, <2>2, <2>3 DEF WorkerRows
<1> QED
  BY <1>1, <1>2, <1>3, <1>4, <1>5, <1>6, <1>7, <1>8 DEF PluginsNext, WorkerThrows

\* The plugins keep their types: every worker in use is some plugin's (plugins/index.ts:30).
THEOREM PluginsTypesStay == PluginsSpec => []PluginsTypeOK
<1>1. PluginsInit => PluginsKeepBounds
  BY PluginsAssumption DEF PluginsInit, PluginsKeepBounds, Free
<1>2. PluginsIInv /\ PluginsKeepBounds => PluginsTypeOK
  BY DEF PluginsIInv, PluginsTypes, PluginsKeepBounds, PluginsTypeOK, PluginCallRows, WorkerRows
<1> QED
  BY <1>1, <1>2, PluginsStart, PluginsStep, PluginsBounded, PTL DEF PluginsSpec

--------------------------------------------------------------------------------
\* Backups and restores

JobStates ==
    [pc : {"idle", "create", "insert", "unlink", "drop", "unpack", "apply", "copied", "import"},
     name : Archives \cup {SomeArchive}, left : SUBSET (Items \cup Archives),
     at : SUBSET Items, done : SUBSET Items, passed : SUBSET Items, copied : BOOLEAN,
     alone : BOOLEAN]

ArchiveStates == [state : {"none", "partial", "whole", "unlinked"}, has : [Items -> Nat]]

BackupShape ==
    /\ item \in [Items -> Nat]
    /\ kept = [f \in Files |-> kept[f]]
    /\ archive \in [Archives -> ArchiveStates]
    /\ listed \subseteq Archives
    /\ extracted \in [Archives -> [Items -> Nat]]
    /\ job \in [BackupJobs -> JobStates]
    /\ edits \in Nat

\* The archive has been closed: nobody writes to it any more.
Closed(arc, a) == a \in Archives /\ arc[a].state \in {"whole", "unlinked"}
Archived(arc, a) == {i \in Items : arc[a].has[i] # NothingThere}

\* Nothing is lost if the file is overwritten now.
Safe(it, kp, f) == it[f] \in kp[f] \cup {NothingThere, TornItem}

\* The entries a restore is about.
Known(r) == r.left \cup r.at \cup r.done \cup r.passed

\* What a job knows of the archives it works on, and a restore of how far it is.
JobStands(r, arc, ext, it, kp) ==
    /\ r.pc = "create" => r.name \in Archives /\ r.left \subseteq Items
    /\ r.pc \in {"unlink", "drop"} => \A a \in r.left : Closed(arc, a)
    /\ r.pc \in {"insert", "unpack", "apply", "copied", "import"} => Closed(arc, r.name)
    /\ r.pc = "unpack" => r.left = Archived(arc, r.name) /\ r.at = {} /\ r.done = {}
    /\ r.pc \in {"apply", "copied", "import"} =>
         /\ Known(r) = Archived(arc, r.name)
         /\ r.alone => \A i \in Archived(arc, r.name) : ext[r.name][i] = arc[r.name].has[i]
    /\ r.pc = "apply" => r.at = {}
    /\ r.pc = "copied" => \E f \in Files : r.at = {f} /\ (r.copied => Safe(it, kp, f))
    /\ r.pc = "import" => \E v \in Volumes : r.at = {v}

\* An archive has one writer, and none when it is closed.
OneWriter ==
    \A j, k \in BackupJobs :
        /\ job[j].pc = "create" => ~Closed(archive, job[j].name)
        /\ job[j].pc = "create" /\ job[k].pc = "create" /\ job[j].name = job[k].name => j = k

BackupsIInv ==
    /\ BackupShape /\ OneWriter /\ lost = {}
    /\ \A a \in listed : Closed(archive, a)
    /\ \A j \in BackupJobs : JobStands(job[j], archive, extracted, item, kept)

LEMMA BackupsStart == BackupsInit => BackupsIInv
<1> SUFFICES ASSUME BackupsInit PROVE BackupsIInv
  OBVIOUS
<1>1. Resting \in JobStates /\ Resting.pc = "idle"
  BY DEF Resting, JobStates
<1>2. AllNothing \in [Items -> Nat]
  BY DEF AllNothing, NothingThere
<1>3. NoArchive \in ArchiveStates
  BY <1>2 DEF NoArchive, ArchiveStates
<1> QED
  BY <1>1, <1>2, <1>3
  DEF BackupsInit, BackupsIInv, BackupShape, OneWriter, JobStands

--------------------------------------------------------------------------------
\* What leaves a job as it stands

\* Closed archives stay closed and keep what they hold.
ArchivesStay(arc, brc) ==
    \A a : Closed(arc, a) => Closed(brc, a) /\ brc[a].has = arc[a].has

LEMMA JobsOutlive ==
    ASSUME NEW r, NEW arc, NEW ext, NEW it, NEW kp, NEW brc, NEW xt, NEW jt, NEW lp,
           JobStands(r, arc, ext, it, kp), ArchivesStay(arc, brc),
           r.pc \in {"apply", "copied", "import"} /\ r.alone =>
             \A i \in Archived(arc, r.name) : xt[r.name][i] = arc[r.name].has[i],
           \A f \in Files : r.pc = "copied" /\ r.at = {f} /\ r.copied /\ Safe(it, kp, f) =>
             Safe(jt, lp, f)
    PROVE  JobStands(r, brc, xt, jt, lp)
<1>1. \A a : Closed(arc, a) => Closed(brc, a) /\ Archived(brc, a) = Archived(arc, a)
                               /\ brc[a].has = arc[a].has
  BY DEF ArchivesStay, Archived
<1>2. r.pc \in {"insert", "unpack", "apply", "copied", "import"} =>
        /\ Closed(arc, r.name) /\ Closed(brc, r.name)
        /\ Archived(brc, r.name) = Archived(arc, r.name)
        /\ brc[r.name].has = arc[r.name].has
  BY <1>1 DEF JobStands
<1>3. r.pc \in {"unlink", "drop"} => \A a \in r.left : Closed(brc, a)
  BY <1>1 DEF JobStands
<1>4. r.pc = "copied" => \E f \in Files : r.at = {f} /\ (r.copied => Safe(jt, lp, f))
  BY DEF JobStands
<1> QED
  BY <1>2, <1>3, <1>4 DEF JobStands

\* A job that is no longer alone stands, whatever happens to the directory.
LEMMA MetJobsStand ==
    ASSUME NEW r \in JobStates, NEW arc, NEW ext, NEW it, NEW kp, NEW xt,
           JobStands(r, arc, ext, it, kp)
    PROVE  /\ [r EXCEPT !.alone = FALSE] \in JobStates
           /\ JobStands([r EXCEPT !.alone = FALSE], arc, xt, it, kp)
<1>1. PICK q : q = [r EXCEPT !.alone = FALSE]
  OBVIOUS
<1>2. /\ q \in JobStates /\ ~q.alone /\ q.pc = r.pc /\ q.name = r.name /\ q.left = r.left
      /\ q.at = r.at /\ q.done = r.done /\ q.copied = r.copied /\ Known(q) = Known(r)
  BY <1>1 DEF JobStates, Known
<1>3. JobStands(q, arc, xt, it, kp)
  BY <1>2 DEF JobStands
<1> QED
  BY <1>1, <1>2, <1>3

\* One that has no copy stands, whatever happens to the files.
LEMMA UncopiedJobsStand ==
    ASSUME NEW r \in JobStates, NEW arc, NEW ext, NEW it, NEW kp, NEW jt,
           JobStands(r, arc, ext, it, kp)
    PROVE  /\ [r EXCEPT !.copied = FALSE] \in JobStates
           /\ JobStands([r EXCEPT !.copied = FALSE], arc, ext, jt, kp)
<1>1. PICK q : q = [r EXCEPT !.copied = FALSE]
  OBVIOUS
<1>2. /\ q \in JobStates /\ ~q.copied /\ q.pc = r.pc /\ q.name = r.name /\ q.left = r.left
      /\ q.at = r.at /\ q.done = r.done /\ q.alone = r.alone /\ Known(q) = Known(r)
  BY <1>1 DEF JobStates, Known
<1>3. JobStands(q, arc, ext, jt, kp)
  BY <1>2 DEF JobStands
<1> QED
  BY <1>1, <1>2, <1>3

\* A step of job j that changes no file, directory or archive.
LEMMA JobGoesOn ==
    ASSUME BackupsIInv, NEW j \in BackupJobs, NEW r \in JobStates,
           job' = [job EXCEPT ![j] = r], JobStands(r, archive, extracted, item, kept),
           listed' \subseteq Archives, \A a \in listed' : Closed(archive, a),
           r.pc # "create", UNCHANGED <<item, kept, archive, extracted, edits, lost>>
    PROVE  BackupsIInv'
<1>1. /\ job' \in [BackupJobs -> JobStates] /\ job'[j] = r
      /\ \A k \in BackupJobs \ {j} : job'[k] = job[k]
  BY DEF BackupsIInv, BackupShape
<1>2. BackupShape' /\ OneWriter'
  BY <1>1 DEF BackupsIInv, BackupShape, OneWriter
<1>3. \A k \in BackupJobs : JobStands(job'[k], archive, extracted, item, kept)
  BY <1>1 DEF BackupsIInv
<1> QED
  BY <1>2, <1>3 DEF BackupsIInv

LEMMA JobRests ==
    ASSUME BackupsIInv, NEW j \in BackupJobs, JobEnds(j),
           listed' \subseteq Archives, \A a \in listed' : Closed(archive, a),
           UNCHANGED <<item, kept, archive, extracted, edits, lost>>
    PROVE  BackupsIInv'
<1>1. Resting \in JobStates /\ Resting.pc = "idle"
  BY DEF Resting, JobStates
<1>2. JobStands(Resting, archive, extracted, item, kept)
  BY <1>1 DEF JobStands
<1> QED
  BY <1>1, <1>2, JobGoesOn DEF JobEnds

\* A step in which no creation begins.
LEMMA WorldGoesOn ==
    ASSUME BackupsIInv, NEW jb \in [BackupJobs -> JobStates],
           NEW brc \in [Archives -> ArchiveStates], NEW xt \in [Archives -> [Items -> Nat]],
           NEW jt \in [Items -> Nat], NEW lp, lp = [f \in Files |-> lp[f]],
           job' = jb, archive' = brc, extracted' = xt, item' = jt, kept' = lp,
           edits' \in Nat, lost' = {}, UNCHANGED listed,
           ArchivesStay(archive, brc),
           \A k \in BackupJobs : JobStands(jb[k], brc, xt, jt, lp),
           \A k \in BackupJobs : jb[k].pc = "create" =>
             /\ job[k].pc = "create" /\ jb[k].name = job[k].name
             /\ ~Closed(brc, jb[k].name)
    PROVE  BackupsIInv'
<1>1. BackupShape'
  BY DEF BackupsIInv, BackupShape
<1>2. OneWriter'
  <2>1. \A k \in BackupJobs : jb[k].pc = "create" =>
           job[k].pc = "create" /\ job[k].name = jb[k].name
    OBVIOUS
  <2>2. \A k, l \in BackupJobs :
           jb[k].pc = "create" /\ jb[l].pc = "create" /\ jb[k].name = jb[l].name => k = l
    BY <2>1 DEF BackupsIInv, OneWriter
  <2> QED
    BY <2>2 DEF OneWriter
<1>3. \A a \in listed : Closed(brc, a)
  BY DEF BackupsIInv, ArchivesStay
<1> QED
  BY <1>1, <1>2, <1>3 DEF BackupsIInv

\* The others stand beside a step of job j that leaves directories and files alone.
LEMMA ArchiveStep ==
    ASSUME BackupsIInv, NEW j \in BackupJobs, NEW r \in JobStates,
           NEW brc \in [Archives -> ArchiveStates],
           job' = [job EXCEPT ![j] = r], archive' = brc, ArchivesStay(archive, brc),
           JobStands(r, brc, extracted, item, kept),
           \A k \in BackupJobs \ {j} : job[k].pc = "create" => ~Closed(brc, job[k].name),
           r.pc = "create" => /\ job[j].pc = "create" /\ r.name = job[j].name
                              /\ ~Closed(brc, r.name),
           UNCHANGED <<item, kept, listed, extracted, edits, lost>>
    PROVE  BackupsIInv'
<1>1. PICK jb : jb = [job EXCEPT ![j] = r]
  OBVIOUS
<1>2. /\ jb \in [BackupJobs -> JobStates] /\ jb[j] = r
      /\ \A k \in BackupJobs \ {j} : jb[k] = job[k]
  BY <1>1 DEF BackupsIInv, BackupShape
<1>3. ASSUME NEW k \in BackupJobs PROVE JobStands(jb[k], brc, extracted, item, kept)
  <2>1. CASE k = j
    BY <1>2, <2>1
  <2>2. CASE k # j
    <3>1. JobStands(job[k], archive, extracted, item, kept)
      BY DEF BackupsIInv
    <3>2. job[k].pc \in {"apply", "copied", "import"} /\ job[k].alone =>
            \A i \in Archived(archive, job[k].name) :
               extracted[job[k].name][i] = archive[job[k].name].has[i]
      BY <3>1 DEF JobStands
    <3>3. JobStands(job[k], brc, extracted, item, kept)
      BY <3>1, <3>2, JobsOutlive
    <3> QED
      BY <1>2, <2>2, <3>3
  <2> QED
    BY <2>1, <2>2
<1>4. /\ extracted \in [Archives -> [Items -> Nat]] /\ item \in [Items -> Nat]
      /\ kept = [f \in Files |-> kept[f]] /\ edits \in Nat /\ lost = {}
  BY DEF BackupsIInv, BackupShape
<1>5. \A k \in BackupJobs : jb[k].pc = "create" =>
        job[k].pc = "create" /\ jb[k].name = job[k].name /\ ~Closed(brc, jb[k].name)
  BY <1>2
<1>6. job' = jb
  BY <1>1
<1> QED
  BY <1>2, <1>3, <1>4, <1>5, <1>6, WorldGoesOn

--------------------------------------------------------------------------------
\* Creating and removing

LEMMA CreatingStands ==
    ASSUME BackupsIInv, NEW j \in BackupJobs,
           CreateBegin(j) \/ CreateEntry(j) \/ CreateClose(j) \/ CreateFails(j) \/ CreateInsert(j)
    PROVE  BackupsIInv'
<1>0. /\ job[j] \in JobStates /\ JobStands(job[j], archive, extracted, item, kept)
      /\ listed \subseteq Archives /\ \A a \in listed : Closed(archive, a)
      /\ item \in [Items -> Nat] /\ archive \in [Archives -> ArchiveStates]
  BY DEF BackupsIInv, BackupShape
<1>1. CASE CreateBegin(j)
  <2>1. PICK a \in Archives, kinds \in {Items, Items \ Volumes} :
          /\ archive[a] = NoArchive
          /\ \A k \in BackupJobs : job[k].pc # "create" \/ job[k].name # a
          /\ job' = [job EXCEPT ![j] = [Resting EXCEPT !.pc = "create", !.name = a,
                                          !.left = {i \in kinds : item[i] # NothingThere}]]
    BY <1>1 DEF CreateBegin
  <2>2. PICK r : r = [Resting EXCEPT !.pc = "create", !.name = a,
                                     !.left = {i \in kinds : item[i] # NothingThere}]
    OBVIOUS
  <2>3. r \in JobStates /\ r.pc = "create" /\ r.name = a /\ r.left \subseteq Items
    BY <2>2 DEF Resting, JobStates
  <2>4. JobStands(r, archive, extracted, item, kept)
    BY <2>3 DEF JobStands
  <2>5. ~Closed(archive, a)
    BY <2>1 DEF Closed, NoArchive
  <2>6. /\ job' \in [BackupJobs -> JobStates] /\ job'[j] = r
        /\ \A k \in BackupJobs \ {j} : job'[k] = job[k]
    BY SMTT(30), <2>1, <2>2, <2>3 DEF BackupsIInv, BackupShape
  <2>7. UNCHANGED <<item, kept, archive, listed, extracted, edits, lost>>
    BY <1>1 DEF CreateBegin
  <2>8. BackupShape' /\ OneWriter'
    BY ZenonT(30), <2>1, <2>3, <2>5, <2>6, <2>7 DEF BackupsIInv, BackupShape, OneWriter
  <2>9. \A k \in BackupJobs : JobStands(job'[k], archive, extracted, item, kept)
    BY <2>4, <2>6 DEF BackupsIInv
  <2> QED
    BY SMTT(30), <2>7, <2>8, <2>9 DEF BackupsIInv
<1>2. CASE CreateEntry(j)
  <2>1. PICK i \in job[j].left :
          /\ archive' = [archive EXCEPT ![job[j].name] =
                           [archive[job[j].name] EXCEPT !.state = "partial",
                                                        !.has[i] = item[i]]]
          /\ job' = [job EXCEPT ![j].left = @ \ {i}]
    BY ZenonT(30), <1>2 DEF CreateEntry
  <2>2. job[j].pc = "create" /\ job[j].name \in Archives /\ i \in Items
    BY <1>0, <1>2, <2>1 DEF CreateEntry, JobStands
  <2>3. PICK brc : brc = [archive EXCEPT ![job[j].name] =
                            [archive[job[j].name] EXCEPT !.state = "partial",
                                                         !.has[i] = item[i]]]
    OBVIOUS
  <2>4. /\ brc \in [Archives -> ArchiveStates] /\ brc[job[j].name].state = "partial"
        /\ \A a \in Archives \ {job[j].name} : brc[a] = archive[a]
    <3>1. PICK s : s = [archive[job[j].name] EXCEPT !.state = "partial", !.has[i] = item[i]]
      OBVIOUS
    <3>2. s \in ArchiveStates /\ s.state = "partial"
      BY <1>0, <2>2, <3>1 DEF ArchiveStates
    <3>3. brc = [archive EXCEPT ![job[j].name] = s]
      BY <1>0, <2>2, <2>3, <3>1 DEF ArchiveStates
    <3> QED
      BY <1>0, <2>2, <3>2, <3>3
  <2>5. \A k \in BackupJobs : job[k].pc = "create" => ~Closed(archive, job[k].name)
    BY DEF BackupsIInv, OneWriter
  <2>6. ArchivesStay(archive, brc) /\ ~Closed(brc, job[j].name)
    BY <2>2, <2>4, <2>5 DEF ArchivesStay, Closed
  <2>7. \A k \in BackupJobs : job[k].pc = "create" => ~Closed(brc, job[k].name)
    BY <2>4, <2>5, <2>6 DEF Closed
  <2>8. PICK r : r = [job[j] EXCEPT !.left = @ \ {i}]
    OBVIOUS
  <2>9. /\ r \in JobStates /\ r.pc = "create" /\ r.name = job[j].name
        /\ r.left \subseteq job[j].left
    BY <1>0, <2>2, <2>8 DEF JobStates
  <2>10. JobStands(r, brc, extracted, item, kept)
    BY <1>0, <2>2, <2>9 DEF JobStands
  <2>11. job' = [job EXCEPT ![j] = r]
    BY SMTT(30), <2>1, <2>8 DEF BackupsIInv, BackupShape
  <2>12. UNCHANGED <<item, kept, listed, extracted, edits, lost>>
    BY <1>2 DEF CreateEntry
  <2>13. archive' = brc
    BY <2>1, <2>3
  <2> QED
    BY <2>2, <2>4, <2>6, <2>7, <2>9, <2>10, <2>11, <2>12, <2>13, ArchiveStep
<1>3. CASE CreateClose(j)
  <2>1. job[j].pc = "create" /\ job[j].name \in Archives
    BY <1>0, <1>3 DEF CreateClose, JobStands
  <2>2. PICK brc : brc = [archive EXCEPT ![job[j].name].state = "whole"]
    OBVIOUS
  <2>3. /\ brc \in [Archives -> ArchiveStates] /\ brc[job[j].name].state = "whole"
        /\ \A a \in Archives \ {job[j].name} : brc[a] = archive[a]
    BY <1>0, <2>1, <2>2 DEF ArchiveStates
  <2>4. \A k \in BackupJobs : job[k].pc = "create" =>
           ~Closed(archive, job[k].name) /\ (k # j => job[k].name # job[j].name)
    BY <2>1 DEF BackupsIInv, OneWriter
  <2>5. ArchivesStay(archive, brc) /\ Closed(brc, job[j].name)
    BY <2>1, <2>3, <2>4 DEF ArchivesStay, Closed
  <2>6. \A k \in BackupJobs \ {j} : job[k].pc = "create" => ~Closed(brc, job[k].name)
    BY <2>3, <2>4 DEF Closed
  <2>7. PICK r : r = [job[j] EXCEPT !.pc = "insert"]
    OBVIOUS
  <2>8. r \in JobStates /\ r.pc = "insert" /\ r.name = job[j].name
    BY <1>0, <2>7 DEF JobStates
  <2>9. JobStands(r, brc, extracted, item, kept)
    BY <2>5, <2>8 DEF JobStands
  <2>10. job' = [job EXCEPT ![j] = r] /\ archive' = brc
    BY <1>3, <2>2, <2>7 DEF CreateClose, Goes, BackupsIInv, BackupShape
  <2>11. UNCHANGED <<item, kept, listed, extracted, edits, lost>>
    BY <1>3 DEF CreateClose
  <2> QED
    BY <2>3, <2>5, <2>6, <2>8, <2>9, <2>10, <2>11, ArchiveStep
<1>4. CASE CreateFails(j)
  BY <1>0, <1>4, JobRests DEF CreateFails
<1>5. CASE CreateInsert(j)
  <2>1. Closed(archive, job[j].name)
    BY <1>0, <1>5 DEF CreateInsert, ReadyToList, JobStands
  <2>2. listed' = listed \cup {job[j].name} /\ JobEnds(j)
        /\ UNCHANGED <<item, kept, archive, extracted, edits, lost>>
    BY <1>5 DEF CreateInsert
  <2> QED
    BY <1>0, <2>1, <2>2, JobRests DEF Closed
<1> QED
  BY <1>1, <1>2, <1>3, <1>4, <1>5

LEMMA RemovingStands ==
    ASSUME BackupsIInv, NEW j \in BackupJobs, RemoveBegin(j) \/ RemoveUnlink(j) \/ RemoveRow(j)
    PROVE  BackupsIInv'
<1>0. /\ job[j] \in JobStates /\ JobStands(job[j], archive, extracted, item, kept)
      /\ listed \subseteq Archives /\ \A a \in listed : Closed(archive, a)
      /\ archive \in [Archives -> ArchiveStates]
  BY DEF BackupsIInv, BackupShape
<1>1. CASE RemoveBegin(j)
  <2>1. PICK stale \in SUBSET listed :
          job' = [job EXCEPT ![j] = [Resting EXCEPT !.pc = "unlink", !.left = stale]]
    BY <1>1 DEF RemoveBegin
  <2>2. PICK r : r = [Resting EXCEPT !.pc = "unlink", !.left = stale]
    OBVIOUS
  <2>3. r \in JobStates /\ r.pc = "unlink" /\ r.left = stale
    BY <1>0, <2>2 DEF Resting, JobStates
  <2>4. JobStands(r, archive, extracted, item, kept)
    BY <1>0, <2>3 DEF JobStands
  <2>5. UNCHANGED <<item, kept, archive, listed, extracted, edits, lost>>
    BY <1>1 DEF RemoveBegin
  <2> QED
    BY <1>0, <2>1, <2>2, <2>3, <2>4, <2>5, JobGoesOn
<1>2. CASE RemoveUnlink(j)
  <2>1. PICK a \in job[j].left :
          /\ archive' = [archive EXCEPT ![a].state = "unlinked"]
          /\ job' = [job EXCEPT ![j] = [job[j] EXCEPT !.pc = "drop", !.name = a, !.left = @ \ {a}]]
    BY <1>2 DEF RemoveUnlink
  <2>2. a \in Archives /\ Closed(archive, a) /\ \A b \in job[j].left : Closed(archive, b)
    BY <1>0, <1>2, <2>1 DEF RemoveUnlink, JobStands, Closed
  <2>3. PICK brc : brc = [archive EXCEPT ![a].state = "unlinked"]
    OBVIOUS
  <2>4. /\ brc \in [Archives -> ArchiveStates] /\ brc[a].state = "unlinked"
        /\ brc[a].has = archive[a].has
        /\ \A b \in Archives \ {a} : brc[b] = archive[b]
    BY <1>0, <2>2, <2>3 DEF ArchiveStates
  <2>5. \A b : Closed(brc, b) <=> Closed(archive, b)
    BY <2>2, <2>4 DEF Closed
  <2>6. ArchivesStay(archive, brc)
    BY <2>4, <2>5 DEF ArchivesStay, Closed
  <2>7. \A k \in BackupJobs : job[k].pc = "create" => ~Closed(brc, job[k].name)
    BY <2>5 DEF BackupsIInv, OneWriter
  <2>8. PICK r : r = [job[j] EXCEPT !.pc = "drop", !.name = a, !.left = @ \ {a}]
    OBVIOUS
  <2>9. r \in JobStates /\ r.pc = "drop" /\ r.left \subseteq job[j].left
    BY <1>0, <2>2, <2>8 DEF JobStates
  <2>10. JobStands(r, brc, extracted, item, kept)
    BY <2>2, <2>5, <2>9 DEF JobStands
  <2>11. job' = [job EXCEPT ![j] = r] /\ archive' = brc
    BY <2>1, <2>3, <2>8 DEF BackupsIInv, BackupShape
  <2>12. UNCHANGED <<item, kept, listed, extracted, edits, lost>>
    BY <1>2 DEF RemoveUnlink
  <2> QED
    BY <2>4, <2>6, <2>7, <2>9, <2>10, <2>11, <2>12, ArchiveStep
<1>3. CASE RemoveRow(j)
  <2>1. /\ listed' \subseteq listed /\ job[j].pc = "drop"
        /\ UNCHANGED <<item, kept, archive, extracted, edits, lost>>
    BY <1>3 DEF RemoveRow
  <2>2. CASE JobEnds(j)
    BY <1>0, <2>1, <2>2, JobRests
  <2>3. CASE ~JobEnds(j)
    <3>1. job' = [job EXCEPT ![j] = [job[j] EXCEPT !.pc = "unlink", !.name = SomeArchive]]
      BY <1>3, <2>3 DEF RemoveRow
    <3>2. PICK r : r = [job[j] EXCEPT !.pc = "unlink", !.name = SomeArchive]
      OBVIOUS
    <3>3. r \in JobStates /\ r.pc = "unlink" /\ r.left = job[j].left
      BY <1>0, <3>2 DEF JobStates
    <3>4. JobStands(r, archive, extracted, item, kept)
      BY <1>0, <2>1, <3>3 DEF JobStands
    <3>5. job' = [job EXCEPT ![j] = r]
      BY <3>1, <3>2 DEF BackupsIInv, BackupShape
    <3> QED
      BY <1>0, <2>1, <3>3, <3>4, <3>5, JobGoesOn
  <2> QED
    BY <2>2, <2>3
<1> QED
  BY <1>1, <1>2, <1>3

--------------------------------------------------------------------------------
\* Restoring

\* A step of job j that changes directories and files but no archive.
LEMMA RestoreStep ==
    ASSUME BackupsIInv, NEW j \in BackupJobs, NEW jb \in [BackupJobs -> JobStates],
           NEW xt \in [Archives -> [Items -> Nat]], NEW jt \in [Items -> Nat],
           NEW lp, lp = [f \in Files |-> lp[f]],
           job' = jb, extracted' = xt, item' = jt, kept' = lp, lost' = {},
           UNCHANGED <<archive, listed, edits>>,
           jb[j].pc # "create", JobStands(jb[j], archive, xt, jt, lp),
           \A k \in BackupJobs \ {j} :
             /\ jb[k].pc = job[k].pc /\ jb[k].name = job[k].name
             /\ JobStands(jb[k], archive, xt, jt, lp)
    PROVE  BackupsIInv'
<1>1. \A k \in BackupJobs : JobStands(jb[k], archive, xt, jt, lp)
  OBVIOUS
<1>2. ArchivesStay(archive, archive)
  BY DEF ArchivesStay
<1>3. \A k \in BackupJobs : jb[k].pc = "create" =>
        job[k].pc = "create" /\ jb[k].name = job[k].name /\ ~Closed(archive, jb[k].name)
  BY DEF BackupsIInv, OneWriter
<1>4. archive \in [Archives -> ArchiveStates] /\ edits' \in Nat
  BY DEF BackupsIInv, BackupShape
<1> QED
  BY <1>1, <1>2, <1>3, <1>4, WorldGoesOn

LEMMA ArchivesAreKept == ArchivesStay(archive, archive)
  BY DEF ArchivesStay

\* The jobs that item i is written beside.
LEMMA WritingMeets ==
    ASSUME BackupsIInv, NEW i \in Items, NEW jt, \A h \in Items \ {i} : jt[h] = item[h]
    PROVE  \A k \in BackupJobs :
             /\ WrittenTo(i)[k] \in JobStates
             /\ WrittenTo(i)[k].pc = job[k].pc /\ WrittenTo(i)[k].name = job[k].name
             /\ JobStands(WrittenTo(i)[k], archive, extracted, jt, kept)
<1> SUFFICES ASSUME NEW k \in BackupJobs
             PROVE  /\ WrittenTo(i)[k] \in JobStates
                    /\ WrittenTo(i)[k].pc = job[k].pc /\ WrittenTo(i)[k].name = job[k].name
                    /\ JobStands(WrittenTo(i)[k], archive, extracted, jt, kept)
  OBVIOUS
<1>1. job[k] \in JobStates /\ JobStands(job[k], archive, extracted, item, kept)
  BY DEF BackupsIInv, BackupShape
<1>2. CASE i \in job[k].at
  <2>1. WrittenTo(i)[k] = [job[k] EXCEPT !.copied = FALSE]
    BY <1>2 DEF WrittenTo
  <2>2. /\ [job[k] EXCEPT !.copied = FALSE].pc = job[k].pc
        /\ [job[k] EXCEPT !.copied = FALSE].name = job[k].name
    BY <1>1 DEF JobStates
  <2> QED
    BY <1>1, <2>1, <2>2, UncopiedJobsStand
<1>3. CASE i \notin job[k].at
  <2>1. WrittenTo(i)[k] = job[k]
    BY <1>3 DEF WrittenTo
  <2>2. job[k].pc \in {"apply", "copied", "import"} /\ job[k].alone =>
          \A h \in Archived(archive, job[k].name) :
             extracted[job[k].name][h] = archive[job[k].name].has[h]
    BY <1>1 DEF JobStands
  <2>3. \A f \in Files : job[k].pc = "copied" /\ job[k].at = {f} /\ job[k].copied
                           /\ Safe(item, kept, f) => Safe(jt, kept, f)
    BY <1>3 DEF Safe, Items
  <2>4. JobStands(job[k], archive, extracted, jt, kept)
    BY <1>1, <2>2, <2>3, ArchivesAreKept, JobsOutlive
  <2> QED
    BY <1>1, <2>1, <2>4
<1> QED
  BY <1>2, <1>3

LEMMA UnpackingStands ==
    ASSUME BackupsIInv, NEW j \in BackupJobs, RestoreBegin(j) \/ RestoreUnpacked(j)
    PROVE  BackupsIInv'
<1>0. /\ job \in [BackupJobs -> JobStates]
      /\ \A k \in BackupJobs : JobStands(job[k], archive, extracted, item, kept)
      /\ listed \subseteq Archives /\ \A a \in listed : Closed(archive, a)
      /\ archive \in [Archives -> ArchiveStates]
      /\ extracted \in [Archives -> [Items -> Nat]] /\ item \in [Items -> Nat]
      /\ kept = [f \in Files |-> kept[f]] /\ lost = {}
  BY DEF BackupsIInv, BackupShape
<1>1. CASE RestoreBegin(j)
  <2>1. PICK a \in listed :
          /\ extracted' = [extracted EXCEPT ![a] =
               [i \in Items |-> IF i \in Archived(archive, a) THEN TornItem ELSE @[i]]]
          /\ job' = [k \in BackupJobs |->
               CASE k = j -> [Resting EXCEPT !.pc = "unpack", !.name = a,
                                             !.left = Archived(archive, a)]
                 [] k # j /\ job[k].pc \in {"unpack", "apply", "copied", "import"}
                          /\ job[k].name = a -> [job[k] EXCEPT !.alone = FALSE]
                 [] OTHER -> job[k]]
    BY <1>1 DEF RestoreBegin, Archived
  <2>2. PICK xt : xt = [extracted EXCEPT ![a] =
               [i \in Items |-> IF i \in Archived(archive, a) THEN TornItem ELSE @[i]]]
    OBVIOUS
  <2>3. xt \in [Archives -> [Items -> Nat]] /\ \A b \in Archives \ {a} : xt[b] = extracted[b]
    BY <1>0, <2>2, BackupsAssumption DEF TornItem
  <2>4. PICK r : r = [Resting EXCEPT !.pc = "unpack", !.name = a, !.left = Archived(archive, a)]
    OBVIOUS
  <2>5. /\ r \in JobStates /\ r.pc = "unpack" /\ r.name = a /\ r.left = Archived(archive, a)
        /\ r.at = {} /\ r.done = {}
    BY <1>0, <2>4 DEF Resting, JobStates, Archived
  <2>6. JobStands(r, archive, xt, item, kept)
    BY <1>0, <2>5 DEF JobStands
  <2>7. ASSUME NEW k \in BackupJobs \ {j}
        PROVE  /\ job'[k] \in JobStates /\ job'[k].pc = job[k].pc /\ job'[k].name = job[k].name
               /\ JobStands(job'[k], archive, xt, item, kept)
    <3>0. job[k] \in JobStates /\ JobStands(job[k], archive, extracted, item, kept)
      BY <1>0
    <3>1. CASE job[k].pc \in {"unpack", "apply", "copied", "import"} /\ job[k].name = a
      <4>1. PICK q : q = [job[k] EXCEPT !.alone = FALSE]
        OBVIOUS
      <4>2. job'[k] = q
        BY <2>1, <3>1, <4>1
      <4>3. q \in JobStates /\ JobStands(q, archive, xt, item, kept)
        BY <3>0, <4>1, MetJobsStand
      <4>4. q.pc = job[k].pc /\ q.name = job[k].name
        BY <3>0, <4>1 DEF JobStates
      <4> QED
        BY <4>2, <4>3, <4>4
    <3>2. CASE ~(job[k].pc \in {"unpack", "apply", "copied", "import"} /\ job[k].name = a)
      <4>1. job'[k] = job[k]
        BY <2>1, <3>2
      <4>2. job[k].pc \in {"apply", "copied", "import"} =>
              job[k].name \in Archives /\ xt[job[k].name] = extracted[job[k].name]
        BY <2>3, <3>0, <3>2 DEF JobStands, Closed
      <4>3. job[k].pc \in {"apply", "copied", "import"} /\ job[k].alone =>
              \A h \in Archived(archive, job[k].name) :
                 xt[job[k].name][h] = archive[job[k].name].has[h]
        BY <3>0, <4>2 DEF JobStands
      <4>4. JobStands(job[k], archive, xt, item, kept)
        BY <3>0, <4>3, ArchivesAreKept, JobsOutlive
      <4> QED
        BY <3>0, <4>1, <4>4
    <3> QED
      BY <3>1, <3>2
  <2>8. job'[j] = r /\ job' \in [BackupJobs -> JobStates]
    BY <2>1, <2>4, <2>5, <2>7
  <2>9. PICK jb \in [BackupJobs -> JobStates] : jb = job'
    BY <2>8
  <2>10. /\ jb[j].pc # "create" /\ JobStands(jb[j], archive, xt, item, kept)
         /\ \A k \in BackupJobs \ {j} :
              /\ jb[k].pc = job[k].pc /\ jb[k].name = job[k].name
              /\ JobStands(jb[k], archive, xt, item, kept)
    BY SMTT(30), <2>5, <2>6, <2>7, <2>8, <2>9
  <2>11. UNCHANGED <<item, kept, archive, listed, edits, lost>> /\ extracted' = xt
    BY <1>1, <2>1, <2>2 DEF RestoreBegin
  <2>12. /\ job' = jb /\ extracted' = xt /\ item' = item /\ kept' = kept /\ lost' = {}
         /\ UNCHANGED <<archive, listed, edits>>
         /\ item \in [Items -> Nat] /\ kept = [f \in Files |-> kept[f]]
    BY <1>0, <2>9, <2>11
  <2> QED
    BY SMTT(30), <2>3, <2>9, <2>10, <2>12, RestoreStep
<1>2. CASE RestoreUnpacked(j)
  <2> DEFINE a == job[j].name
  <2>1. /\ extracted' = [extracted EXCEPT ![a] =
             [i \in Items |-> IF i \in job[j].left THEN archive[a].has[i] ELSE @[i]]]
        /\ \/ JobEnds(j)
           \/ \E wanted \in Requests :
                job' = [job EXCEPT ![j] = [job[j] EXCEPT !.pc = "apply", !.left = @ \cap wanted,
                                                         !.passed = job[j].left \ wanted]]
        /\ UNCHANGED <<item, kept, archive, listed, edits, lost>> /\ job[j].pc = "unpack"
    BY <1>2 DEF RestoreUnpacked
  <2>2. /\ a \in Archives /\ Closed(archive, a) /\ job[j].left = Archived(archive, a)
        /\ job[j].at = {} /\ job[j].done = {} /\ job[j] \in JobStates
    BY <1>0, <2>1 DEF JobStands, Closed
  <2>3. PICK xt : xt = [extracted EXCEPT ![a] =
             [i \in Items |-> IF i \in job[j].left THEN archive[a].has[i] ELSE @[i]]]
    OBVIOUS
  <2>4. /\ xt \in [Archives -> [Items -> Nat]] /\ \A b \in Archives \ {a} : xt[b] = extracted[b]
        /\ \A i \in Archived(archive, a) : xt[a][i] = archive[a].has[i]
    BY <1>0, <2>2, <2>3 DEF ArchiveStates, Archived
  <2>5. PICK r \in JobStates : job' = [job EXCEPT ![j] = r]
                               /\ JobStands(r, archive, xt, item, kept) /\ r.pc # "create"
    <3>1. CASE JobEnds(j)
      <4>1. Resting \in JobStates /\ Resting.pc = "idle"
        BY DEF Resting, JobStates
      <4>2. JobStands(Resting, archive, xt, item, kept)
        BY <4>1 DEF JobStands
      <4> QED
        BY <3>1, <4>1, <4>2 DEF JobEnds
    <3>2. CASE \E wanted \in Requests :
                 job' = [job EXCEPT ![j] = [job[j] EXCEPT !.pc = "apply", !.left = @ \cap wanted,
                                                          !.passed = job[j].left \ wanted]]
      <4>1. PICK wanted :
              job' = [job EXCEPT ![j] = [job[j] EXCEPT !.pc = "apply", !.left = @ \cap wanted,
                                                       !.passed = job[j].left \ wanted]]
        BY <3>2
      <4>2. PICK r : r = [job[j] EXCEPT !.pc = "apply", !.left = @ \cap wanted,
                                        !.passed = job[j].left \ wanted]
        OBVIOUS
      <4>3. job[j].left \subseteq Items
        BY <2>2 DEF Archived
      <4>4. /\ r \in JobStates /\ r.pc = "apply" /\ r.name = a
            /\ r.left = job[j].left \cap wanted /\ r.passed = job[j].left \ wanted
            /\ r.at = {} /\ r.done = {}
        BY <2>2, <4>2, <4>3 DEF JobStates
      <4>5. Known(r) = Archived(archive, a)
        BY <2>2, <4>4 DEF Known
      <4>6. JobStands(r, archive, xt, item, kept)
        BY <2>2, <2>4, <4>4, <4>5 DEF JobStands
      <4>7. job' = [job EXCEPT ![j] = r]
        BY <1>0, <4>1, <4>2
      <4> QED
        BY <4>4, <4>6, <4>7
    <3> QED
      BY <2>1, <3>1, <3>2
  <2>6. ASSUME NEW k \in BackupJobs \ {j} PROVE JobStands(job[k], archive, xt, item, kept)
    <3>0. job[k] \in JobStates /\ JobStands(job[k], archive, extracted, item, kept)
      BY <1>0
    <3>1. job[k].pc \in {"apply", "copied", "import"} /\ job[k].alone =>
            \A h \in Archived(archive, job[k].name) :
               xt[job[k].name][h] = archive[job[k].name].has[h]
      BY <2>4, <3>0 DEF JobStands, Closed
    <3> QED
      BY <3>0, <3>1, ArchivesAreKept, JobsOutlive
  <2>7. PICK jb : jb = [job EXCEPT ![j] = r]
    OBVIOUS
  <2>8. /\ jb \in [BackupJobs -> JobStates] /\ jb[j] = r
        /\ \A k \in BackupJobs \ {j} : jb[k] = job[k]
    BY <1>0, <2>7
  <2>9. extracted' = xt /\ job' = jb
    BY <2>1, <2>3, <2>5, <2>7
  <2>10. /\ jb[j].pc # "create" /\ JobStands(jb[j], archive, xt, item, kept)
         /\ \A k \in BackupJobs \ {j} :
              /\ jb[k].pc = job[k].pc /\ jb[k].name = job[k].name
              /\ JobStands(jb[k], archive, xt, item, kept)
    BY <2>5, <2>6, <2>8
  <2>11. /\ job' = jb /\ extracted' = xt /\ item' = item /\ kept' = kept /\ lost' = {}
         /\ UNCHANGED <<archive, listed, edits>>
         /\ item \in [Items -> Nat] /\ kept = [f \in Files |-> kept[f]]
    BY <1>0, <2>1, <2>9
  <2> QED
    BY <2>4, <2>8, <2>10, <2>11, RestoreStep
<1> QED
  BY <1>1, <1>2

\* What an applying restore knows of itself.
LEMMA RestoringKnows ==
    ASSUME BackupsIInv, NEW j \in BackupJobs, job[j].pc \in {"apply", "copied", "import"}
    PROVE  /\ job[j] \in JobStates /\ Closed(archive, job[j].name) /\ job[j].name \in Archives
           /\ Known(job[j]) = Archived(archive, job[j].name)
           /\ job[j].left \subseteq Items /\ job[j].at \subseteq Items
           /\ job[j].alone => \A i \in Archived(archive, job[j].name) :
                                extracted[job[j].name][i] = archive[job[j].name].has[i]
           /\ job[j].pc = "apply" => job[j].at = {}
           /\ job[j].pc = "copied" =>
                \E f \in Files : job[j].at = {f} /\ (job[j].copied => Safe(item, kept, f))
           /\ job[j].pc = "import" => \E v \in Volumes : job[j].at = {v}
<1>1. job[j] \in JobStates /\ JobStands(job[j], archive, extracted, item, kept)
  BY DEF BackupsIInv, BackupShape
<1>2. Known(job[j]) = Archived(archive, job[j].name)
  BY <1>1 DEF JobStands
<1>3. Archived(archive, job[j].name) \subseteq Items
  BY DEF Archived
<1>4. job[j].left \subseteq Items /\ job[j].at \subseteq Items
  BY <1>2, <1>3 DEF Known
<1>5. Closed(archive, job[j].name) /\ job[j].name \in Archives
  BY <1>1 DEF JobStands, Closed
<1> QED
  BY <1>1, <1>2, <1>4, <1>5 DEF JobStands

\* An entry is passed over.
LEMMA SkippingStands ==
    ASSUME BackupsIInv, NEW j \in BackupJobs, RestoreSkip(j)
    PROVE  BackupsIInv'
<1>1. PICK i \in job[j].left :
        job' = [job EXCEPT ![j] = [job[j] EXCEPT !.left = @ \ {i}, !.passed = @ \cup {i}]]
  BY DEF RestoreSkip
<1>2. job[j].pc = "apply" /\ UNCHANGED <<item, kept, archive, listed, extracted, edits, lost>>
  BY DEF RestoreSkip
<1>3. /\ job[j] \in JobStates /\ Closed(archive, job[j].name) /\ i \in Items
      /\ Known(job[j]) = Archived(archive, job[j].name) /\ job[j].at = {}
      /\ job[j].alone => \A h \in Archived(archive, job[j].name) :
                           extracted[job[j].name][h] = archive[job[j].name].has[h]
  BY <1>1, <1>2, RestoringKnows
<1>4. PICK r : r = [job[j] EXCEPT !.left = @ \ {i}, !.passed = @ \cup {i}]
  OBVIOUS
<1>5. /\ r \in JobStates /\ r.pc = "apply" /\ r.name = job[j].name /\ r.at = {}
      /\ r.left = job[j].left \ {i} /\ r.passed = job[j].passed \cup {i}
      /\ r.done = job[j].done /\ r.alone = job[j].alone
  BY <1>2, <1>3, <1>4 DEF JobStates
<1>6. Known(r) = Archived(archive, r.name)
  BY <1>1, <1>3, <1>5 DEF Known
<1>7. JobStands(r, archive, extracted, item, kept)
  BY <1>3, <1>5, <1>6 DEF JobStands
<1>8. /\ job' = [job EXCEPT ![j] = r] /\ listed' \subseteq Archives
      /\ \A a \in listed' : Closed(archive, a)
  BY <1>1, <1>2, <1>4 DEF BackupsIInv, BackupShape
<1> QED
  BY <1>2, <1>5, <1>7, <1>8, JobGoesOn

LEMMA CopyingStands ==
    ASSUME BackupsIInv, NEW j \in BackupJobs, RestoreCopy(j)
    PROVE  BackupsIInv'
<1>0. /\ job \in [BackupJobs -> JobStates]
      /\ \A k \in BackupJobs : JobStands(job[k], archive, extracted, item, kept)
      /\ extracted \in [Archives -> [Items -> Nat]] /\ item \in [Items -> Nat]
      /\ kept = [f \in Files |-> kept[f]] /\ lost = {}
  BY DEF BackupsIInv, BackupShape
<1>1. PICK f \in job[j].left \cap Files, fails \in BOOLEAN :
        /\ kept' = [kept EXCEPT ![f] = IF fails \/ item[f] = NothingThere THEN @
                                       ELSE @ \cup {item[f]}]
        /\ job' = [job EXCEPT ![j] = [job[j] EXCEPT !.pc = "copied", !.at = {f}, !.left = @ \ {f},
                                                    !.copied = ~fails]]
  BY DEF RestoreCopy
<1>2. job[j].pc = "apply" /\ UNCHANGED <<item, archive, listed, extracted, edits, lost>>
  BY DEF RestoreCopy
<1>3. /\ job[j] \in JobStates /\ Closed(archive, job[j].name)
      /\ Known(job[j]) = Archived(archive, job[j].name)
      /\ job[j].at = {}
      /\ job[j].alone => \A i \in Archived(archive, job[j].name) :
                           extracted[job[j].name][i] = archive[job[j].name].has[i]
  BY <1>2, RestoringKnows
<1>4. PICK lp : lp = [kept EXCEPT ![f] = IF fails \/ item[f] = NothingThere THEN @
                                         ELSE @ \cup {item[f]}]
  OBVIOUS
<1>5. /\ lp = [g \in Files |-> lp[g]] /\ \A g \in Files : kept[g] \subseteq lp[g]
      /\ ~fails => item[f] \in lp[f] \cup {NothingThere}
  BY <1>0, <1>4
<1>6. PICK r : r = [job[j] EXCEPT !.pc = "copied", !.at = {f}, !.left = @ \ {f},
                                  !.copied = ~fails]
  OBVIOUS
<1>7. /\ r \in JobStates /\ r.pc = "copied" /\ r.name = job[j].name /\ r.at = {f}
      /\ r.left = job[j].left \ {f} /\ r.done = job[j].done /\ r.passed = job[j].passed
      /\ r.alone = job[j].alone /\ r.copied = ~fails
  BY <1>1, <1>3, <1>6 DEF JobStates, Items
<1>8. Known(r) = Archived(archive, r.name)
  BY <1>1, <1>3, <1>7 DEF Known
<1>9. r.copied => Safe(item, lp, f)
  BY <1>5, <1>7 DEF Safe
<1>10. JobStands(r, archive, extracted, item, lp)
  BY <1>1, <1>3, <1>7, <1>8, <1>9 DEF JobStands
<1>11. ASSUME NEW k \in BackupJobs PROVE JobStands(job[k], archive, extracted, item, lp)
  <2>1. job[k].pc \in {"apply", "copied", "import"} /\ job[k].alone =>
          \A h \in Archived(archive, job[k].name) :
             extracted[job[k].name][h] = archive[job[k].name].has[h]
    BY <1>0 DEF JobStands
  <2>2. \A g \in Files : Safe(item, kept, g) => Safe(item, lp, g)
    BY <1>5 DEF Safe
  <2> QED
    BY <1>0, <2>1, <2>2, ArchivesAreKept, JobsOutlive
<1>12. PICK jb : jb = [job EXCEPT ![j] = r]
  OBVIOUS
<1>13. /\ jb \in [BackupJobs -> JobStates] /\ jb[j] = r
       /\ \A k \in BackupJobs \ {j} : jb[k] = job[k]
  BY <1>0, <1>7, <1>12
<1>14. /\ jb[j].pc # "create" /\ JobStands(jb[j], archive, extracted, item, lp)
       /\ \A k \in BackupJobs \ {j} :
            /\ jb[k].pc = job[k].pc /\ jb[k].name = job[k].name
            /\ JobStands(jb[k], archive, extracted, item, lp)
  BY <1>7, <1>10, <1>11, <1>13
<1>15. job' = jb
  BY <1>0, <1>1, <1>6, <1>12
<1>16. /\ extracted' = extracted /\ item' = item /\ kept' = lp /\ lost' = {}
       /\ UNCHANGED <<archive, listed, edits>>
  BY <1>0, <1>1, <1>2, <1>4
<1>17. /\ extracted \in [Archives -> [Items -> Nat]] /\ item \in [Items -> Nat]
       /\ lp = [g \in Files |-> lp[g]] /\ jb \in [BackupJobs -> JobStates]
  BY <1>0, <1>5, <1>13
<1> QED
  BY <1>14, <1>15, <1>16, <1>17, RestoreStep

\* A file is overwritten, or the overwriting fails.
LEMMA PlacingStands ==
    ASSUME BackupsIInv, NEW j \in BackupJobs, RestoreFile(j) \/ RestoreFileFails(j)
    PROVE  BackupsIInv'
<1>0. /\ job \in [BackupJobs -> JobStates]
      /\ extracted \in [Archives -> [Items -> Nat]] /\ item \in [Items -> Nat]
      /\ kept = [f \in Files |-> kept[f]] /\ lost = {}
      /\ listed \subseteq Archives /\ \A a \in listed : Closed(archive, a)
  BY DEF BackupsIInv, BackupShape
<1>1. job[j].pc = "copied" /\ UNCHANGED <<kept, archive, listed, extracted, edits>>
  BY DEF RestoreFile, RestoreFileFails
<1>2. /\ job[j] \in JobStates /\ Closed(archive, job[j].name) /\ job[j].name \in Archives
      /\ Known(job[j]) = Archived(archive, job[j].name) /\ job[j].at \subseteq Items
      /\ \E f \in Files : job[j].at = {f} /\ (job[j].copied => Safe(item, kept, f))
      /\ job[j].alone => \A i \in Archived(archive, job[j].name) :
                           extracted[job[j].name][i] = archive[job[j].name].has[i]
  BY <1>1, RestoringKnows
<1>3. CASE JobEnds(j) /\ UNCHANGED <<item, lost>>
  BY <1>0, <1>1, <1>3, JobRests
<1>4. CASE ~(JobEnds(j) /\ UNCHANGED <<item, lost>>)
  <2>1. PICK f \in job[j].at, new \in Nat, r \in JobStates :
          /\ item' = [item EXCEPT ![f] = new]
          /\ lost' = lost \cup Overwritten(j, f)
          /\ job' = [WrittenTo(f) EXCEPT ![j] = r]
          /\ r.pc # "create" /\ \A jt : JobStands(r, archive, extracted, jt, kept)
    <3>1. CASE RestoreFile(j)
      <4>1. PICK f \in job[j].at :
              /\ item' = [item EXCEPT ![f] = Source(j, f)]
              /\ lost' = lost \cup Overwritten(j, f)
              /\ job' = [WrittenTo(f) EXCEPT ![j] = [job[j] EXCEPT !.pc = "apply", !.at = {},
                                                       !.done = @ \cup {f}, !.copied = FALSE]]
        BY <3>1 DEF RestoreFile
      <4>2. PICK r : r = [job[j] EXCEPT !.pc = "apply", !.at = {}, !.done = @ \cup {f},
                                        !.copied = FALSE]
        OBVIOUS
      <4>3. /\ r \in JobStates /\ r.pc = "apply" /\ r.name = job[j].name /\ r.at = {}
            /\ r.left = job[j].left /\ r.done = job[j].done \cup {f}
            /\ r.passed = job[j].passed /\ r.alone = job[j].alone
        BY <1>2, <4>1, <4>2 DEF JobStates
      <4>4. Known(r) = Archived(archive, r.name)
        BY <1>2, <4>1, <4>3 DEF Known
      <4>5. \A jt : JobStands(r, archive, extracted, jt, kept)
        BY <1>2, <4>3, <4>4 DEF JobStands
      <4>6. Source(j, f) \in Nat
        BY <1>0, <1>2, <4>1 DEF Source
      <4> QED
        BY <4>1, <4>2, <4>3, <4>5, <4>6
    <3>2. CASE RestoreFileFails(j)
      <4>1. PICK f \in job[j].at :
              /\ item' = [item EXCEPT ![f] = TornItem]
              /\ lost' = lost \cup Overwritten(j, f)
              /\ job' = [WrittenTo(f) EXCEPT ![j] = Resting]
        BY <1>4, <3>2 DEF RestoreFileFails
      <4>2. Resting \in JobStates /\ Resting.pc = "idle"
        BY DEF Resting, JobStates
      <4>3. \A jt : JobStands(Resting, archive, extracted, jt, kept)
        BY <4>2 DEF JobStands
      <4>4. TornItem \in Nat
        BY BackupsAssumption DEF TornItem
      <4> QED
        BY <4>1, <4>2, <4>3, <4>4
    <3> QED
      BY <3>1, <3>2
  <2>2. f \in Items /\ (job[j].copied => Safe(item, kept, f))
    BY <1>2, <2>1
  \* The file that is overwritten is nowhere lost.
  <2>3. lost' = {}
    BY <1>0, <2>1, <2>2 DEF Safe, Overwritten
  <2>4. PICK jt : jt = [item EXCEPT ![f] = new]
    OBVIOUS
  <2>5. jt \in [Items -> Nat] /\ \A h \in Items \ {f} : jt[h] = item[h]
    BY <1>0, <2>1, <2>2, <2>4
  <2>6. \A k \in BackupJobs :
          /\ WrittenTo(f)[k] \in JobStates
          /\ WrittenTo(f)[k].pc = job[k].pc /\ WrittenTo(f)[k].name = job[k].name
          /\ JobStands(WrittenTo(f)[k], archive, extracted, jt, kept)
    BY <2>2, <2>5, WritingMeets
  <2>7. PICK jb : jb = [WrittenTo(f) EXCEPT ![j] = r]
    OBVIOUS
  <2>8. jb[j] = r /\ \A k \in BackupJobs \ {j} : jb[k] = WrittenTo(f)[k]
    BY <2>7 DEF WrittenTo
  <2>9. jb \in [BackupJobs -> JobStates]
    BY <2>1, <2>6, <2>7, <2>8 DEF WrittenTo
  <2>10. /\ jb[j].pc # "create" /\ JobStands(jb[j], archive, extracted, jt, kept)
         /\ \A k \in BackupJobs \ {j} :
              /\ jb[k].pc = job[k].pc /\ jb[k].name = job[k].name
              /\ JobStands(jb[k], archive, extracted, jt, kept)
    BY <2>1, <2>6, <2>8
  <2>11. /\ job' = jb /\ extracted' = extracted /\ item' = jt /\ kept' = kept /\ lost' = {}
         /\ UNCHANGED <<archive, listed, edits>>
    BY <1>1, <2>1, <2>3, <2>4, <2>7
  <2> QED
    BY <1>0, <2>5, <2>9, <2>10, <2>11, RestoreStep
<1> QED
  BY <1>3, <1>4

\* Volumes and settings are not copied: no restore's knowledge of a file is touched.
LEMMA ImportingStands ==
    ASSUME BackupsIInv, NEW j \in BackupJobs,
           RestoreWipe(j) \/ ImportSucceeds(j) \/ RestoreSettings(j)
    PROVE  BackupsIInv'
<1>0. /\ job \in [BackupJobs -> JobStates]
      /\ \A k \in BackupJobs : JobStands(job[k], archive, extracted, item, kept)
      /\ extracted \in [Archives -> [Items -> Nat]] /\ item \in [Items -> Nat]
      /\ kept = [f \in Files |-> kept[f]] /\ lost = {}
  BY DEF BackupsIInv, BackupShape
<1>1. PICK v \in Volumes \cup {Settings}, new \in Nat, r \in JobStates :
        /\ item' = [item EXCEPT ![v] = new] /\ job' = [job EXCEPT ![j] = r]
        /\ r.pc # "create" /\ UNCHANGED <<kept, archive, listed, extracted, edits, lost>>
        /\ \A jt : JobStands(r, archive, extracted, jt, kept)
  <2>0. TornItem \in Nat
    BY BackupsAssumption DEF TornItem
  <2>1. CASE RestoreWipe(j)
    <3>1. PICK v \in job[j].left \cap Volumes :
            /\ item' = [item EXCEPT ![v] = TornItem]
            /\ job' = [job EXCEPT ![j] =
                         [job[j] EXCEPT !.pc = "import", !.at = {v}, !.left = @ \ {v}]]
      BY <2>1 DEF RestoreWipe
    <3>2. job[j].pc = "apply" /\ UNCHANGED <<kept, archive, listed, extracted, edits, lost>>
      BY <2>1 DEF RestoreWipe
    <3>3. /\ job[j] \in JobStates /\ Closed(archive, job[j].name)
          /\ Known(job[j]) = Archived(archive, job[j].name) /\ job[j].at = {}
          /\ job[j].alone => \A i \in Archived(archive, job[j].name) :
                               extracted[job[j].name][i] = archive[job[j].name].has[i]
      BY <3>2, RestoringKnows
    <3>4. PICK r : r = [job[j] EXCEPT !.pc = "import", !.at = {v}, !.left = @ \ {v}]
      OBVIOUS
    <3>5. /\ r \in JobStates /\ r.pc = "import" /\ r.name = job[j].name /\ r.at = {v}
          /\ r.left = job[j].left \ {v} /\ r.done = job[j].done /\ r.alone = job[j].alone
          /\ r.passed = job[j].passed
      BY <3>1, <3>3, <3>4 DEF JobStates, Items
    <3>6. Known(r) = Archived(archive, r.name)
      BY <3>1, <3>3, <3>5 DEF Known
    <3>7. \A jt : JobStands(r, archive, extracted, jt, kept)
      BY <3>1, <3>3, <3>5, <3>6 DEF JobStands
    <3>8. job' = [job EXCEPT ![j] = r]
      BY <1>0, <3>1, <3>4
    <3>9. v \in Volumes /\ r.pc # "create"
      BY <3>1, <3>5
    <3> QED
      BY <2>0, <3>1, <3>2, <3>5, <3>7, <3>8, <3>9
  <2>2. CASE ImportSucceeds(j)
    <3>1. PICK v \in job[j].at :
            /\ item' = [item EXCEPT ![v] = Source(j, v)]
            /\ job' = [job EXCEPT ![j] =
                         [job[j] EXCEPT !.pc = "apply", !.at = {}, !.done = @ \cup {v}]]
      BY <2>2 DEF ImportSucceeds
    <3>2. job[j].pc = "import" /\ UNCHANGED <<kept, archive, listed, extracted, edits, lost>>
      BY <2>2 DEF ImportSucceeds
    <3>3. /\ job[j] \in JobStates /\ Closed(archive, job[j].name) /\ job[j].name \in Archives
          /\ Known(job[j]) = Archived(archive, job[j].name)
          /\ job[j].at = {v} /\ v \in Volumes /\ v \in Items
          /\ job[j].alone => \A i \in Archived(archive, job[j].name) :
                               extracted[job[j].name][i] = archive[job[j].name].has[i]
      BY ZenonT(30), <3>1, <3>2, RestoringKnows DEF Items
    <3>4. PICK r : r = [job[j] EXCEPT !.pc = "apply", !.at = {}, !.done = @ \cup {v}]
      OBVIOUS
    <3>5. /\ r \in JobStates /\ r.pc = "apply" /\ r.name = job[j].name /\ r.at = {}
          /\ r.left = job[j].left /\ r.done = job[j].done \cup {v} /\ r.alone = job[j].alone
          /\ r.passed = job[j].passed
      BY <3>3, <3>4 DEF JobStates
    <3>6. Known(r) = Archived(archive, r.name)
      BY <3>3, <3>5 DEF Known
    <3>7. \A jt : JobStands(r, archive, extracted, jt, kept)
      BY <3>3, <3>5, <3>6 DEF JobStands
    <3>8. Source(j, v) \in Nat
      BY <1>0, <3>3 DEF Source
    <3>9. job' = [job EXCEPT ![j] = r]
      BY <1>0, <3>1, <3>4
    <3>10. v \in Volumes /\ r.pc # "create"
      BY <3>3, <3>5
    <3> QED
      BY <3>1, <3>2, <3>5, <3>7, <3>8, <3>9, <3>10
  <2>3. CASE RestoreSettings(j)
    <3>1. /\ job[j].pc = "apply" /\ Settings \in job[j].left
          /\ UNCHANGED <<kept, archive, listed, extracted, edits, lost>>
      BY <2>3 DEF RestoreSettings
    <3>2. CASE item' = [item EXCEPT ![Settings] = TornItem] /\ JobEnds(j)
      <4>1. Resting \in JobStates /\ Resting.pc = "idle"
        BY DEF Resting, JobStates
      <4>2. \A jt : JobStands(Resting, archive, extracted, jt, kept)
        BY <4>1 DEF JobStands
      <4> QED
        BY <2>0, <3>1, <3>2, <4>1, <4>2 DEF JobEnds
    <3>3. CASE /\ item' = [item EXCEPT ![Settings] = Source(j, Settings)]
               /\ job' = [job EXCEPT ![j] = [job[j] EXCEPT !.left = @ \ {Settings},
                                                           !.done = @ \cup {Settings}]]
      <4>1. /\ job[j] \in JobStates /\ Closed(archive, job[j].name) /\ job[j].name \in Archives
            /\ Known(job[j]) = Archived(archive, job[j].name) /\ job[j].at = {}
            /\ job[j].alone => \A i \in Archived(archive, job[j].name) :
                                 extracted[job[j].name][i] = archive[job[j].name].has[i]
        BY <3>1, RestoringKnows
      <4>2. PICK r : r = [job[j] EXCEPT !.left = @ \ {Settings}, !.done = @ \cup {Settings}]
        OBVIOUS
      <4>3. /\ r \in JobStates /\ r.pc = "apply" /\ r.name = job[j].name /\ r.at = {}
            /\ r.left = job[j].left \ {Settings} /\ r.done = job[j].done \cup {Settings}
            /\ r.passed = job[j].passed /\ r.alone = job[j].alone
        BY <3>1, <4>1, <4>2 DEF JobStates, Items
      <4>4. Known(r) = Archived(archive, r.name)
        BY <3>1, <4>1, <4>3 DEF Known
      <4>5. \A jt : JobStands(r, archive, extracted, jt, kept)
        BY <4>1, <4>3, <4>4 DEF JobStands
      <4>6. Source(j, Settings) \in Nat
        BY <1>0, <4>1 DEF Source, Items
      <4>7. job' = [job EXCEPT ![j] = r]
        BY <1>0, <3>3, <4>2
      <4> QED
        BY <3>1, <3>3, <4>3, <4>5, <4>6, <4>7
    <3> QED
      BY <2>3, <3>2, <3>3 DEF RestoreSettings
  <2> QED
    BY <2>1, <2>2, <2>3
<1>2. PICK jt : jt = [item EXCEPT ![v] = new]
  OBVIOUS
<1>3. jt \in [Items -> Nat] /\ \A f \in Files : jt[f] = item[f]
  BY <1>0, <1>1, <1>2, BackupsAssumption DEF Items
<1>4. ASSUME NEW k \in BackupJobs PROVE JobStands(job[k], archive, extracted, jt, kept)
  <2>1. job[k].pc \in {"apply", "copied", "import"} /\ job[k].alone =>
          \A h \in Archived(archive, job[k].name) :
             extracted[job[k].name][h] = archive[job[k].name].has[h]
    BY <1>0 DEF JobStands
  <2>2. \A f \in Files : job[k].pc = "copied" /\ job[k].at = {f} /\ job[k].copied
                           /\ Safe(item, kept, f) => Safe(jt, kept, f)
    BY <1>3 DEF Safe
  <2>3. JobStands(job[k], archive, extracted, item, kept)
    BY <1>0
  <2> QED
    BY <2>1, <2>2, <2>3, ArchivesAreKept, JobsOutlive
<1>5. PICK jb : jb = [job EXCEPT ![j] = r]
  OBVIOUS
<1>6. /\ jb \in [BackupJobs -> JobStates] /\ jb[j] = r
      /\ \A k \in BackupJobs \ {j} : jb[k] = job[k]
  BY <1>0, <1>1, <1>5
<1>7. /\ jb[j].pc # "create" /\ JobStands(jb[j], archive, extracted, jt, kept)
      /\ \A k \in BackupJobs \ {j} :
           /\ jb[k].pc = job[k].pc /\ jb[k].name = job[k].name
           /\ JobStands(jb[k], archive, extracted, jt, kept)
  BY <1>1, <1>4, <1>6
<1>8. /\ job' = jb /\ extracted' = extracted /\ item' = jt /\ kept' = kept /\ lost' = {}
      /\ UNCHANGED <<archive, listed, edits>>
  BY <1>0, <1>1, <1>2, <1>5
<1> QED
  BY <1>0, <1>3, <1>6, <1>7, <1>8, RestoreStep

LEMMA EditingStands ==
    ASSUME BackupsIInv, Edit
    PROVE  BackupsIInv'
<1>0. /\ archive \in [Archives -> ArchiveStates] /\ extracted \in [Archives -> [Items -> Nat]]
      /\ item \in [Items -> Nat] /\ kept = [f \in Files |-> kept[f]] /\ lost = {}
      /\ edits \in Nat
  BY DEF BackupsIInv, BackupShape
<1>1. PICK i \in Items, new \in {edits + 1, NothingThere} :
        item' = [item EXCEPT ![i] = new] /\ job' = WrittenTo(i)
  BY DEF Edit, Items
<1>2. edits' = edits + 1 /\ UNCHANGED <<kept, archive, listed, extracted, lost>>
  BY DEF Edit
<1>3. PICK jt : jt = [item EXCEPT ![i] = new]
  OBVIOUS
<1>4. jt \in [Items -> Nat] /\ \A h \in Items \ {i} : jt[h] = item[h]
  BY <1>0, <1>1, <1>3 DEF NothingThere
<1>5. \A k \in BackupJobs :
        /\ WrittenTo(i)[k] \in JobStates
        /\ WrittenTo(i)[k].pc = job[k].pc /\ WrittenTo(i)[k].name = job[k].name
        /\ JobStands(WrittenTo(i)[k], archive, extracted, jt, kept)
  BY <1>4, WritingMeets
<1>6. PICK jb : jb = WrittenTo(i)
  OBVIOUS
<1>7. jb \in [BackupJobs -> JobStates]
  BY <1>5, <1>6 DEF WrittenTo
<1>8. \A k \in BackupJobs : JobStands(jb[k], archive, extracted, jt, kept)
  BY <1>5, <1>6
<1>9. \A k \in BackupJobs : jb[k].pc = "create" =>
        job[k].pc = "create" /\ jb[k].name = job[k].name /\ ~Closed(archive, jb[k].name)
  BY <1>5, <1>6 DEF BackupsIInv, OneWriter
<1>10. /\ job' = jb /\ archive' = archive /\ extracted' = extracted /\ item' = jt /\ kept' = kept
       /\ edits' \in Nat /\ lost' = {} /\ UNCHANGED listed
  BY <1>0, <1>1, <1>2, <1>3, <1>6
<1> QED
  BY <1>0, <1>4, <1>7, <1>8, <1>9, <1>10, ArchivesAreKept, WorldGoesOn

LEMMA CrashStands ==
    ASSUME BackupsIInv, BackupsCrash
    PROVE  BackupsIInv'
<1>1. Resting \in JobStates /\ Resting.pc = "idle"
  BY DEF Resting, JobStates
<1>2. JobStands(Resting, archive, extracted, item, kept)
  BY <1>1 DEF JobStands
<1>3. \A k \in BackupJobs : job'[k] = Resting
  BY DEF BackupsCrash
<1>4. job' \in [BackupJobs -> JobStates]
  BY <1>1 DEF BackupsCrash
<1>5. UNCHANGED <<item, kept, archive, listed, extracted, edits, lost>>
  BY DEF BackupsCrash
<1>6. BackupShape' /\ OneWriter'
  BY <1>1, <1>3, <1>4, <1>5 DEF BackupsIInv, BackupShape, OneWriter
<1>7. \A k \in BackupJobs : JobStands(job'[k], archive, extracted, item, kept)
  BY <1>2, <1>3
<1> QED
  BY <1>5, <1>6, <1>7 DEF BackupsIInv

--------------------------------------------------------------------------------
LEMMA BackupsStepStands ==
    ASSUME BackupsIInv, [BackupsNext]_backupVars
    PROVE  BackupsIInv'
<1>1. CASE UNCHANGED backupVars
  BY <1>1 DEF backupVars, BackupsIInv, BackupShape, OneWriter
<1>2. CASE Edit \/ BackupsCrash
  BY <1>2, EditingStands, CrashStands
<1>3. CASE \E j \in BackupJobs : ImportFails(j) \/ RestoreAnswer(j) \/ RestoreFails(j)
  <2>1. PICK j \in BackupJobs : ImportFails(j) \/ RestoreAnswer(j) \/ RestoreFails(j)
    BY <1>3
  <2>2. JobEnds(j) /\ UNCHANGED <<item, kept, archive, listed, extracted, edits, lost>>
    BY <2>1 DEF ImportFails, RestoreAnswer, RestoreFails, AfterFailedImport, JobEnds
  <2>3. listed' \subseteq Archives /\ \A a \in listed' : Closed(archive, a)
    BY <2>2 DEF BackupsIInv, BackupShape
  <2> QED
    BY <2>2, <2>3, JobRests
<1>4. CASE \E j \in BackupJobs :
             \/ CreateBegin(j) \/ CreateEntry(j) \/ CreateClose(j) \/ CreateFails(j)
             \/ CreateInsert(j) \/ RemoveBegin(j) \/ RemoveUnlink(j) \/ RemoveRow(j)
             \/ RestoreBegin(j) \/ RestoreUnpacked(j) \/ RestoreSkip(j) \/ RestoreCopy(j)
             \/ RestoreFile(j) \/ RestoreFileFails(j) \/ RestoreSettings(j)
             \/ RestoreWipe(j) \/ ImportSucceeds(j)
  BY <1>4, CreatingStands, RemovingStands, UnpackingStands, SkippingStands, CopyingStands,
     PlacingStands, ImportingStands
<1> QED
  BY <1>1, <1>2, <1>3, <1>4 DEF BackupsNext

\* A restore that ends with an answer has done what it says.
LEMMA AnswersAreTrue ==
    ASSUME BackupsIInv, NEW j \in BackupJobs, AnswersOk(j), job[j].alone
    PROVE  LET has == archive[job[j].name].has
           IN  /\ job[j].done \cup job[j].passed = {i \in Items : has[i] # NothingThere}
               /\ \A i \in job[j].done : Source(j, i) = has[i]
<1>1. job[j].pc = "apply" /\ job[j].left = {}
  BY DEF AnswersOk
<1>2. /\ Known(job[j]) = Archived(archive, job[j].name) /\ job[j].at = {}
      /\ \A i \in Archived(archive, job[j].name) :
           extracted[job[j].name][i] = archive[job[j].name].has[i]
  BY <1>1, RestoringKnows
<1>3. /\ job[j].done \cup job[j].passed = Archived(archive, job[j].name)
      /\ \A i \in job[j].done : i \in Archived(archive, job[j].name)
  BY <1>1, <1>2 DEF Known
<1> QED
  BY <1>2, <1>3 DEF Archived, Source

\* However many restores, creations, clean-ups, edits, failing writes and crashes of the server
\* overlap: a restore overwrites no file whose `.bak.` copy it made and nobody has outdated
\* without that copy holding what it overwrites, and it answers "ok" only when every entry it was
\* wanted for is in place as the archive holds it, or has been passed over: refused, and counted
\* as skipped in the answer, or missing from the unpacked directory, and not counted
\* (backups.service.ts:255). Of volumes and settings it keeps nothing (volume-backup.ts:72).
THEOREM RestoresAreTrue == BackupsSpec => RestoreIsTrue
<1>1. BackupsIInv /\ [BackupsNext]_backupVars => BackupsIInv'
  BY BackupsStepStands
<1>2. BackupsIInv /\ BackupsIInv' =>
        [/\ lost' = {}
         /\ \A j \in BackupJobs :
              AnswersOk(j) /\ job'[j].pc = "idle" /\ job[j].alone
                => LET has == archive[job[j].name].has
                   IN  /\ job[j].done \cup job[j].passed =
                             {i \in Items : has[i] # NothingThere}
                       /\ \A i \in job[j].done : Source(j, i) = has[i]]_backupVars
  BY AnswersAreTrue DEF BackupsIInv
<1> QED
  BY <1>1, <1>2, BackupsStart, PTL DEF BackupsSpec, RestoreIsTrue

\* A backup in the list is whole or its archive has been removed: no crash in the middle of a
\* creation leaves a row of half an archive (backups.service.ts:198).
THEOREM ListedStaysWhole == BackupsSpec => []ListedIsWhole
<1>1. BackupsIInv /\ [BackupsNext]_backupVars => BackupsIInv'
  BY BackupsStepStands
<1>2. BackupsIInv => ListedIsWhole
  BY DEF BackupsIInv, ListedIsWhole, Closed
<1> QED
  BY <1>1, <1>2, BackupsStart, PTL DEF BackupsSpec

\* The contents that people write, archives hold and restores leave.
Contents == ItemContents \cup {NothingThere, TornItem}

BackupsKeepBounds ==
    /\ item \in [Items -> Contents]
    /\ kept \in [Files -> SUBSET (ItemContents \cup {TornItem})]
    /\ \A a \in Archives : archive[a].has \in [Items -> Contents]
    /\ extracted \in [Archives -> [Items -> Contents]]
    /\ edits \in ItemContents
    /\ \A j \in BackupJobs : job[j].name \in Archives

\* A job's steps leave the name it works on, or take another archive's.
LEMMA JobNamesStay ==
    ASSUME BackupsIInv, BackupsKeepBounds, [BackupsNext]_backupVars, NEW k \in BackupJobs
    PROVE  job'[k].name \in Archives
<1>1. SomeArchive \in Archives /\ Resting.name = SomeArchive
  BY BackupsAssumption DEF SomeArchive, Resting
<1>2. /\ job \in [BackupJobs -> JobStates] /\ listed \subseteq Archives
      /\ \A j \in BackupJobs : job[j].name \in Archives
      /\ \A j \in BackupJobs : job[j].pc = "unlink" => job[j].left \subseteq Archives
  BY DEF BackupsIInv, BackupShape, BackupsKeepBounds, JobStands, Closed
<1>3. CASE UNCHANGED backupVars
  BY <1>2, <1>3 DEF backupVars
<1>4. ASSUME NEW i \in Items
      PROVE  /\ WrittenTo(i)[k].name = job[k].name /\ DOMAIN WrittenTo(i) = BackupJobs
             /\ WrittenTo(i) \in [BackupJobs -> JobStates]
  BY ZenonT(30), <1>2 DEF WrittenTo, JobStates
<1>5. CASE Edit
  <2>1. PICK i \in Files \cup Volumes : job' = WrittenTo(i)
    BY <1>5 DEF Edit
  <2> QED
    BY <1>2, <1>4, <2>1 DEF Items
<1>6. CASE BackupsCrash
  BY <1>1, <1>6 DEF BackupsCrash
<1>7. ASSUME NEW j \in BackupJobs,
             \/ CreateFails(j) \/ CreateInsert(j) \/ ImportFails(j) \/ RestoreAnswer(j)
             \/ RestoreFails(j)
      PROVE  job'[k].name \in Archives
  BY <1>1, <1>2, <1>7
  DEF CreateFails, CreateInsert, ImportFails, AfterFailedImport, RestoreAnswer, RestoreFails,
      JobEnds
<1>8. ASSUME NEW j \in BackupJobs, CreateBegin(j)
      PROVE  job'[k].name \in Archives
  BY <1>1, <1>2, <1>8 DEF CreateBegin, Resting
<1>9. ASSUME NEW j \in BackupJobs, RemoveBegin(j)
      PROVE  job'[k].name \in Archives
  BY <1>1, <1>2, <1>9 DEF RemoveBegin, Resting
<1>10. ASSUME NEW j \in BackupJobs, CreateEntry(j) \/ CreateClose(j)
       PROVE  job'[k].name \in Archives
  <2>1. \/ \E i \in job[j].left : job' = [job EXCEPT ![j].left = @ \ {i}]
        \/ job' = [job EXCEPT ![j].pc = "insert"]
    BY <1>10 DEF CreateEntry, CreateClose, Goes
  <2> QED
    BY <1>2, <2>1 DEF JobStates
<1>11. ASSUME NEW j \in BackupJobs,
             \/ RestoreCopy(j) \/ RestoreWipe(j) \/ ImportSucceeds(j) \/ RestoreSkip(j)
             \/ RestoreSettings(j)
       PROVE  job'[k].name \in Archives
  <2>1. CASE RestoreCopy(j)
    <3>1. PICK f \in job[j].left \cap Files, fails \in BOOLEAN :
            job' = [job EXCEPT ![j] = [job[j] EXCEPT !.pc = "copied", !.at = {f}, !.left = @ \ {f},
                                                     !.copied = ~fails]]
      BY <2>1 DEF RestoreCopy
    <3> QED
      BY <1>2, <3>1 DEF JobStates
  <2>2. CASE RestoreWipe(j)
    <3>1. PICK v \in job[j].left \cap Volumes :
            job' = [job EXCEPT ![j] = [job[j] EXCEPT !.pc = "import", !.at = {v}, !.left = @ \ {v}]]
      BY <2>2 DEF RestoreWipe
    <3> QED
      BY <1>2, <3>1 DEF JobStates
  <2>3. CASE ImportSucceeds(j)
    <3>1. PICK v \in job[j].at :
            job' = [job EXCEPT ![j] =
                      [job[j] EXCEPT !.pc = "apply", !.at = {}, !.done = @ \cup {v}]]
      BY <2>3 DEF ImportSucceeds
    <3> QED
      BY <1>2, <3>1 DEF JobStates
  <2>4. CASE RestoreSkip(j)
    <3>1. PICK i \in job[j].left :
            job' = [job EXCEPT ![j] = [job[j] EXCEPT !.left = @ \ {i}, !.passed = @ \cup {i}]]
      BY <2>4 DEF RestoreSkip
    <3> QED
      BY <1>2, <3>1 DEF JobStates
  <2>5. CASE RestoreSettings(j)
    <3>1. CASE job' = [job EXCEPT ![j] = [job[j] EXCEPT !.left = @ \ {Settings},
                                                        !.done = @ \cup {Settings}]]
      BY <1>2, <3>1 DEF JobStates
    <3>2. CASE JobEnds(j)
      BY <1>1, <1>2, <3>2 DEF JobEnds
    <3> QED
      BY <2>5, <3>1, <3>2 DEF RestoreSettings
  <2> QED
    BY <1>11, <2>1, <2>2, <2>3, <2>4, <2>5
<1>12. ASSUME NEW j \in BackupJobs, RemoveUnlink(j)
       PROVE  job'[k].name \in Archives
  BY <1>2, <1>12 DEF RemoveUnlink, JobStates
<1>13. ASSUME NEW j \in BackupJobs, RemoveRow(j)
       PROVE  job'[k].name \in Archives
  BY <1>1, <1>2, <1>13 DEF RemoveRow, JobStates, JobEnds
<1>14. ASSUME NEW j \in BackupJobs, RestoreBegin(j)
       PROVE  job'[k].name \in Archives
  <2>1. PICK a \in listed :
          LET here == {i \in Items : archive[a].has[i] # NothingThere}
          IN  job' = [q \in BackupJobs |->
                CASE q = j -> [Resting EXCEPT !.pc = "unpack", !.name = a, !.left = here]
                  [] q # j /\ job[q].pc \in {"unpack", "apply", "copied", "import"}
                           /\ job[q].name = a -> [job[q] EXCEPT !.alone = FALSE]
                  [] OTHER -> job[q]]
    BY <1>14 DEF RestoreBegin
  <2>2. job'[k].name \in {a, job[k].name}
    BY <1>2, <2>1 DEF Resting, JobStates
  <2> QED
    BY SMTT(30), <1>2, <2>2
<1>15. ASSUME NEW j \in BackupJobs, RestoreUnpacked(j)
       PROVE  job'[k].name \in Archives
  <2>1. CASE JobEnds(j)
    BY <1>1, <1>2, <2>1 DEF JobEnds
  <2>2. CASE \E wanted \in Requests :
               job' = [job EXCEPT ![j] = [job[j] EXCEPT !.pc = "apply", !.left = @ \cap wanted,
                                                        !.passed = job[j].left \ wanted]]
    BY <1>2, <2>2 DEF JobStates
  <2> QED
    BY <1>15, <2>1, <2>2 DEF RestoreUnpacked
<1>16. ASSUME NEW j \in BackupJobs, RestoreFile(j) \/ RestoreFileFails(j)
       PROVE  job'[k].name \in Archives
  <2>1. CASE JobEnds(j)
    BY <1>1, <1>2, <2>1 DEF JobEnds
  <2>2. CASE ~JobEnds(j)
    <3>1. PICK f \in job[j].at : \E r \in JobStates :
            job' = [WrittenTo(f) EXCEPT ![j] = r] /\ r.name \in {job[j].name, Resting.name}
      <4>1. CASE RestoreFile(j)
        <5>1. PICK f \in job[j].at :
                job' = [WrittenTo(f) EXCEPT ![j] =
                          [job[j] EXCEPT !.pc = "apply", !.at = {}, !.done = @ \cup {f},
                                         !.copied = FALSE]]
          BY <4>1 DEF RestoreFile
        <5>2. PICK r : r = [job[j] EXCEPT !.pc = "apply", !.at = {}, !.done = @ \cup {f},
                                          !.copied = FALSE]
          OBVIOUS
        <5>3. r \in JobStates /\ r.name = job[j].name
          BY <1>2, <5>1, <5>2 DEF JobStates
        <5>4. job' = [WrittenTo(f) EXCEPT ![j] = r]
          BY <5>1, <5>2
        <5> QED
          BY <5>3, <5>4
      <4>2. CASE RestoreFileFails(j)
        <5>1. Resting \in JobStates
          BY <1>1 DEF Resting, JobStates
        <5> QED
          BY <2>2, <4>2, <5>1 DEF RestoreFileFails
      <4> QED
        BY <1>16, <4>1, <4>2
    <3>2. f \in Items
      BY <1>2, <3>1 DEF JobStates
    <3> QED
      BY <1>1, <1>2, <1>4, <3>1, <3>2
  <2> QED
    BY <2>1, <2>2
<1> QED
  BY <1>3, <1>5, <1>6, <1>7, <1>8, <1>9, <1>10, <1>11, <1>12, <1>13, <1>14, <1>15, <1>16
  DEF BackupsNext

LEMMA ContentsAreKept ==
    ASSUME BackupsIInv, BackupsKeepBounds, [BackupsNext]_backupVars
    PROVE  /\ item' \in [Items -> Contents]
           /\ kept' \in [Files -> SUBSET (ItemContents \cup {TornItem})]
           /\ \A a \in Archives : archive'[a].has \in [Items -> Contents]
           /\ extracted' \in [Archives -> [Items -> Contents]]
           /\ edits' \in ItemContents
<1> DEFINE Goal == /\ item' \in [Items -> Contents]
                   /\ kept' \in [Files -> SUBSET (ItemContents \cup {TornItem})]
                   /\ \A a \in Archives : archive'[a].has \in [Items -> Contents]
                   /\ extracted' \in [Archives -> [Items -> Contents]]
                   /\ edits' \in ItemContents
<1> SUFFICES Goal
  OBVIOUS
<1>0. /\ item \in [Items -> Contents]
      /\ kept \in [Files -> SUBSET (ItemContents \cup {TornItem})]
      /\ \A a \in Archives : archive[a].has \in [Items -> Contents]
      /\ extracted \in [Archives -> [Items -> Contents]]
      /\ edits \in ItemContents
      /\ archive \in [Archives -> ArchiveStates] /\ job \in [BackupJobs -> JobStates]
      /\ \A j \in BackupJobs : job[j].name \in Archives
  BY DEF BackupsKeepBounds, BackupsIInv, BackupShape
<1>1. TornItem \in Contents /\ NothingThere \in Contents
  BY DEF Contents
<1>2. ASSUME UNCHANGED <<item, kept, archive, extracted, edits>>
      PROVE  Goal
  BY <1>0, <1>2
<1>3. CASE Edit
  <2>1. edits + 1 \in ItemContents
    BY <1>0, <1>3, BackupsAssumption DEF Edit, ItemContents
  <2>2. PICK i \in Items, new \in {edits + 1, NothingThere} : item' = [item EXCEPT ![i] = new]
    BY <1>3 DEF Edit, Items
  <2> QED
    BY <1>0, <1>3, <2>1, <2>2 DEF Edit, Contents
<1>4. ASSUME NEW j \in BackupJobs, CreateEntry(j)
      PROVE  Goal
  <2>1. PICK i \in job[j].left :
          archive' = [archive EXCEPT ![job[j].name] =
                        [archive[job[j].name] EXCEPT !.state = "partial",
                                                     !.has[i] = item[i]]]
    BY <1>4 DEF CreateEntry
  <2>2. i \in Items
    BY <1>4, <2>1 DEF CreateEntry, BackupsIInv, JobStands
  <2>3. \A a \in Archives : archive'[a].has \in [Items -> Contents]
    BY <1>0, <2>1, <2>2 DEF ArchiveStates
  <2> QED
    BY <1>0, <1>4, <2>3 DEF CreateEntry
<1>5. ASSUME NEW j \in BackupJobs, CreateClose(j) \/ RemoveUnlink(j)
      PROVE  Goal
  <2>0. ASSUME NEW b, NEW state, archive' = [archive EXCEPT ![b].state = state],
               NEW a \in Archives
        PROVE  archive'[a].has = archive[a].has
    BY <1>0, <2>0 DEF ArchiveStates
  <2>1. \A a \in Archives : archive'[a].has = archive[a].has
    BY <1>5, <2>0 DEF CreateClose, RemoveUnlink
  <2> QED
    BY <1>0, <1>5, <2>1 DEF CreateClose, RemoveUnlink
<1>6. ASSUME NEW j \in BackupJobs, RestoreBegin(j)
      PROVE  Goal
  <2>1. PICK a \in Archives :
          LET here == {i \in Items : archive[a].has[i] # NothingThere}
          IN  extracted' = [extracted EXCEPT ![a] =
                              [i \in Items |-> IF i \in here THEN TornItem ELSE @[i]]]
    BY <1>6 DEF RestoreBegin, BackupsIInv, BackupShape
  <2>2. extracted' \in [Archives -> [Items -> Contents]]
    BY <1>0, <1>1, <2>1
  <2> QED
    BY <1>0, <1>6, <2>2 DEF RestoreBegin
<1>7. ASSUME NEW j \in BackupJobs, RestoreUnpacked(j)
      PROVE  Goal
  <2>1. extracted' = [extracted EXCEPT ![job[j].name] =
                        [i \in Items |-> IF i \in job[j].left
                                         THEN archive[job[j].name].has[i] ELSE @[i]]]
    BY <1>7 DEF RestoreUnpacked
  <2>2. extracted' \in [Archives -> [Items -> Contents]]
    BY <1>0, <2>1
  <2> QED
    BY <1>0, <1>7, <2>2 DEF RestoreUnpacked
<1>8. ASSUME NEW j \in BackupJobs, RestoreCopy(j)
      PROVE  Goal
  <2>1. PICK f \in job[j].left \cap Files, fails \in BOOLEAN :
          kept' = [kept EXCEPT ![f] = IF fails \/ item[f] = NothingThere THEN @
                                      ELSE @ \cup {item[f]}]
    BY <1>8 DEF RestoreCopy
  <2>2. item[f] \in ItemContents \cup {NothingThere, TornItem}
    BY <1>0 DEF Items, Contents
  <2>3. kept' \in [Files -> SUBSET (ItemContents \cup {TornItem})]
    BY <1>0, <2>1, <2>2
  <2> QED
    BY <1>0, <1>8, <2>3 DEF RestoreCopy
<1>9. ASSUME NEW j \in BackupJobs,
             \/ RestoreFile(j) \/ RestoreFileFails(j) \/ RestoreWipe(j) \/ ImportSucceeds(j)
             \/ RestoreSettings(j)
      PROVE  Goal
  <2>0. CASE UNCHANGED item
    BY <1>0, <1>9, <2>0 DEF RestoreFile, RestoreFileFails, RestoreWipe, ImportSucceeds,
                            RestoreSettings
  <2> SUFFICES ASSUME ~(UNCHANGED item) PROVE Goal
    BY <2>0
  <2>1. PICK i \in Items : \/ item' = [item EXCEPT ![i] = Source(j, i)]
                          \/ item' = [item EXCEPT ![i] = TornItem]
    BY <1>0, <1>9 DEF RestoreFile, RestoreFileFails, RestoreWipe, ImportSucceeds,
                      RestoreSettings, JobStates, Items
  <2>2. Source(j, i) \in Contents
    BY <1>0 DEF Source
  <2>3. item' \in [Items -> Contents]
    BY <1>0, <1>1, <2>1, <2>2
  <2> QED
    BY <1>0, <1>9, <2>3 DEF RestoreFile, RestoreFileFails, RestoreWipe, ImportSucceeds,
                            RestoreSettings
<1>10. ASSUME NEW j \in BackupJobs,
              \/ CreateBegin(j) \/ CreateFails(j) \/ CreateInsert(j) \/ RemoveBegin(j)
              \/ RemoveRow(j) \/ ImportFails(j) \/ RestoreAnswer(j) \/ RestoreSkip(j)
              \/ RestoreFails(j)
       PROVE  Goal
  BY <1>2, <1>10 DEF CreateBegin, CreateFails, CreateInsert, RemoveBegin, RemoveRow, ImportFails,
                     RestoreAnswer, RestoreSkip, RestoreFails
<1>11. CASE BackupsCrash \/ UNCHANGED backupVars
  BY <1>2, <1>11 DEF BackupsCrash, backupVars
<1> HIDE DEF Goal
<1> QED
  BY <1>3, <1>4, <1>5, <1>6, <1>7, <1>8, <1>9, <1>10, <1>11 DEF BackupsNext

\* Files, archives and jobs keep their types: no restore puts in place what nobody has written
\* (backups.service.ts:55).
THEOREM BackupsTypesStay == BackupsSpec => []BackupsTypeOK
<1>1. BackupsInit => BackupsKeepBounds
  <2> SUFFICES ASSUME BackupsInit PROVE BackupsKeepBounds
    OBVIOUS
  <2>1. 1 \in ItemContents /\ 1 \in Contents /\ NothingThere \in Contents
    BY BackupsAssumption DEF ItemContents, Contents
  <2>2. Resting.name \in Archives
    BY BackupsAssumption DEF SomeArchive, Resting
  <2> QED
    BY <2>1, <2>2 DEF BackupsInit, BackupsKeepBounds, AllNothing, NoArchive
<1>2. BackupsIInv /\ [BackupsNext]_backupVars => BackupsIInv'
  BY BackupsStepStands
<1>3. BackupsIInv /\ BackupsKeepBounds /\ [BackupsNext]_backupVars => BackupsKeepBounds'
  BY JobNamesStay, ContentsAreKept DEF BackupsKeepBounds
<1>4. BackupsIInv /\ BackupsKeepBounds => BackupsTypeOK
  <2> SUFFICES ASSUME BackupsIInv, BackupsKeepBounds PROVE BackupsTypeOK
    OBVIOUS
  <2>1. /\ archive \in [Archives -> [state : {"none", "partial", "whole", "unlinked"},
                                     has : [Items -> Contents]]]
    BY DEF BackupsIInv, BackupShape, BackupsKeepBounds, ArchiveStates
  <2>2. job \in [BackupJobs ->
         [pc : {"idle", "create", "insert", "unlink", "drop", "unpack", "apply", "copied",
                "import"},
          name : Archives, left : SUBSET (Items \cup Archives), at : SUBSET Items,
          done : SUBSET Items, passed : SUBSET Items, copied : BOOLEAN, alone : BOOLEAN]]
    BY DEF BackupsIInv, BackupShape, BackupsKeepBounds, JobStates
  <2> QED
    BY <2>1, <2>2 DEF BackupsIInv, BackupShape, BackupsKeepBounds, BackupsTypeOK, Contents
<1> QED
  BY <1>1, <1>2, <1>3, <1>4, BackupsStart, PTL DEF BackupsSpec

--------------------------------------------------------------------------------
\* The page of a Compose project

\* Texts are numbered as they are made. As long as no load has crossed the adding of a service,
\* the compose file only ever goes on to a newer text, and the base of the editor is what its
\* text was made of, or older than the file for good.
Current(base, from) == base = from \/ base < files[Yaml]

TextsInOrder ==
    /\ files[Yaml] <= texts /\ yaml.text <= texts
    /\ \A r \in ReadIds : reads[r].pc = "read" /\ reads[r].file = Yaml
         => reads[r].text <= files[Yaml]
    /\ yaml.base # NoHash => /\ yaml.base <= files[Yaml] /\ yaml.base <= yaml.text
                             /\ Current(yaml.base, yaml.from)
    /\ task.pc = "sent" /\ task.what = "save" /\ task.file = Yaml =>
         /\ task.base <= files[Yaml] /\ task.base <= task.text /\ task.text <= texts
         /\ Current(task.base, task.from)
    /\ task.pc = "done" /\ task.what = "save" /\ task.file = Yaml => task.text <= files[Yaml]
    /\ task.pc = "done" /\ task.what = "add" =>
         task.text <= files[Yaml] /\ yaml.base < task.text

EditorIInv ==
    /\ ComposeEditorTypeOK
    /\ open = "shown" \/ task.pc # "idle" => yaml.base # NoHash
    /\ task.pc = "sent" /\ task.what = "save" /\ task.file = Yaml => task.base # NoHash
    /\ ~crossed => TextsInOrder

EditorTexts == 0..MaxTexts
EditorBases == 0..NoHash
EditorReads == [ReadIds -> [pc : {"none", "sent", "read"}, file : EditedFiles,
                            text : EditorTexts, own : BOOLEAN]]
EditorTasks == [pc : {"idle", "sent", "done", "failed", "loading"},
                what : {"save", "add", "act"}, file : EditedFiles,
                text : EditorTexts, from : EditorTexts, base : EditorBases]
EditorTexted == [text : EditorTexts, from : EditorTexts, base : EditorBases]
EditorEnvs == [file : EnvFiles, text : EditorTexts, base : EditorBases]

LEMMA EditorTypes ==
    ComposeEditorTypeOK <=>
      /\ files \in [EditedFiles -> EditorTexts] /\ texts \in EditorTexts
      /\ open \in {"not yet", "shown", "error"} /\ crossed \in BOOLEAN
      /\ reloads \in 0..MaxReloads
      /\ yaml \in EditorTexted /\ env \in EditorEnvs
      /\ reads \in EditorReads /\ task \in EditorTasks
BY DEF ComposeEditorTypeOK, EditorTexts, EditorBases, EditorReads, EditorTasks, EditorTexted,
       EditorEnvs

LEMMA EditorTypesNext ==
    ASSUME files' \in [EditedFiles -> EditorTexts], texts' \in EditorTexts,
           open' \in {"not yet", "shown", "error"}, crossed' \in BOOLEAN,
           reloads' \in 0..MaxReloads, yaml' \in EditorTexted, env' \in EditorEnvs,
           reads' \in EditorReads, task' \in EditorTasks
    PROVE  ComposeEditorTypeOK'
BY DEF ComposeEditorTypeOK, EditorTexts, EditorBases, EditorReads, EditorTasks, EditorTexted,
       EditorEnvs

LEMMA EditorNumbers ==
    /\ NoHash = MaxTexts + 1 /\ MaxTexts \in Nat /\ MaxReloads \in Nat
    /\ 0 \in EditorTexts /\ EditorTexts \subseteq EditorBases /\ EditorTexts \subseteq Nat
    /\ EditorBases \subseteq Nat /\ NoHash \in EditorBases /\ NoHash \notin EditorTexts
    /\ Yaml \in EditedFiles /\ EnvFiles \subseteq EditedFiles /\ Yaml \notin EnvFiles
    /\ PreferredEnv \in EnvFiles /\ NoTask \in EditorTasks /\ NoTask.pc = "idle"
<1>1. NoHash = MaxTexts + 1 /\ MaxTexts \in Nat /\ MaxReloads \in Nat
  BY ComposeEditorAssumption DEF NoHash
<1>2. /\ 0 \in EditorTexts /\ EditorTexts \subseteq EditorBases /\ EditorTexts \subseteq Nat
      /\ EditorBases \subseteq Nat /\ NoHash \in EditorBases /\ NoHash \notin EditorTexts
  BY <1>1 DEF EditorTexts, EditorBases
<1>3. Yaml \in EditedFiles /\ EnvFiles \subseteq EditedFiles /\ Yaml \notin EnvFiles
  BY ComposeEditorAssumption DEF EditedFiles, Yaml
<1>4. PreferredEnv \in EnvFiles
  BY ComposeEditorAssumption DEF PreferredEnv
<1>5. NoTask \in EditorTasks /\ NoTask.pc = "idle"
  BY <1>2, <1>3 DEF NoTask, EditorTasks
<1> QED
  BY <1>1, <1>2, <1>3, <1>4, <1>5

LEMMA EditorStart == ComposeEditorInit => EditorIInv
<1> SUFFICES ASSUME ComposeEditorInit PROVE EditorIInv
  OBVIOUS
<1>1. NoRead \in [pc : {"none", "sent", "read"}, file : EditedFiles, text : EditorTexts,
                  own : BOOLEAN]
  BY EditorNumbers DEF NoRead
<1>2. reads \in EditorReads /\ \A r \in ReadIds : reads[r].pc # "read"
  <2>1. PICK first : first = CHOOSE r \in ReadIds : TRUE
    OBVIOUS
  <2>2. reads = [[r \in ReadIds |-> NoRead] EXCEPT ![first].pc = "sent"]
    BY <2>1 DEF ComposeEditorInit
  <2>3. PICK sent : sent = [NoRead EXCEPT !.pc = "sent"]
    OBVIOUS
  <2>4. sent.pc = "sent" /\ NoRead.pc = "none"
        /\ sent \in [pc : {"none", "sent", "read"}, file : EditedFiles, text : EditorTexts,
                     own : BOOLEAN]
    BY <1>1, <2>3 DEF NoRead
  <2>5. \A r \in ReadIds : reads[r] \in {sent, NoRead}
    BY <2>2, <2>3
  <2>6. reads = [r \in ReadIds |-> reads[r]]
    BY <2>2
  <2> QED
    BY <1>1, <2>4, <2>5, <2>6 DEF EditorReads
<1>3. /\ files \in [EditedFiles -> EditorTexts] /\ texts = 0 /\ open = "not yet" /\ ~crossed
      /\ files[Yaml] = 0 /\ reloads \in 0..MaxReloads
      /\ yaml \in EditorTexted /\ yaml.base = NoHash /\ yaml.text = 0 /\ env \in EditorEnvs
      /\ task \in EditorTasks /\ task.pc = "idle"
  <2>1. 0 \in 0..MaxReloads
    BY EditorNumbers
  <2>2. /\ files = [f \in EditedFiles |-> 0] /\ texts = 0 /\ open = "not yet" /\ crossed = FALSE
        /\ yaml = [text |-> 0, from |-> 0, base |-> NoHash] /\ task = NoTask /\ reloads = 0
        /\ env = [file |-> PreferredEnv, text |-> 0, base |-> NoHash]
    BY DEF ComposeEditorInit
  <2>3. /\ files \in [EditedFiles -> EditorTexts] /\ files[Yaml] = 0
        /\ yaml \in EditorTexted /\ env \in EditorEnvs
    BY <2>2, EditorNumbers DEF EditorTexted, EditorEnvs
  <2> QED
    BY <2>1, <2>2, <2>3, EditorNumbers
<1>4. ComposeEditorTypeOK
  <2>1. crossed = FALSE /\ texts = 0
    BY DEF ComposeEditorInit
  <2>2. crossed \in BOOLEAN /\ texts \in EditorTexts /\ open \in {"not yet", "shown", "error"}
    BY <1>3, <2>1, EditorNumbers
  <2> QED
    BY <1>2, <1>3, <2>2, EditorTypes
<1>5. TextsInOrder
  <2>0. files[Yaml] = 0 /\ yaml.text = 0 /\ texts = 0
    BY <1>3
  <2>1. files[Yaml] <= texts /\ yaml.text <= texts
    BY <2>0
  <2> QED
    BY <1>2, <1>3, <2>1 DEF TextsInOrder
<1> QED
  BY <1>3, <1>4, <1>5 DEF EditorIInv

LEMMA EditorAskingHasType ==
    ASSUME NEW rs \in EditorReads, Unread(rs) # {}, NEW f \in EditedFiles, NEW own \in BOOLEAN
    PROVE  /\ Asking(rs, f, own) \in EditorReads
           /\ \A r \in ReadIds : Asking(rs, f, own)[r].pc = "read" =>
                Asking(rs, f, own)[r] = rs[r]
<1>1. PICK r \in ReadIds : r = CHOOSE i \in Unread(rs) : TRUE
  BY DEF Unread
<1>2. [pc |-> "sent", file |-> f, text |-> 0, own |-> own]
        \in [pc : {"none", "sent", "read"}, file : EditedFiles, text : EditorTexts,
             own : BOOLEAN]
  BY EditorNumbers
<1> QED
  BY <1>1, <1>2 DEF Asking, EditorReads

\* A step that changes no text.
LEMMA ReadingStands ==
    ASSUME EditorIInv, reads' \in EditorReads, task' \in EditorTasks, env' \in EditorEnvs,
           open' \in {open, "error"}, reloads' \in 0..MaxReloads,
           UNCHANGED <<files, texts, yaml, crossed>>,
           \A r \in ReadIds : reads'[r].pc = "read" /\ reads'[r].file = Yaml =>
             reads'[r].text = files[Yaml] \/ reads'[r] = reads[r],
           task' = task \/ task'.pc \in {"idle", "failed", "loading"},
           task'.pc # "idle" => task.pc # "idle" \/ open = "shown"
    PROVE  EditorIInv'
<1>1. ComposeEditorTypeOK' /\ ComposeEditorTypeOK
  <2>1. ComposeEditorTypeOK
    BY DEF EditorIInv
  <2>2. open' \in {"not yet", "shown", "error"}
    BY <2>1, EditorTypes
  <2> QED
    BY <2>1, <2>2, EditorTypes, EditorTypesNext
<1>2. open' = "shown" \/ task'.pc # "idle" => yaml'.base # NoHash
  BY <1>1, EditorTypes DEF EditorIInv
<1>3. ASSUME ~crossed' PROVE TextsInOrder'
  <2>1. TextsInOrder
    BY <1>3 DEF EditorIInv
  <2>2. files[Yaml] \in Nat
    BY <1>1, EditorTypes, EditorNumbers
  <2>3. \A r \in ReadIds : reads'[r].pc = "read" /\ reads'[r].file = Yaml
                             => reads'[r].text <= files[Yaml]
    BY <2>1, <2>2 DEF TextsInOrder
  <2> QED
    BY <2>1, <2>3 DEF TextsInOrder, Current
<1> QED
  BY <1>1, <1>2, <1>3 DEF EditorIInv

LEMMA ReadsStand ==
    ASSUME EditorIInv,
           \/ LoadsAgain \/ (\E f \in EnvFiles : ChoosesEnv(f)) \/ LoadsAfter \/ TaskFails
           \/ ServerRefuses \/ \E r \in ReadIds : ServerReads(r) \/ ReadFails(r)
    PROVE  EditorIInv'
<1>0. /\ reads \in EditorReads /\ task \in EditorTasks /\ env \in EditorEnvs
      /\ files \in [EditedFiles -> EditorTexts] /\ reloads \in 0..MaxReloads
  BY EditorTypes DEF EditorIInv
<1>1. CASE LoadsAgain \/ LoadsAfter \/ \E f \in EnvFiles : ChoosesEnv(f)
  <2>1. PICK f \in EditedFiles, own \in BOOLEAN :
          Unread(reads) # {} /\ reads' = Asking(reads, f, own)
    BY <1>1, EditorNumbers DEF LoadsAgain, LoadsAfter, ChoosesEnv
  <2>2. /\ reads' \in EditorReads
        /\ \A r \in ReadIds : reads'[r].pc = "read" => reads'[r] = reads[r]
    BY <1>0, <2>1, EditorAskingHasType
  <2>3. UNCHANGED <<files, texts, open, yaml, crossed>> /\ reloads' \in 0..MaxReloads
    <3>1. reloads < MaxReloads => reloads + 1 \in 0..MaxReloads
      BY <1>0, EditorNumbers
    <3> QED
      BY <1>0, <1>1, <3>1 DEF LoadsAgain, LoadsAfter, ChoosesEnv
  <2>4. env' \in EditorEnvs
    BY <1>0, <1>1 DEF LoadsAgain, LoadsAfter, ChoosesEnv, EditorEnvs
  <2>5. /\ task' \in EditorTasks
        /\ task' = task \/ task'.pc \in {"idle", "failed", "loading"}
        /\ task'.pc # "idle" => task.pc # "idle" \/ open = "shown"
    BY <1>0, <1>1 DEF LoadsAgain, LoadsAfter, ChoosesEnv, EditorTasks
  <2>6. /\ open' \in {open, "error"}
        /\ \A r \in ReadIds : reads'[r].pc = "read" /\ reads'[r].file = Yaml =>
             reads'[r].text = files[Yaml] \/ reads'[r] = reads[r]
    BY <2>2, <2>3
  <2> QED
    BY <2>2, <2>3, <2>4, <2>5, <2>6, ReadingStands
<1>2. CASE TaskFails \/ ServerRefuses
  <2>1. UNCHANGED <<files, texts, open, yaml, env, reads, crossed, reloads>>
    BY <1>2 DEF TaskFails, ServerRefuses
  <2>2. /\ task' \in EditorTasks /\ task'.pc \in {"idle", "failed"} /\ task.pc # "idle"
    BY <1>0, <1>2, EditorNumbers DEF TaskFails, ServerRefuses, NoTask, EditorTasks
  <2> QED
    BY <1>0, <2>1, <2>2, ReadingStands
<1>3. CASE \E r \in ReadIds : ServerReads(r) \/ ReadFails(r)
  <2>1. PICK r \in ReadIds : ServerReads(r) \/ ReadFails(r)
    BY <1>3
  <2>2. CASE ServerReads(r)
    <3>1. PICK s : s = [reads[r] EXCEPT !.pc = "read", !.text = files[reads[r].file]]
      OBVIOUS
    <3>2. /\ s \in [pc : {"none", "sent", "read"}, file : EditedFiles, text : EditorTexts,
                    own : BOOLEAN]
          /\ s.file = Yaml => s.text = files[Yaml]
      BY <1>0, <3>1 DEF EditorReads
    <3>3. reads' = [reads EXCEPT ![r] = s]
      BY <1>0, <2>2, <3>1 DEF ServerReads, EditorReads
    <3>4. /\ reads' \in EditorReads
          /\ \A q \in ReadIds : reads'[q].pc = "read" /\ reads'[q].file = Yaml =>
               reads'[q].text = files[Yaml] \/ reads'[q] = reads[q]
      BY <1>0, <3>2, <3>3 DEF EditorReads
    <3>5. UNCHANGED <<files, texts, open, yaml, env, task, crossed, reloads>>
      BY <2>2 DEF ServerReads
    <3> QED
      BY <1>0, <3>4, <3>5, ReadingStands
  <2>3. CASE ReadFails(r)
    <3>1. UNCHANGED <<files, texts, yaml, env, crossed, reloads>> /\ open' \in {open, "error"}
      BY <2>3 DEF ReadFails
    <3>2. reads' = [reads EXCEPT ![r] = NoRead]
      BY <2>3 DEF ReadFails
    <3>3. NoRead \in [pc : {"none", "sent", "read"}, file : EditedFiles, text : EditorTexts,
                      own : BOOLEAN] /\ NoRead.pc = "none"
      BY EditorNumbers DEF NoRead
    <3>4. /\ reads' \in EditorReads
          /\ \A q \in ReadIds : reads'[q].pc = "read" => reads'[q] = reads[q]
      BY <1>0, <3>2, <3>3 DEF EditorReads
    <3>5. task' \in {task, NoTask}
      BY <2>3 DEF ReadFails, AfterLoad
    <3> QED
      BY <1>0, <3>1, <3>4, <3>5, EditorNumbers, ReadingStands
  <2> QED
    BY <2>1, <2>2, <2>3
<1> QED
  BY <1>1, <1>2, <1>3

LEMMA ArrivingStands ==
    ASSUME EditorIInv, NEW r \in ReadIds, TextArrives(r)
    PROVE  EditorIInv'
<1>0. /\ reads \in EditorReads /\ task \in EditorTasks /\ env \in EditorEnvs
      /\ files \in [EditedFiles -> EditorTexts] /\ reloads \in 0..MaxReloads
      /\ yaml \in EditorTexted /\ open \in {"not yet", "shown", "error"} /\ crossed \in BOOLEAN
      /\ texts \in EditorTexts
  BY EditorTypes DEF EditorIInv
<1>1. UNCHANGED <<files, texts, reloads>> /\ reads[r].pc = "read" /\ task' \in {task, NoTask}
  BY DEF TextArrives, AfterLoad
<1>2. /\ reads[r].text \in EditorTexts /\ reads[r].file \in EditedFiles
      /\ files[Yaml] \in EditorTexts
  BY <1>0, EditorNumbers DEF EditorReads
<1>3. task' \in EditorTasks
  BY <1>0, <1>1, EditorNumbers
<1>4. PICK rest : rest = [reads EXCEPT ![r] = NoRead]
  OBVIOUS
<1>5. /\ rest \in EditorReads /\ Unread(rest) # {}
      /\ \A q \in ReadIds : rest[q].pc = "read" => rest[q] = reads[q]
  <2>1. NoRead \in [pc : {"none", "sent", "read"}, file : EditedFiles, text : EditorTexts,
                    own : BOOLEAN] /\ NoRead.pc = "none"
    BY EditorNumbers DEF NoRead
  <2> QED
    BY <1>0, <1>4, <2>1 DEF EditorReads, Unread
<1>6. /\ reads' \in EditorReads
      /\ \A q \in ReadIds : reads'[q].pc = "read" => reads'[q] = reads[q]
  <2>1. reads' \in {rest, Asking(rest, PreferredEnv, FALSE)}
    BY <1>4 DEF TextArrives
  <2>2. /\ Asking(rest, PreferredEnv, FALSE) \in EditorReads
        /\ \A q \in ReadIds : Asking(rest, PreferredEnv, FALSE)[q].pc = "read" =>
             Asking(rest, PreferredEnv, FALSE)[q] = rest[q]
    BY <1>5, EditorNumbers, EditorAskingHasType
  <2> QED
    BY <1>5, <2>1, <2>2
<1>7. crossed' \in BOOLEAN /\ (crossed => crossed')
  BY <1>0 DEF TextArrives
<1>8. CASE reads[r].file = Yaml
  <2>1. /\ yaml' = [text |-> reads[r].text, from |-> reads[r].text, base |-> reads[r].text]
        /\ env' = env /\ open' \in {"shown", "error"}
    BY <1>8 DEF TextArrives, Loaded
  <2>2. /\ yaml' \in EditorTexted /\ yaml'.base = reads[r].text /\ yaml'.text = reads[r].text
        /\ yaml'.from = reads[r].text /\ yaml'.base # NoHash
    BY <1>2, <2>1, EditorNumbers DEF EditorTexted
  <2>3. ComposeEditorTypeOK'
    BY <1>0, <1>1, <1>3, <1>6, <1>7, <2>1, <2>2, EditorTypesNext
  <2>4. task'.pc # "sent" \/ task' = task
    BY <1>1, EditorNumbers
  <2>5. ASSUME ~crossed' PROVE TextsInOrder'
    <3>1. TextsInOrder /\ reads[r].text <= files[Yaml]
      BY <1>1, <1>7, <1>8, <2>5 DEF EditorIInv, TextsInOrder
    <3>2. ~(task.what = "add" /\ task.pc = "done")
      BY <1>8, <2>5 DEF TextArrives
    <3>3. task' = task \/ task'.pc = "idle"
      BY <1>1, EditorNumbers
    <3>4. reads[r].text <= texts
      <4>1. files[Yaml] <= texts
        BY <3>1 DEF TextsInOrder
      <4>2. {reads[r].text, files[Yaml], texts} \subseteq Nat
        BY <1>0, <1>2, EditorNumbers
      <4> QED
        BY <3>1, <4>1, <4>2
    <3>5. /\ files'[Yaml] <= texts' /\ yaml'.text <= texts'
          /\ \A q \in ReadIds : reads'[q].pc = "read" /\ reads'[q].file = Yaml
               => reads'[q].text <= files'[Yaml]
      BY <1>1, <1>6, <2>2, <3>1, <3>4 DEF TextsInOrder
    <3>6. yaml'.base # NoHash => /\ yaml'.base <= files'[Yaml] /\ yaml'.base <= yaml'.text
                                 /\ Current(yaml.base, yaml.from)'
      <4>1. reads[r].text \in Nat
        BY <1>2, EditorNumbers
      <4> QED
        BY <1>1, <2>2, <3>1, <4>1 DEF Current
    <3> QED
      BY <1>1, <3>1, <3>2, <3>3, <3>5, <3>6 DEF TextsInOrder, Current
  <2>6. task'.pc = "sent" /\ task'.what = "save" /\ task'.file = Yaml => task'.base # NoHash
    BY <1>1, EditorNumbers DEF EditorIInv
  <2> QED
    BY <2>2, <2>3, <2>5, <2>6 DEF EditorIInv
<1>9. CASE reads[r].file # Yaml
  <2>1. /\ env' = [file |-> reads[r].file, text |-> reads[r].text, base |-> reads[r].text]
        /\ UNCHANGED <<open, yaml>> /\ crossed' = crossed
    BY <1>0, <1>9 DEF TextArrives
  <2>2. env' \in EditorEnvs
    BY <1>2, <1>9, <2>1, EditorNumbers DEF EditorEnvs, EditedFiles
  <2>3. task' = task \/ task'.pc = "idle"
    BY <1>1, EditorNumbers
  <2> QED
    BY <1>0, <1>1, <1>3, <1>6, <2>1, <2>2, <2>3, ReadingStands
<1> QED
  BY <1>8, <1>9

\* Typing, here and elsewhere.
LEMMA TypingStands ==
    ASSUME EditorIInv,
           (\E doc \in {"yaml", "env"} : Types(doc)) \/ \E f \in EditedFiles : OthersWrite(f)
    PROVE  EditorIInv'
<1>0. /\ reads \in EditorReads /\ task \in EditorTasks /\ env \in EditorEnvs
      /\ files \in [EditedFiles -> EditorTexts] /\ reloads \in 0..MaxReloads
      /\ yaml \in EditorTexted /\ open \in {"not yet", "shown", "error"} /\ crossed \in BOOLEAN
      /\ texts \in EditorTexts /\ texts \in Nat
  BY EditorTypes, EditorNumbers DEF EditorIInv
<1>1. /\ texts' = texts + 1 /\ texts' \in EditorTexts
      /\ UNCHANGED <<open, reads, task, crossed, reloads>>
  <2>1. texts' = texts + 1 /\ texts < MaxTexts
    BY DEF Types, OthersWrite, NewText
  <2>2. texts + 1 \in EditorTexts
    <3>1. texts \in Nat /\ MaxTexts \in Nat
      BY <1>0, EditorNumbers
    <3> QED
      BY <2>1, <3>1 DEF EditorTexts
  <2>3. UNCHANGED <<open, reads, task, crossed, reloads>>
    BY DEF Types, OthersWrite
  <2> QED
    BY <2>1, <2>2, <2>3
<1>2. /\ yaml' = yaml \/ yaml' = [yaml EXCEPT !.text = texts']
      /\ env' = env \/ env' = [env EXCEPT !.text = texts']
      /\ files' = files \/ \E f \in EditedFiles : files' = [files EXCEPT ![f] = texts']
  BY DEF Types, OthersWrite
<1>3. /\ yaml' \in EditorTexted /\ yaml'.base = yaml.base /\ yaml'.from = yaml.from
      /\ yaml'.text \in {yaml.text, texts + 1}
  BY <1>0, <1>1, <1>2 DEF EditorTexted
<1>4. env' \in EditorEnvs
  BY <1>0, <1>1, <1>2 DEF EditorEnvs
<1>5. files' \in [EditedFiles -> EditorTexts] /\ files'[Yaml] \in {files[Yaml], texts + 1}
  BY <1>0, <1>1, <1>2, EditorNumbers
<1>6. ComposeEditorTypeOK'
  BY <1>0, <1>1, <1>3, <1>4, <1>5, EditorTypesNext
<1>7. ASSUME ~crossed' PROVE TextsInOrder'
  <2>0. /\ texts \in Nat /\ texts' = texts + 1 /\ files'[Yaml] \in {files[Yaml], texts + 1}
        /\ yaml'.text \in {yaml.text, texts + 1}
    BY <1>0, <1>1, <1>3, <1>5
  <2>1. TextsInOrder
    BY <1>1, <1>7 DEF EditorIInv
  <2>2. /\ {files[Yaml], yaml.text, task.text} \subseteq Nat
        /\ {yaml.base, yaml.from, task.base, task.from} \subseteq Nat
        /\ \A r \in ReadIds : reads[r].text \in Nat
    <3>1. /\ {files[Yaml], yaml.text, task.text, yaml.from, task.from} \subseteq EditorTexts
          /\ {yaml.base, task.base} \subseteq EditorBases
          /\ \A r \in ReadIds : reads[r].text \in EditorTexts
      <4>1. \A r \in ReadIds : reads[r].text \in EditorTexts
        BY <1>0 DEF EditorReads
      <4>2. /\ {yaml.text, task.text, yaml.from, task.from} \subseteq EditorTexts
            /\ {yaml.base, task.base} \subseteq EditorBases
        BY <1>0 DEF EditorTexted, EditorTasks
      <4> QED
        BY <1>0, <4>1, <4>2, EditorNumbers
    <3> QED
      BY <3>1, EditorNumbers
  <2>3. files[Yaml] <= files'[Yaml] /\ files'[Yaml] <= texts' /\ files'[Yaml] \in Nat
    <3>1. files[Yaml] <= texts
      BY <2>1 DEF TextsInOrder
    <3> QED
      BY <2>0, <2>2, <3>1
  <2>4. yaml.text <= yaml'.text /\ yaml'.text <= texts' /\ yaml'.text \in Nat
    <3>1. yaml.text <= texts
      BY <2>1 DEF TextsInOrder
    <3> QED
      BY <2>0, <2>2, <3>1
  <2>5. \A b \in {yaml.base, task.base}, f \in {yaml.from, task.from} :
           Current(b, f) => b = f \/ b < files'[Yaml]
    BY <2>2, <2>3 DEF Current
  <2>6. \A r \in ReadIds : reads'[r].pc = "read" /\ reads'[r].file = Yaml
                             => reads'[r].text <= files'[Yaml]
    BY <1>1, <2>1, <2>2, <2>3 DEF TextsInOrder
  <2>7. yaml'.base # NoHash => /\ yaml'.base <= files'[Yaml] /\ yaml'.base <= yaml'.text
                               /\ Current(yaml.base, yaml.from)'
    BY <1>3, <2>1, <2>2, <2>3, <2>4, <2>5 DEF TextsInOrder, Current
  <2>8. task'.pc = "sent" /\ task'.what = "save" /\ task'.file = Yaml =>
          /\ task'.base <= files'[Yaml] /\ task'.base <= task'.text /\ task'.text <= texts'
          /\ Current(task.base, task.from)'
    <3> SUFFICES ASSUME task.pc = "sent", task.what = "save", task.file = Yaml
                 PROVE  /\ task.base <= files'[Yaml] /\ task.base <= task.text
                        /\ task.text <= texts' /\ Current(task.base, task.from)'
      BY <1>1
    <3>1. /\ task.base <= files[Yaml] /\ task.base <= task.text /\ task.text <= texts
          /\ Current(task.base, task.from)
      BY <2>1 DEF TextsInOrder
    <3>2. task.base <= files'[Yaml] /\ task.text <= texts'
      <4>1. /\ {task.base, task.text, files[Yaml]} \subseteq Nat
            /\ task.base <= files[Yaml] /\ task.text <= texts
        BY <2>2, <3>1
      <4> QED
        BY <2>0, <2>3, <4>1
    <3>3. task.base = task.from \/ task.base < files'[Yaml]
      BY <2>5, <3>1
    <3> QED
      BY <1>1, <3>1, <3>2, <3>3 DEF Current
  <2>9. /\ task'.pc = "done" /\ task'.what = "save" /\ task'.file = Yaml =>
             task'.text <= files'[Yaml]
        /\ task'.pc = "done" /\ task'.what = "add" =>
             task'.text <= files'[Yaml] /\ yaml'.base < task'.text
    BY <1>1, <1>3, <2>1, <2>2, <2>3 DEF TextsInOrder
  <2> QED
    BY <2>3, <2>4, <2>6, <2>7, <2>8, <2>9 DEF TextsInOrder
<1> QED
  BY <1>1, <1>3, <1>6, <1>7 DEF EditorIInv

\* An operation is begun with the project shown.
LEMMA BeginningStands ==
    ASSUME EditorIInv,
           SaveYaml \/ SaveIcon \/ SaveEnv \/ \E what \in {"add", "act"} : Acts(what)
    PROVE  EditorIInv'
<1>0. /\ task \in EditorTasks /\ env \in EditorEnvs /\ yaml \in EditorTexted
      /\ texts \in EditorTexts /\ texts \in Nat /\ yaml.base # NoHash
      /\ files \in [EditedFiles -> EditorTexts]
  BY EditorTypes, EditorNumbers
  DEF EditorIInv, SaveYaml, SaveIcon, SaveEnv, Acts, Idle
<1>1. UNCHANGED <<files, open, yaml, env, reads, crossed, reloads>>
  BY DEF SaveYaml, SaveIcon, SaveEnv, Acts
<1>2. texts' \in EditorTexts /\ texts <= texts' /\ texts' \in {texts, texts + 1}
  BY <1>0, EditorNumbers DEF SaveYaml, SaveIcon, SaveEnv, Acts, NewText, EditorTexts
<1>3. CASE SaveYaml \/ SaveIcon
  <2>1. PICK text \in EditorTexts :
          /\ task' = [pc |-> "sent", what |-> "save", file |-> Yaml, text |-> text,
                      from |-> yaml.from, base |-> yaml.base]
          /\ text = yaml.text \/ (text = texts' /\ texts' = texts + 1)
    <3>1. CASE SaveYaml
      <4>1. yaml.text \in EditorTexts
        BY <1>0 DEF EditorTexted
      <4>2. task' = [pc |-> "sent", what |-> "save", file |-> Yaml, text |-> yaml.text,
                     from |-> yaml.from, base |-> yaml.base]
        BY <3>1 DEF SaveYaml, SendingYaml
      <4> QED
        BY <4>1, <4>2
    <3>2. CASE SaveIcon
      BY <1>2, <3>2 DEF SaveIcon, SendingYaml, NewText
    <3> QED
      BY <1>3, <3>1, <3>2
  <2>2. /\ task' \in EditorTasks /\ task'.pc = "sent" /\ task'.what = "save"
        /\ task'.text = text /\ task'.from = yaml.from /\ task'.base = yaml.base
    BY <1>0, <2>1, EditorNumbers DEF EditorTasks, EditorTexted
  <2>3. ComposeEditorTypeOK'
    BY <1>1, <1>2, <2>2, EditorTypes, EditorTypesNext DEF EditorIInv
  <2>4. ASSUME ~crossed' PROVE TextsInOrder'
    <3>1. TextsInOrder
      BY <1>1, <2>4 DEF EditorIInv
    <3>2. {files[Yaml], yaml.text, text, yaml.base} \subseteq Nat
      BY <1>0, EditorNumbers DEF EditorTexted
    <3>3. files[Yaml] <= texts' /\ yaml.text <= texts' /\ text <= texts' /\ yaml.base <= text
      BY <1>0, <1>2, <2>1, <3>1, <3>2 DEF TextsInOrder
    <3> QED
      BY <1>0, <1>1, <2>2, <3>1, <3>3 DEF TextsInOrder, Current
  <2> QED
    BY <1>0, <1>1, <2>2, <2>3, <2>4 DEF EditorIInv
<1>4. CASE SaveEnv \/ \E what \in {"add", "act"} : Acts(what)
  <2>1. /\ task' \in EditorTasks /\ task'.pc = "sent"
        /\ ~(task'.what = "save" /\ task'.file = Yaml)
    <3>1. CASE SaveEnv
      BY <1>0, <3>1, EditorNumbers DEF SaveEnv, EditorTasks, EditorEnvs
    <3>2. CASE \E what \in {"add", "act"} : Acts(what)
      <4>1. PICK what \in {"add", "act"} : task' = [NoTask EXCEPT !.pc = "sent", !.what = what]
        BY <3>2 DEF Acts
      <4> QED
        BY <4>1, EditorNumbers DEF EditorTasks
    <3> QED
      BY <1>4, <3>1, <3>2
  <2>2. texts' = texts
    BY <1>4 DEF SaveEnv, Acts
  <2>3. ComposeEditorTypeOK'
    BY <1>1, <1>2, <2>1, EditorTypes, EditorTypesNext DEF EditorIInv
  <2>4. ~crossed' => TextsInOrder'
    BY <1>1, <2>1, <2>2 DEF EditorIInv, TextsInOrder, Current
  <2> QED
    BY <1>0, <1>1, <2>1, <2>3, <2>4 DEF EditorIInv
<1> QED
  BY <1>3, <1>4

\* A save that the server accepts.
LEMMA SavesReplaceTheirOrigin ==
    ASSUME EditorIInv, ~crossed, ServerSaves, task.file = Yaml
    PROVE  files[Yaml] = task.from /\ task.base = files[Yaml]
<1>1. task.base = files[Yaml] /\ files[Yaml] \in Nat
  BY EditorTypes, EditorNumbers DEF EditorIInv, ServerSaves, BaseHolds
<1>2. Current(task.base, task.from)
  BY DEF EditorIInv, TextsInOrder, ServerSaves
<1> QED
  BY <1>1, <1>2 DEF Current

\* The server does what it was asked.
LEMMA ServingStands ==
    ASSUME EditorIInv, ServerSaves \/ ServerActs
    PROVE  EditorIInv'
<1>0. /\ reads \in EditorReads /\ task \in EditorTasks /\ yaml \in EditorTexted
      /\ files \in [EditedFiles -> EditorTexts] /\ texts \in EditorTexts /\ texts \in Nat
      /\ files[Yaml] \in Nat /\ yaml.base \in Nat /\ yaml.base # NoHash
      /\ {yaml.text, task.text} \subseteq Nat /\ \A r \in ReadIds : reads[r].text \in Nat
  BY EditorTypes, EditorNumbers
  DEF EditorIInv, EditorTexted, EditorTasks, EditorReads, ServerSaves, ServerActs
<1>1. UNCHANGED <<open, yaml, env, reads, crossed, reloads>>
  BY DEF ServerSaves, ServerActs
<1>2. texts' \in EditorTexts /\ texts <= texts' /\ texts' \in {texts, texts + 1}
  BY <1>0, EditorNumbers DEF ServerSaves, ServerActs, NewText, EditorTexts
<1>3. files' \in [EditedFiles -> EditorTexts] /\ files'[Yaml] \in EditorTexts
  BY <1>0, <1>2, EditorNumbers DEF ServerSaves, ServerActs, EditorTasks
<1>4. task' \in EditorTasks /\ task'.pc = "done" /\ task'.what = task.what
      /\ task'.file = task.file
  BY ZenonT(30), <1>0, <1>3, EditorNumbers DEF ServerSaves, ServerActs, AnsweredTask, EditorTasks
<1>5. ComposeEditorTypeOK'
  BY <1>1, <1>2, <1>3, <1>4, EditorTypes, EditorTypesNext DEF EditorIInv
<1>6. ASSUME ~crossed' PROVE TextsInOrder'
  <2>1. TextsInOrder /\ ~crossed
    BY <1>1, <1>6 DEF EditorIInv
  <2>2. /\ files[Yaml] <= files'[Yaml] /\ files'[Yaml] <= texts' /\ files'[Yaml] \in Nat
        /\ task'.what = "save" /\ task'.file = Yaml => task'.text = files'[Yaml]
        /\ task'.what = "add" => task'.text = files'[Yaml] /\ yaml.base < task'.text
    <3>1. CASE ServerSaves /\ task.file = Yaml
      <4>1. /\ files'[Yaml] = task.text /\ task'.text = task.text /\ task.what = "save"
            /\ texts' = texts
        BY <1>0, <3>1, EditorNumbers DEF ServerSaves, AnsweredTask, EditorTasks
      <4>2. task.base = files[Yaml]
        BY <2>1, <3>1, SavesReplaceTheirOrigin
      <4>3. task.base <= task.text /\ task.text <= texts
        BY <2>1, <3>1 DEF TextsInOrder, ServerSaves
      <4> QED
        BY <1>0, <1>4, <4>1, <4>2, <4>3
    <3>2. CASE ServerSaves /\ task.file # Yaml
      <4>1. files'[Yaml] = files[Yaml] /\ texts' = texts /\ task.what = "save"
        BY <1>0, <3>2, EditorNumbers DEF ServerSaves
      <4> QED
        BY <1>0, <1>4, <2>1, <3>2, <4>1 DEF TextsInOrder
    <3>3. CASE ServerActs
      <4>1. task.what # "save" /\ task'.text = files'[Yaml]
        BY <1>0, <3>3 DEF ServerActs, EditorTasks
      <4>2. CASE texts' = texts + 1 /\ files' = [files EXCEPT ![Yaml] = texts']
        <5>1. files'[Yaml] = texts + 1
          BY <1>0, <4>2, EditorNumbers
        <5>2. yaml.base <= files[Yaml] /\ files[Yaml] <= texts
          BY <1>0, <2>1 DEF TextsInOrder
        <5> QED
          BY <1>0, <1>4, <4>1, <4>2, <5>1, <5>2
      <4>3. CASE task.what = "act" /\ UNCHANGED <<files, texts>>
        BY <1>0, <1>4, <2>1, <4>1, <4>3 DEF TextsInOrder
      <4> QED
        BY <3>3, <4>2, <4>3 DEF ServerActs, NewText
    <3> QED
      BY <3>1, <3>2, <3>3
  <2>3. \A r \in ReadIds : reads'[r].pc = "read" /\ reads'[r].file = Yaml
                             => reads'[r].text <= files'[Yaml]
    BY <1>0, <1>1, <2>1, <2>2 DEF TextsInOrder
  <2>4. /\ yaml'.base <= files'[Yaml] /\ yaml'.base <= yaml'.text
        /\ Current(yaml.base, yaml.from)'
    BY <1>0, <1>1, <2>1, <2>2 DEF TextsInOrder, Current
  <2>5. yaml'.text <= texts'
    BY <1>0, <1>1, <1>2, <2>1 DEF TextsInOrder
  <2> QED
    BY <1>1, <1>4, <2>2, <2>3, <2>4, <2>5 DEF TextsInOrder
<1> QED
  BY <1>0, <1>1, <1>4, <1>5, <1>6 DEF EditorIInv

\* The answer to a save, or to the adding of a service, arrives.
LEMMA EndingStands ==
    ASSUME EditorIInv, SaveAnswers \/ AddAnswers
    PROVE  EditorIInv'
<1>0. /\ task \in EditorTasks /\ yaml \in EditorTexted /\ env \in EditorEnvs
      /\ files \in [EditedFiles -> EditorTexts] /\ texts \in Nat /\ files[Yaml] \in Nat
      /\ task.text \in EditorTexts /\ task.text \in Nat /\ task.text # NoHash
      /\ yaml.base # NoHash /\ yaml.base \in Nat
  BY EditorTypes, EditorNumbers
  DEF EditorIInv, EditorTexted, EditorTasks, SaveAnswers, AddAnswers
<1>1. UNCHANGED <<files, texts, open, reads, crossed, reloads>> /\ task' = NoTask
  BY DEF SaveAnswers, AddAnswers
<1>2. /\ yaml' \in EditorTexted /\ env' \in EditorEnvs
      /\ \/ yaml' = yaml
         \/ /\ yaml'.text = task.text /\ yaml'.from = task.text /\ yaml'.base = task.text
            /\ task.pc = "done" /\ task.what = "save" /\ task.file = Yaml
         \/ /\ yaml'.text = task.text /\ yaml'.from = task.text /\ yaml'.base = yaml.base
            /\ task.pc = "done" /\ task.what = "add"
  <2>1. CASE AddAnswers
    BY <1>0, <2>1 DEF AddAnswers, AddShows, EditorTexted
  <2>2. CASE SaveAnswers /\ task.file = Yaml
    <3>1. /\ yaml' = [text |-> task.text, from |-> task.text, base |-> task.text] /\ env' = env
          /\ task.pc = "done" /\ task.what = "save"
      BY <2>2 DEF SaveAnswers, Loaded
    <3> QED
      BY <1>0, <2>2, <3>1, EditorNumbers DEF EditorTexted
  <2>3. CASE SaveAnswers /\ task.file # Yaml
    <3>1. yaml' = yaml /\ env' = [env EXCEPT !.base = task.text]
      BY <2>3 DEF SaveAnswers
    <3> QED
      BY <1>0, <3>1, EditorNumbers DEF EditorEnvs
  <2> QED
    BY <2>1, <2>2, <2>3
<1>3. ComposeEditorTypeOK'
  BY <1>1, <1>2, EditorTypes, EditorNumbers, EditorTypesNext DEF EditorIInv
<1>4. ASSUME ~crossed' PROVE TextsInOrder'
  <2>1. TextsInOrder
    BY <1>1, <1>4 DEF EditorIInv
  <2>2. /\ yaml'.text <= texts /\ yaml'.base <= files[Yaml] /\ yaml'.base <= yaml'.text
        /\ yaml'.base = yaml'.from \/ yaml'.base < files[Yaml]
    <3>1. CASE yaml' = yaml
      BY <1>0, <2>1, <3>1 DEF TextsInOrder, Current
    <3>2. CASE /\ yaml'.text = task.text /\ yaml'.from = task.text /\ yaml'.base = task.text
               /\ task.pc = "done" /\ task.what = "save" /\ task.file = Yaml
      BY <1>0, <2>1, <3>2 DEF TextsInOrder
    <3>3. CASE /\ yaml'.text = task.text /\ yaml'.from = task.text /\ yaml'.base = yaml.base
               /\ task.pc = "done" /\ task.what = "add"
      BY <1>0, <2>1, <3>3 DEF TextsInOrder
    <3> QED
      BY <1>2, <3>1, <3>2, <3>3
  <2> QED
    BY <1>1, <2>1, <2>2, EditorNumbers DEF TextsInOrder, Current
<1>5. yaml'.base # NoHash
  BY <1>0, <1>2
<1> QED
  BY <1>1, <1>3, <1>4, <1>5, EditorNumbers DEF EditorIInv

LEMMA EditorStepStands ==
    ASSUME EditorIInv, [ComposeEditorNext]_editorVars
    PROVE  EditorIInv'
<1>1. CASE UNCHANGED editorVars
  BY <1>1 DEF editorVars, EditorIInv, ComposeEditorTypeOK, TextsInOrder, Current
<1>2. CASE ComposeEditorNext
  BY <1>2, ReadsStand, ArrivingStands, TypingStands, BeginningStands, ServingStands,
     EndingStands DEF ComposeEditorNext
<1> QED
  BY <1>1, <1>2

\* Only a save is answered to a save.
LEMMA OnlySavesAreDone ==
    ASSUME ComposeEditorNext, task.pc = "sent", task'.pc = "done", task.what = "save"
    PROVE  ServerSaves
<1>1. task' # task /\ task' # NoTask
  BY DEF NoTask
<1> QED
  BY <1>1
  DEF ComposeEditorNext, LoadsAgain, ChoosesEnv, ServerReads, TextArrives, ReadFails, AfterLoad,
      Types, OthersWrite, SaveYaml, SaveIcon, SaveEnv, Acts, Idle, ServerActs, ServerRefuses,
      SaveAnswers, AddAnswers, LoadsAfter, TaskFails, NoTask

\* However many pages, updates and shells write beside the typing, and in whatever order answers
\* arrive: a save of the compose file that is accepted replaces the text that what it saves was
\* made of, unless the project was loaded while a service was being added
\* (compose-detail-page.tsx:125, 224).
THEOREM SavesAreSafe == ComposeEditorSpec => SaveReplacesItsOrigin
<1>1. EditorIInv /\ [ComposeEditorNext]_editorVars => EditorIInv'
  BY EditorStepStands
<1>2. EditorIInv /\ [ComposeEditorNext]_editorVars =>
        [(task.pc = "sent" /\ task'.pc = "done" /\ task.what = "save" /\ task.file = Yaml
          /\ ~crossed)
         => files[Yaml] = task.from]_editorVars
  BY OnlySavesAreDone, SavesReplaceTheirOrigin
<1> QED
  BY <1>1, <1>2, EditorStart, PTL DEF ComposeEditorSpec, SaveReplacesItsOrigin

\* The page of a project keeps its types (compose-detail-page.tsx:55).
THEOREM EditorTypesStay == ComposeEditorSpec => []ComposeEditorTypeOK
<1>1. EditorIInv /\ [ComposeEditorNext]_editorVars => EditorIInv'
  BY EditorStepStands
<1>2. EditorIInv => ComposeEditorTypeOK
  BY DEF EditorIInv
<1> QED
  BY <1>1, <1>2, EditorStart, PTL DEF ComposeEditorSpec

--------------------------------------------------------------------------------
\* The page of a project waits for what is under way

\* A request of the project, and one that the buttons wait for.
OfProject(rs, r) == rs[r].pc # "none" /\ rs[r].file = Yaml
WaitedFor(rs, r) == rs[r].pc # "none" /\ rs[r].own

\* The operation waits for a load exactly if one is under way for it, and for one only.
ButtonsFit(t, rs) ==
    /\ t.pc = "loading" <=> \E r \in ReadIds : WaitedFor(rs, r)
    /\ \A r, s \in ReadIds : WaitedFor(rs, r) /\ WaitedFor(rs, s) => r = s
    /\ \A r \in ReadIds : WaitedFor(rs, r) => rs[r].file = Yaml

\* A page that shows nothing yet has asked for its project.
LoadingIsServed ==
    /\ open = "not yet" => \E r \in ReadIds : OfProject(reads, r)
    /\ ButtonsFit(task, reads)

\* A request that is made takes the place of none.
NextRead(rs) == CHOOSE i \in Unread(rs) : TRUE

LEMMA EditorAskingIsNew ==
    ASSUME NEW rs \in EditorReads, Unread(rs) # {}, NEW f, NEW own \in BOOLEAN
    PROVE  /\ NextRead(rs) \in ReadIds /\ rs[NextRead(rs)].pc = "none"
           /\ Asking(rs, f, own)[NextRead(rs)]
                = [pc |-> "sent", file |-> f, text |-> 0, own |-> own]
           /\ \A s \in ReadIds \ {NextRead(rs)} : Asking(rs, f, own)[s] = rs[s]
<1>1. NextRead(rs) \in Unread(rs)
  BY DEF NextRead
<1>2. NextRead(rs) \in ReadIds /\ rs[NextRead(rs)].pc = "none"
  BY <1>1 DEF Unread
<1>3. Asking(rs, f, own) = [rs EXCEPT ![NextRead(rs)] = [pc |-> "sent", file |-> f, text |-> 0,
                                                         own |-> own]]
  BY DEF Asking, NextRead
<1> QED
  BY <1>2, <1>3 DEF EditorReads

LEMMA EditorAskingServes ==
    ASSUME NEW rs \in EditorReads, Unread(rs) # {}, NEW t, ButtonsFit(t, rs), NEW f
    PROVE  /\ ButtonsFit(t, Asking(rs, f, FALSE))
           /\ (\E r \in ReadIds : OfProject(rs, r))
                => \E r \in ReadIds : OfProject(Asking(rs, f, FALSE), r)
<1>1. PICK r : r = NextRead(rs)
  OBVIOUS
<1>2. PICK grown : grown = Asking(rs, f, FALSE)
  OBVIOUS
<1>0. /\ r \in ReadIds /\ rs[r].pc = "none"
      /\ grown[r] = [pc |-> "sent", file |-> f, text |-> 0, own |-> FALSE]
      /\ \A s \in ReadIds \ {r} : grown[s] = rs[s]
  <2>1. /\ NextRead(rs) \in ReadIds /\ rs[NextRead(rs)].pc = "none"
        /\ Asking(rs, f, FALSE)[NextRead(rs)]
             = [pc |-> "sent", file |-> f, text |-> 0, own |-> FALSE]
        /\ \A s \in ReadIds \ {NextRead(rs)} : Asking(rs, f, FALSE)[s] = rs[s]
    BY EditorAskingIsNew
  <2> QED
    BY <1>1, <1>2, <2>1
<1>3. \A s \in ReadIds : WaitedFor(grown, s) <=> WaitedFor(rs, s)
  BY <1>0 DEF WaitedFor
<1>4. \A s \in ReadIds : WaitedFor(rs, s) => grown[s] = rs[s]
  BY <1>0 DEF WaitedFor
<1>5. ButtonsFit(t, grown)
  BY <1>3, <1>4 DEF ButtonsFit
<1>6. \A s \in ReadIds : OfProject(rs, s) => OfProject(grown, s)
  BY <1>0 DEF OfProject
<1> QED
  BY <1>2, <1>5, <1>6

\* A request is over: who waited for it waits no more.
LEMMA EditorReadEnds ==
    ASSUME reads \in EditorReads, ButtonsFit(task, reads), NEW r \in ReadIds, reads[r].pc # "none",
           NEW rs, rs = [reads EXCEPT ![r] = NoRead]
    PROVE  /\ ButtonsFit(AfterLoad(r), rs) /\ rs \in EditorReads /\ rs[r].pc = "none"
           /\ \A s \in ReadIds \ {r} : rs[s] = reads[s]
<1>1. /\ rs \in EditorReads /\ rs[r].pc = "none"
      /\ \A s \in ReadIds \ {r} : rs[s] = reads[s]
  BY EditorNumbers DEF NoRead, EditorReads
<1>2. CASE reads[r].own
  <2>1. AfterLoad(r).pc = "idle"
    BY <1>2, EditorNumbers DEF AfterLoad
  <2>2. \A s \in ReadIds : ~WaitedFor(rs, s)
    BY <1>1, <1>2 DEF ButtonsFit, WaitedFor
  <2> QED
    BY <1>1, <2>1, <2>2 DEF ButtonsFit
<1>3. CASE ~reads[r].own
  <2>1. AfterLoad(r) = task
    BY <1>3 DEF AfterLoad
  <2>2. \A s \in ReadIds : WaitedFor(rs, s) <=> WaitedFor(reads, s)
    BY <1>1, <1>3 DEF WaitedFor
  <2>3. \A s \in ReadIds : WaitedFor(rs, s) => rs[s] = reads[s]
    BY <1>1 DEF WaitedFor
  <2> QED
    BY <1>1, <2>1, <2>2, <2>3 DEF ButtonsFit
<1> QED
  BY <1>2, <1>3

LEMMA LoadingAtFirst == ComposeEditorInit => LoadingIsServed
<1> SUFFICES ASSUME ComposeEditorInit PROVE LoadingIsServed
  OBVIOUS
<1>1. PICK first \in ReadIds : first = CHOOSE r \in ReadIds : TRUE
  BY ComposeEditorAssumption
<1>2. reads = [[r \in ReadIds |-> NoRead] EXCEPT ![first].pc = "sent"]
  BY <1>1 DEF ComposeEditorInit
<1>3. OfProject(reads, first) /\ \A r \in ReadIds : ~reads[r].own
  BY <1>2 DEF OfProject, NoRead
<1> QED
  BY <1>3 DEF ComposeEditorInit, LoadingIsServed, ButtonsFit, WaitedFor, NoTask

LEMMA LoadingStands ==
    ASSUME ComposeEditorTypeOK, LoadingIsServed, [ComposeEditorNext]_editorVars
    PROVE  LoadingIsServed'
<1>0. reads \in EditorReads /\ task \in EditorTasks /\ ButtonsFit(task, reads)
  BY EditorTypes DEF LoadingIsServed
\* The requests stay, and nothing that waits for one begins.
<1>1. ASSUME UNCHANGED reads, UNCHANGED open, task'.pc = "loading" <=> task.pc = "loading"
      PROVE  LoadingIsServed'
  BY <1>1 DEF LoadingIsServed, ButtonsFit
<1>2. CASE LoadsAgain \/ \E f \in EnvFiles : ChoosesEnv(f)
  <2>1. PICK f : reads' = Asking(reads, f, FALSE)
    BY <1>2 DEF LoadsAgain, ChoosesEnv
  <2>2. UNCHANGED <<open, task>> /\ Unread(reads) # {}
    BY <1>2 DEF LoadsAgain, ChoosesEnv
  <2> QED
    BY <1>0, <2>1, <2>2, EditorAskingServes DEF LoadingIsServed
<1>3. ASSUME NEW r \in ReadIds, ServerReads(r)
      PROVE  LoadingIsServed'
  <2>1. /\ reads' = [reads EXCEPT ![r] =
                       [reads[r] EXCEPT !.pc = "read", !.text = files[reads[r].file]]]
        /\ reads[r].pc = "sent" /\ UNCHANGED <<open, task>>
    BY <1>3 DEF ServerReads
  <2>2. \A s \in ReadIds : /\ OfProject(reads', s) <=> OfProject(reads, s)
                           /\ reads'[s].file = reads[s].file
    BY <1>0, <2>1 DEF OfProject, EditorReads
  <2>3. \A s \in ReadIds : WaitedFor(reads', s) <=> WaitedFor(reads, s)
    BY <1>0, <2>1 DEF WaitedFor, EditorReads
  <2> QED
    BY <2>1, <2>2, <2>3 DEF LoadingIsServed, ButtonsFit
<1>4. ASSUME NEW r \in ReadIds, TextArrives(r)
      PROVE  LoadingIsServed'
  <2>1. PICK rs : rs = [reads EXCEPT ![r] = NoRead]
    OBVIOUS
  <2>2. reads[r].pc = "read" /\ task' = AfterLoad(r)
    BY <1>4 DEF TextArrives
  <2>3. /\ ButtonsFit(task', rs) /\ rs \in EditorReads /\ rs[r].pc = "none"
        /\ \A s \in ReadIds \ {r} : rs[s] = reads[s]
    BY <1>0, <2>1, <2>2, EditorReadEnds
  <2>4. Unread(rs) # {}
    BY <2>3 DEF Unread
  <2>5. CASE reads[r].file = Yaml /\ SecureContext
    <3>1. open' = "shown" /\ reads' = Asking(rs, PreferredEnv, FALSE)
      BY <1>4, <2>1, <2>5 DEF TextArrives
    <3> QED
      BY <2>3, <2>4, <3>1, EditorAskingServes DEF LoadingIsServed
  <2>6. CASE reads[r].file = Yaml /\ ~SecureContext
    <3>1. open' = "error" /\ reads' = rs
      BY <1>4, <2>1, <2>6 DEF TextArrives
    <3> QED
      BY <2>3, <3>1 DEF LoadingIsServed
  <2>7. CASE reads[r].file # Yaml
    <3>1. open' = open /\ reads' = rs
      BY <1>4, <2>1, <2>7 DEF TextArrives
    <3>2. \A s \in ReadIds : OfProject(reads, s) => OfProject(reads', s)
      BY <2>3, <2>7, <3>1 DEF OfProject
    <3> QED
      BY <2>3, <3>1, <3>2 DEF LoadingIsServed
  <2> QED
    BY <2>5, <2>6, <2>7
<1>5. ASSUME NEW r \in ReadIds, ReadFails(r)
      PROVE  LoadingIsServed'
  <2>1. /\ reads[r].pc = "sent" /\ task' = AfterLoad(r) /\ reads' = [reads EXCEPT ![r] = NoRead]
        /\ open' = IF reads[r].file = Yaml THEN "error" ELSE open
    BY <1>5 DEF ReadFails
  <2>2. /\ ButtonsFit(task', reads')
        /\ \A s \in ReadIds \ {r} : reads'[s] = reads[s]
    BY <1>0, <2>1, EditorReadEnds
  <2>3. open' = "not yet" => \E s \in ReadIds : OfProject(reads', s)
    BY <2>1, <2>2 DEF LoadingIsServed, OfProject
  <2> QED
    BY <2>2, <2>3 DEF LoadingIsServed
<1>6. CASE LoadsAfter
  <2>1. /\ Unread(reads) # {} /\ reads' = Asking(reads, Yaml, TRUE) /\ UNCHANGED open
        /\ task.pc # "loading" /\ task' = [task EXCEPT !.pc = "loading"]
    BY <1>6 DEF LoadsAfter
  <2>2. task'.pc = "loading"
    BY <1>0, <2>1 DEF EditorTasks
  <2>3. PICK r : r = NextRead(reads)
    OBVIOUS
  <2>4. \A s \in ReadIds : ~WaitedFor(reads, s)
    BY <2>1 DEF LoadingIsServed, ButtonsFit
  <2>5. /\ r \in ReadIds
        /\ reads'[r] = [pc |-> "sent", file |-> Yaml, text |-> 0, own |-> TRUE]
        /\ \A s \in ReadIds \ {r} : reads'[s] = reads[s]
    <3>1. /\ NextRead(reads) \in ReadIds
          /\ Asking(reads, Yaml, TRUE)[NextRead(reads)]
               = [pc |-> "sent", file |-> Yaml, text |-> 0, own |-> TRUE]
          /\ \A s \in ReadIds \ {NextRead(reads)} : Asking(reads, Yaml, TRUE)[s] = reads[s]
      BY <1>0, <2>1, EditorAskingIsNew
    <3> QED
      BY <2>1, <2>3, <3>1
  <2>6. \A s \in ReadIds : WaitedFor(reads', s) <=> s = r
    BY <2>4, <2>5 DEF WaitedFor
  <2>7. OfProject(reads', r)
    BY <2>5 DEF OfProject
  <2>8. ButtonsFit(task', reads')
    BY <2>2, <2>5, <2>6 DEF ButtonsFit
  <2> QED
    BY <2>5, <2>7, <2>8 DEF LoadingIsServed
<1>7. CASE \/ \E doc \in {"yaml", "env"} : Types(doc)
           \/ \E f \in EditedFiles : OthersWrite(f)
           \/ UNCHANGED editorVars
  BY <1>1, <1>7 DEF Types, OthersWrite, editorVars
<1>8. CASE SaveYaml \/ SaveIcon \/ SaveEnv
  BY <1>1, <1>8 DEF SaveYaml, SaveIcon, SaveEnv, Idle, SendingYaml
<1>9. ASSUME NEW what \in {"add", "act"}, Acts(what)
      PROVE  LoadingIsServed'
  BY <1>1, <1>9 DEF Acts, Idle, NoTask
<1>10. CASE ServerSaves \/ ServerActs \/ ServerRefuses
  <2>1. UNCHANGED <<reads, open>> /\ task.pc = "sent"
    BY <1>10 DEF ServerSaves, ServerActs, ServerRefuses
  <2>2. task'.pc # "loading"
    BY <1>0, <1>10
    DEF ServerSaves, ServerActs, ServerRefuses, AnsweredTask, NoTask, EditorTasks
  <2> QED
    BY <1>1, <2>1, <2>2
<1>11. CASE SaveAnswers \/ AddAnswers \/ TaskFails
  <2>1. UNCHANGED <<reads, open>> /\ task.pc # "loading" /\ task' = NoTask
    BY <1>11 DEF SaveAnswers, AddAnswers, TaskFails
  <2> QED
    BY <1>1, <2>1, EditorNumbers
<1> QED
  BY <1>2, <1>3, <1>4, <1>5, <1>6, <1>7, <1>8, <1>9, <1>10, <1>11 DEF ComposeEditorNext

\* However loads, saves, failures and the change of files cross: the page that shows nothing yet has
\* a request for its project under way, and buttons that wait for the project have one of their own
\* (load and executeConfirm, compose-detail-page.tsx:93, 295).
THEOREM EditorIsServed == ComposeEditorSpec => []LoadingIsServed
BY LoadingAtFirst, LoadingStands, EditorTypesStay, PTL DEF ComposeEditorSpec

--------------------------------------------------------------------------------
\* Numbers

\* Of numbers there is a least: what an induction needs here is that a claim that fails
\* first fails somewhere.
LEMMA LeastNumber ==
    ASSUME NEW T, T \subseteq Nat, T # {}
    PROVE  \E x \in T : \A y \in T : x <= y
<1> DEFINE Smaller == {pair \in Nat \X Nat : pair[1] < pair[2]}
<1>1. Smaller = OpToRel(<, Nat)
  BY DEF OpToRel
<1>2. IsWellFoundedOn(Smaller, Nat)
  BY <1>1, NatLessThanWellFounded
<1>3. \A a, b \in Nat : a < b => <<a, b>> \in Smaller
  OBVIOUS
<1> HIDE DEF Smaller
<1>4. PICK x \in T : \A y \in T : ~ (<<y, x>> \in Smaller)
  BY <1>2, WFMin
<1>5. ASSUME NEW y \in T PROVE x <= y
  <2>1. x \in Nat /\ y \in Nat
    OBVIOUS
  <2>2. ~ (y < x)
    BY <1>3, <1>4, <2>1
  <2> QED
    BY <2>1, <2>2
<1> QED
  BY <1>5

\* Max, of what has a greatest member.
LEMMA MaxIs ==
    ASSUME NEW S, S \subseteq Int, NEW top \in S, \A n \in S : n <= top
    PROVE  Max(S) = top
<1>1. \A n \in S : top >= n
  OBVIOUS
<1>2. ASSUME NEW m \in S, \A n \in S : m >= n PROVE m = top
  <2>1. m >= top /\ m <= top /\ m \in Int /\ top \in Int
    BY <1>2
  <2> QED
    BY <2>1
<1> QED
  BY <1>1, <1>2 DEF Max

LEMMA MaxOfTwo ==
    ASSUME NEW a \in Int, NEW b \in Int
    PROVE  Max({a, b}) = IF a >= b THEN a ELSE b
<1>1. CASE a >= b
  BY <1>1, MaxIs
<1>2. CASE ~ (a >= b)
  <2>1. a <= b
    BY <1>2
  <2> HIDE <1>2
  <2>2. Max({a, b}) = b
    BY <2>1, MaxIs
  <2> QED
    BY <2>2, <1>2
<1> QED
  BY <1>1, <1>2

LEMMA MinIsMember ==
    ASSUME NEW S, S \subseteq Nat, S # {}
    PROVE  Min(S) \in S
BY LeastNumber DEF Min

LEMMA GreatestNumber ==
    ASSUME NEW n \in Nat, NEW S \in SUBSET (1 .. n), S # {}
    PROVE  Max(S) \in S /\ \A x \in S : x <= Max(S)
<1> DEFINE Bounds == {y \in Nat : \A x \in S : x <= y}
<1>1. n \in Bounds /\ Bounds \subseteq Nat
  OBVIOUS
<1>2. PICK y \in Bounds : \A z \in Bounds : y <= z
  <2> HIDE DEF Bounds
  <2> QED
    BY <1>1, LeastNumber
<1>3. y \in Nat /\ \A x \in S : x <= y
  BY <1>2
<1>4. y \in S
  <2> SUFFICES ASSUME y \notin S PROVE FALSE
    OBVIOUS
  <2>1. \A x \in S : x \in 1 .. n /\ x <= y /\ x # y
    BY <1>3
  <2>2. y - 1 \in Bounds
    <3>1. PICK x \in S : x \in 1 .. n /\ x <= y
      BY <2>1
    <3>2. y - 1 \in Nat
      BY <1>3, <3>1
    <3>3. \A z \in S : z <= y - 1
      BY <1>3, <2>1
    <3> QED
      BY <3>2, <3>3
  <2> QED
    BY <1>2, <1>3, <2>2
<1>5. S \subseteq Int
  OBVIOUS
<1>6. Max(S) = y
  BY <1>3, <1>4, <1>5, MaxIs
<1> QED
  BY <1>3, <1>4, <1>6

--------------------------------------------------------------------------------
\* The boxes of the departments

FramesStored == frames \in [Frames -> [y : Tops, height : Heights, content : ContentHeights]]

LEMMA StoredSizes ==
    ASSUME FramesStored, NEW f \in Frames
    PROVE  /\ frames[f].y \in Nat /\ frames[f].height \in Nat /\ frames[f].height >= 2
           /\ f \in Nat
           /\ HeightOf(f) \in Nat
           /\ HeightOf(f) >= 2
           /\ StoredBottom(f) \in Nat
           /\ StoredBottom(f) > frames[f].y + 1
<1>1. /\ frames[f].y \in Nat /\ frames[f].height \in Nat /\ frames[f].height >= 2
      /\ f \in Nat /\ frames[f].content \in Nat
  BY FitAssumption DEF FramesStored
<1>2. HeightOf(f) = IF frames[f].height >= frames[f].content
                    THEN frames[f].height ELSE frames[f].content
  BY <1>1, MaxOfTwo DEF HeightOf
<1>3. HeightOf(f) \in Nat /\ HeightOf(f) >= 2
  BY <1>1, <1>2
<1> QED
  BY <1>1, <1>3 DEF StoredBottom

LEMMA GapIs ==
    ASSUME FramesStored, NEW f \in Frames, NEW g \in Frames
    PROVE  /\ Gap(f, g) = IF 0 >= frames[f].y - StoredBottom(g)
                          THEN 0 ELSE frames[f].y - StoredBottom(g)
           /\ Gap(f, g) \in Nat
<1>1. frames[f].y \in Nat /\ StoredBottom(g) \in Nat
  BY StoredSizes
<1>2. Gap(f, g) = IF 0 >= frames[f].y - StoredBottom(g)
                          THEN 0 ELSE frames[f].y - StoredBottom(g)
  BY <1>1, MaxOfTwo DEF Gap
<1> QED
  BY <1>1, <1>2

LEMMA MinTopIsNat ==
    ASSUME FramesStored, NEW f \in Frames, NEW g \in Frames, NEW n \in Nat
    PROVE  MinTop(f, g, n) \in Nat
BY StoredSizes, GapIs DEF MinTop

\* What is below a department comes behind it.
LEMMA BelowIsLater ==
    ASSUME FramesStored, NEW f \in Frames, NEW g \in Frames, IsBelow(f, g)
    PROVE  LiesAbove(g, f) /\ ~ LiesAbove(f, g) /\ f # g
<1>1. frames[f].y + 1 >= StoredBottom(g)
  BY DEF IsBelow
<1>2. StoredBottom(g) > frames[g].y + 1
  BY StoredSizes
<1>3. /\ frames[f].y \in Nat /\ frames[g].y \in Nat /\ StoredBottom(g) \in Nat
      /\ f \in Nat /\ g \in Nat
  BY StoredSizes
<1>4. frames[g].y < frames[f].y
  BY <1>1, <1>2, <1>3
<1> QED
  BY <1>3, <1>4 DEF LiesAbove

LEMMA OrderIsTotal ==
    ASSUME FramesStored, NEW f \in Frames, NEW g \in Frames
    PROVE  /\ f # g => LiesAbove(f, g) \/ LiesAbove(g, f)
           /\ ~ (LiesAbove(f, g) /\ LiesAbove(g, f))
           /\ \A h \in Frames : LiesAbove(f, g) /\ LiesAbove(g, h) => LiesAbove(f, h)
<1>1. \A h \in Frames : frames[h].y \in Nat /\ h \in Nat
  BY StoredSizes
<1> QED
  BY <1>1 DEF LiesAbove

\* Of some departments one lies lowest.
LEMMA OneLiesLowest ==
    ASSUME FramesStored, NEW S \in SUBSET Frames, S # {}
    PROVE  \E m \in S : \A f \in S \ {m} : LiesAbove(f, m)
<1> DEFINE Has(T) == \E m \in T : \A f \in T \ {m} : LiesAbove(f, m)
           Without == {T \in SUBSET Frames : T # {} /\ ~ Has(T)}
           Sizes == {Cardinality(T) : T \in Without}
<1>1. \A T \in SUBSET Frames : IsFiniteSet(T) /\ Cardinality(T) \in Nat
  BY FitAssumption, FS_Subset, FS_CardinalityType
<1>2. SUFFICES ASSUME Without # {} PROVE FALSE
  OBVIOUS
<1>3. Sizes \subseteq Nat /\ Sizes # {}
  BY <1>1, <1>2
<1>4. PICK n \in Sizes : \A k \in Sizes : n <= k
  BY <1>3, LeastNumber
<1>5. PICK T \in Without : Cardinality(T) = n
  BY <1>4
<1>6. PICK f \in T : TRUE
  BY <1>5
<1> DEFINE Rest == T \ {f}
<1>7. Cardinality(Rest) = n - 1 /\ n \in Nat /\ Rest \in SUBSET Frames
  BY <1>1, <1>5, <1>6, FS_RemoveElement
<1>8. ~ (n - 1 \in Sizes)
  BY <1>4, <1>7
<1>9. ~ (Rest \in Without)
  BY <1>7, <1>8
<1>10. CASE Rest = {}
  <2>1. T = {f}
    BY <1>6, <1>10
  <2>2. Has(T)
    BY <2>1
  <2> QED
    BY <2>2, <1>5
<1>11. CASE Rest # {}
  <2>1. Has(Rest)
    BY <1>7, <1>9, <1>11
  <2>2. PICK m \in Rest : \A g \in Rest \ {m} : LiesAbove(g, m)
    BY <2>1
  <2>3. m \in T /\ m \in Frames /\ f \in Frames /\ m # f
    BY <1>5, <1>6, <2>2
  <2>4. CASE LiesAbove(f, m)
    <3>1. \A g \in T \ {m} : LiesAbove(g, m)
      BY <2>2, <2>4
    <3> QED
      BY <3>1, <2>3, <1>5
  <2>5. CASE LiesAbove(m, f)
    <3>1. \A g \in T \ {f} : LiesAbove(g, f)
      <4> SUFFICES ASSUME NEW g \in T \ {f} PROVE LiesAbove(g, f)
        OBVIOUS
      <4>1. g = m \/ (g \in Rest \ {m} /\ g \in Frames)
        BY <1>5
      <4> QED
        BY <4>1, <2>2, <2>3, <2>5, OrderIsTotal
    <3> QED
      BY <3>1, <1>6, <1>5
  <2> QED
    BY <2>3, <2>4, <2>5, OrderIsTotal
<1> QED
  BY <1>10, <1>11

\* Any of the departments can be put in order.
LEMMA SomeOrder ==
    ASSUME FramesStored
    PROVE  \A n \in Nat : \A S \in SUBSET Frames : Cardinality(S) = n =>
             \E order \in Surjection(1 .. n, S) :
               \A i, j \in 1 .. n : i < j => LiesAbove(order[i], order[j])
<1> DEFINE Sorts(order, n) == \A i, j \in 1 .. n : i < j => LiesAbove(order[i], order[j])
           Claim(n) == \A S \in SUBSET Frames : Cardinality(S) = n =>
                         \E order \in Surjection(1 .. n, S) : Sorts(order, n)
           Fails == {n \in Nat : ~ Claim(n)}
<1>1. \A T \in SUBSET Frames : IsFiniteSet(T) /\ Cardinality(T) \in Nat
  BY FitAssumption, FS_Subset, FS_CardinalityType
<1>2. SUFFICES ASSUME Fails # {} PROVE FALSE
  OBVIOUS
<1>3. PICK n \in Fails : \A k \in Fails : n <= k
  BY <1>2, LeastNumber
<1>4. PICK S \in SUBSET Frames :
        /\ Cardinality(S) = n
        /\ ~ \E order \in Surjection(1 .. n, S) : Sorts(order, n)
  BY <1>3
<1>5. n \in Nat
  OBVIOUS
<1>6. CASE n = 0
  <2>1. S = {}
    BY <1>1, <1>4, <1>6, FS_EmptySet
  <2> DEFINE none == [i \in 1 .. 0 |-> 0]
  <2>2. none \in Surjection(1 .. n, S) /\ Sorts(none, n)
    BY <2>1, <1>6 DEF Surjection
  <2> QED
    BY <2>2, <1>4
<1>7. CASE n # 0
  <2>1. S # {}
    BY <1>4, <1>7, FS_EmptySet
  <2>2. PICK m \in S : \A f \in S \ {m} : LiesAbove(f, m)
    BY <2>1, OneLiesLowest
  <2> DEFINE Rest == S \ {m}
  <2>3. Cardinality(Rest) = n - 1 /\ n - 1 \in Nat /\ Rest \in SUBSET Frames
    BY <1>1, <1>4, <1>5, <1>7, <2>2, FS_RemoveElement
  <2>4. Claim(n - 1)
    BY <2>3, <1>3, <1>5
  <2>5. PICK order \in Surjection(1 .. (n - 1), Rest) : Sorts(order, n - 1)
    BY <2>3, <2>4
  <2>6. /\ order \in [1 .. (n - 1) -> Rest]
        /\ \A f \in Rest : \E i \in 1 .. (n - 1) : order[i] = f
    BY <2>5 DEF Surjection
  <2> DEFINE longer == [i \in 1 .. n |-> IF i = n THEN m ELSE order[i]]
  <2>7. \A i \in 1 .. n : i # n => i \in 1 .. (n - 1)
    BY <1>5
  <2>8. longer \in [1 .. n -> S]
    BY <2>2, <2>6, <2>7
  <2>9. ASSUME NEW f \in S PROVE \E i \in 1 .. n : longer[i] = f
    <3>1. CASE f = m
      BY <3>1, <1>5, <1>7
    <3>2. CASE f # m
      <4>1. PICK i \in 1 .. (n - 1) : order[i] = f
        BY <3>2, <2>6
      <4>2. i \in 1 .. n /\ i # n
        BY <1>5
      <4> QED
        BY <4>1, <4>2
    <3> QED
      BY <3>1, <3>2
  <2>10. ASSUME NEW i \in 1 .. n, NEW j \in 1 .. n, i < j
         PROVE  LiesAbove(longer[i], longer[j])
    <3>1. i # n /\ i \in 1 .. (n - 1)
      BY <2>10, <1>5
    <3>2. longer[i] = order[i] /\ order[i] \in Rest
      BY <3>1, <2>6
    <3>3. CASE j = n
      <4>1. longer[j] = m
        BY <3>3
      <4> HIDE DEF longer
      <4> QED
        BY <4>1, <3>2, <2>2
    <3>4. CASE j # n
      <4>1. longer[j] = order[j] /\ j \in 1 .. (n - 1)
        BY <3>4, <2>7
      <4> HIDE DEF longer
      <4> QED
        BY <4>1, <3>1, <3>2, <2>5, <2>10
    <3> QED
      BY <3>3, <3>4
  <2>11. longer \in Surjection(1 .. n, S) /\ Sorts(longer, n)
    <3> HIDE DEF longer
    <3> QED
      BY <2>8, <2>9, <2>10 DEF Surjection
  <2> HIDE DEF longer
  <2> QED
    BY <2>11, <1>4
<1> QED
  BY <1>6, <1>7

LEMMA OrderedSorts ==
    ASSUME FramesStored
    PROVE  /\ Ordered \in [1 .. Cardinality(Frames) -> Frames]
           /\ \A f \in Frames : \E i \in 1 .. Cardinality(Frames) : Ordered[i] = f
           /\ \A i, j \in 1 .. Cardinality(Frames) :
                i < j => LiesAbove(Ordered[i], Ordered[j])
<1>1. Cardinality(Frames) \in Nat
  BY FitAssumption, FS_CardinalityType
<1>2. \E order \in Surjection(1 .. Cardinality(Frames), Frames) :
         \A i, j \in 1 .. Cardinality(Frames) : i < j => LiesAbove(order[i], order[j])
  BY <1>1, SomeOrder
<1>3. /\ Ordered \in Surjection(1 .. Cardinality(Frames), Frames)
      /\ \A i, j \in 1 .. Cardinality(Frames) : i < j => LiesAbove(Ordered[i], Ordered[j])
  BY <1>2 DEF Ordered
<1> QED
  BY <1>3 DEF Surjection

\* One pass

Tops0 == [f \in Frames |-> frames[f].y]

LEMMA ShiftIs ==
    ASSUME FramesStored, NEW t \in [Frames -> Nat], NEW g \in Frames
    PROVE  /\ ShiftBelow(t, g) \in [Frames -> Nat]
           /\ \A f \in Frames :
                ShiftBelow(t, g)[f] = IF IsBelow(f, g) /\ t[f] < MinTop(f, g, t[g])
                                      THEN MinTop(f, g, t[g]) ELSE t[f]
<1>1. ASSUME NEW f \in Frames
      PROVE  /\ ShiftBelow(t, g)[f] = IF IsBelow(f, g) /\ t[f] < MinTop(f, g, t[g])
                                      THEN MinTop(f, g, t[g]) ELSE t[f]
             /\ ShiftBelow(t, g)[f] \in Nat
  <2>1. MinTop(f, g, t[g]) \in Nat /\ t[f] \in Nat
    BY MinTopIsNat
  <2>2. Max({t[f], MinTop(f, g, t[g])}) = IF t[f] >= MinTop(f, g, t[g])
                                          THEN t[f] ELSE MinTop(f, g, t[g])
    BY <2>1, MaxOfTwo
  <2>3. ShiftBelow(t, g)[f] = IF IsBelow(f, g) THEN Max({t[f], MinTop(f, g, t[g])}) ELSE t[f]
    BY DEF ShiftBelow
  <2> QED
    BY <2>1, <2>2, <2>3
<1>2. ShiftBelow(t, g) = [f \in Frames |-> ShiftBelow(t, g)[f]]
  BY DEF ShiftBelow
<1> QED
  BY <1>1, <1>2

\* The pass is what its equation says: it takes the departments one by one, in order.
LEMMA ShiftedIs ==
    shifted = [i \in 0 .. Cardinality(Frames) |->
                 IF i = 0 THEN tops ELSE ShiftBelow(shifted[i - 1], Ordered[i])]
<1> DEFINE N == Cardinality(Frames)
           Passes(p, n) == p = [i \in 0 .. n |->
                                  IF i = 0 THEN tops ELSE ShiftBelow(p[i - 1], Ordered[i])]
           Fails == {n \in Nat : ~ \E p : Passes(p, n)}
<1>1. N \in Nat
  BY FitAssumption, FS_CardinalityType
<1>2. Fails = {}
  <2> SUFFICES ASSUME Fails # {} PROVE FALSE
    OBVIOUS
  <2>1. PICK n \in Fails : \A k \in Fails : n <= k
    BY LeastNumber
  <2>2. CASE n = 0
    <3> DEFINE p == [i \in 0 .. 0 |-> tops]
    <3>1. Passes(p, 0)
      OBVIOUS
    <3> QED
      BY <3>1, <2>1, <2>2
  <2>3. CASE n # 0
    <3>1. n - 1 \in Nat /\ ~ (n - 1 \in Fails) /\ n \in Nat
      BY <2>1, <2>3
    <3>2. PICK p : Passes(p, n - 1)
      BY <3>1
    <3> DEFINE q == [i \in 0 .. n |-> IF i = n THEN ShiftBelow(p[n - 1], Ordered[n]) ELSE p[i]]
    <3>3. ASSUME NEW i \in 0 .. n
          PROVE  q[i] = IF i = 0 THEN tops ELSE ShiftBelow(q[i - 1], Ordered[i])
      <4>1. CASE i = n
        <5>1. i - 1 \in 0 .. n /\ i - 1 # n /\ i # 0
          BY <3>1, <4>1, <2>3
        <5>2. q[i - 1] = p[n - 1]
          BY <5>1, <4>1
        <5>3. q[i] = ShiftBelow(p[n - 1], Ordered[n])
          BY <4>1
        <5> QED
          BY <5>1, <5>2, <5>3, <4>1
      <4>2. CASE i # n
        <5>1. i \in 0 .. (n - 1) /\ (i # 0 => i - 1 \in 0 .. n /\ i - 1 # n)
          BY <3>1, <4>2
        <5>2. q[i] = p[i] /\ (i # 0 => q[i - 1] = p[i - 1])
          BY <5>1, <4>2
        <5>3. p[i] = IF i = 0 THEN tops ELSE ShiftBelow(p[i - 1], Ordered[i])
          BY <5>1, <3>2
        <5> HIDE DEF q
        <5> QED
          BY <5>2, <5>3
      <4> QED
        BY <4>1, <4>2
    <3>4. q = [i \in 0 .. n |-> q[i]]
      OBVIOUS
    <3>5. Passes(q, n)
      <4> HIDE DEF q
      <4> QED
        BY <3>3, <3>4
    <3> HIDE DEF q
    <3> QED
      BY <3>5, <2>1
  <2> QED
    BY <2>2, <2>3
<1>3. \E p : Passes(p, N)
  BY <1>1, <1>2
<1> QED
  BY <1>3 DEF shifted

\* The tops are those of departments that lie where they began or as far down as one above
\* forces them, of those gone through.
Settles(t, from, done) ==
    /\ t \in [Frames -> Nat]
    /\ \A f \in Frames : t[f] >= from[f]
    /\ \A f \in Frames, g \in done : IsBelow(f, g) => t[f] >= MinTop(f, g, t[g])
    /\ \A f \in Frames : \/ t[f] = from[f]
                         \/ \E g \in done : IsBelow(f, g) /\ t[f] = MinTop(f, g, t[g])

Passed(i) == {Ordered[j] : j \in 1 .. i}

\* Going through one more department keeps what those before it have settled: none of
\* them is below it.
LEMMA OneMoreSettles ==
    ASSUME FramesStored, NEW from \in [Frames -> Nat], NEW i \in 1 .. Cardinality(Frames),
           NEW t, Settles(t, from, Passed(i - 1))
    PROVE  Settles(ShiftBelow(t, Ordered[i]), from, Passed(i))
<1> DEFINE N == Cardinality(Frames)
           a == Ordered[i]
           u == ShiftBelow(t, a)
<1>1. N \in Nat /\ Ordered \in [1 .. N -> Frames] /\ a \in Frames
  BY FitAssumption, FS_CardinalityType, OrderedSorts
<1>2. t \in [Frames -> Nat]
  BY DEF Settles
<1>3. /\ u \in [Frames -> Nat]
      /\ \A f \in Frames : u[f] = IF IsBelow(f, a) /\ t[f] < MinTop(f, a, t[a])
                                  THEN MinTop(f, a, t[a]) ELSE t[f]
  BY <1>1, <1>2, ShiftIs
<1>4. ASSUME NEW g \in Passed(i) PROVE g \in Frames /\ ~ IsBelow(g, a)
  <2>1. PICK j \in 1 .. i : g = Ordered[j]
    BY DEF Passed
  <2>2. j \in 1 .. N /\ (j = i \/ j < i)
    BY <1>1
  <2>3. CASE j = i
    BY <2>1, <2>3, <1>1 DEF IsBelow
  <2>4. CASE j < i
    <3>1. LiesAbove(g, a) /\ g \in Frames
      BY <2>1, <2>2, <2>4, <1>1, OrderedSorts
    <3> QED
      BY <3>1, <1>1, BelowIsLater
  <2> QED
    BY <2>2, <2>3, <2>4
<1>5. \A g \in Passed(i) : g \in Frames /\ u[g] = t[g]
  BY <1>3, <1>4
<1>6. a \in Passed(i) /\ Passed(i) = Passed(i - 1) \cup {a}
  <2>1. 1 .. i = 1 .. (i - 1) \cup {i} /\ i \in 1 .. i
    BY <1>1
  <2> QED
    BY <2>1 DEF Passed
<1>7. \A f \in Frames, g \in Frames : MinTop(f, g, t[g]) \in Nat
  BY <1>2, MinTopIsNat
<1> HIDE DEF u, a
<1>8. ASSUME NEW f \in Frames
      PROVE  u[f] >= t[f] /\ u[f] \in Nat /\ t[f] \in Nat /\ from[f] \in Nat
  <2>1. MinTop(f, a, t[a]) \in Nat /\ t[f] \in Nat /\ from[f] \in Nat /\ u[f] \in Nat
    BY <1>1, <1>2, <1>3, <1>7
  <2>2. u[f] = t[f] \/ (u[f] = MinTop(f, a, t[a]) /\ t[f] < MinTop(f, a, t[a]))
    BY <1>3
  <2> QED
    BY <2>1, <2>2
<1>9. ASSUME NEW f \in Frames PROVE u[f] >= from[f]
  <2>1. t[f] >= from[f]
    BY DEF Settles
  <2> QED
    BY <2>1, <1>8
<1>10. ASSUME NEW f \in Frames, NEW g \in Passed(i), IsBelow(f, g)
       PROVE  u[f] >= MinTop(f, g, u[g])
  <2>1. MinTop(f, g, u[g]) = MinTop(f, g, t[g]) /\ MinTop(f, g, t[g]) \in Nat
    BY <1>5, <1>7
  <2>2. CASE g = a
    BY <2>1, <2>2, <1>3, <1>8, <1>10
  <2>3. CASE g \in Passed(i - 1)
    <3>1. t[f] >= MinTop(f, g, t[g])
      BY <2>3, <1>10 DEF Settles
    <3> QED
      BY <3>1, <2>1, <1>8
  <2> QED
    BY <1>6, <2>2, <2>3
<1>11. ASSUME NEW f \in Frames
       PROVE  \/ u[f] = from[f]
              \/ \E g \in Passed(i) : IsBelow(f, g) /\ u[f] = MinTop(f, g, u[g])
  <2>1. CASE IsBelow(f, a) /\ t[f] < MinTop(f, a, t[a])
    BY <2>1, <1>3, <1>5, <1>6
  <2>2. CASE ~ (IsBelow(f, a) /\ t[f] < MinTop(f, a, t[a]))
    <3>1. u[f] = t[f]
      BY <2>2, <1>3
    <3>2. \/ t[f] = from[f]
          \/ \E g \in Passed(i - 1) : IsBelow(f, g) /\ t[f] = MinTop(f, g, t[g])
      BY DEF Settles
    <3> QED
      BY <3>1, <3>2, <1>5, <1>6
  <2> QED
    BY <2>1, <2>2
<1>12. Settles(u, from, Passed(i))
  BY <1>3, <1>9, <1>10, <1>11 DEF Settles
<1> QED
  BY <1>12 DEF u, a

\* A whole pass: each department lies where it was before it, or as far down as one above
\* it forces it now.
LEMMA PassSettles ==
    ASSUME FramesStored, tops \in [Frames -> Nat]
    PROVE  Settles(shifted[Cardinality(Frames)], tops, Frames)
<1> DEFINE N == Cardinality(Frames)
           Fails == {i \in 0 .. N : ~ Settles(shifted[i], tops, Passed(i))}
<1>1. N \in Nat
  BY FitAssumption, FS_CardinalityType
<1>2. \A i \in 0 .. N : shifted[i] = IF i = 0 THEN tops
                                     ELSE ShiftBelow(shifted[i - 1], Ordered[i])
  BY ShiftedIs
<1>3. Fails = {}
  <2> SUFFICES ASSUME Fails # {} PROVE FALSE
    OBVIOUS
  <2>0. Fails \subseteq Nat
    BY <1>1
  <2>1. PICK i \in Fails : \A k \in Fails : i <= k
    <3> HIDE DEF Fails
    <3> QED
      BY <2>0, LeastNumber
  <2>2. CASE i = 0
    <3>1. shifted[0] = tops
      BY <1>1, <1>2
    <3>2. Passed(0) = {}
      BY DEF Passed
    <3>3. \A f \in Frames : tops[f] >= tops[f]
      OBVIOUS
    <3>4. Settles(tops, tops, {})
      BY <3>3 DEF Settles
    <3> QED
      BY <3>1, <3>2, <3>4, <2>2
  <2>3. CASE i # 0
    <3>1. i - 1 \in 0 .. N /\ ~ (i - 1 \in Fails) /\ i \in 1 .. N /\ i \in 0 .. N
      BY <1>1, <2>1, <2>3
    <3>2. Settles(shifted[i - 1], tops, Passed(i - 1))
      BY <3>1
    <3>3. Settles(ShiftBelow(shifted[i - 1], Ordered[i]), tops, Passed(i))
      BY <3>1, <3>2, OneMoreSettles
    <3>4. shifted[i] = ShiftBelow(shifted[i - 1], Ordered[i])
      BY <1>2, <3>1, <2>3
    <3> QED
      BY <3>3, <3>4
  <2> QED
    BY <2>2, <2>3
<1>4. Settles(shifted[N], tops, Passed(N))
  BY <1>1, <1>3
<1>5. Passed(N) = Frames
  BY OrderedSorts DEF Passed
<1> QED
  BY <1>4, <1>5

\* A second pass moves nothing.
LEMMA SecondPassRests ==
    ASSUME FramesStored, tops \in [Frames -> Nat],
           \A f, g \in Frames : IsBelow(f, g) => tops[f] >= MinTop(f, g, tops[g])
    PROVE  shifted[Cardinality(Frames)] = tops
<1> DEFINE N == Cardinality(Frames)
           Fails == {i \in 0 .. N : shifted[i] # tops}
<1>1. N \in Nat
  BY FitAssumption, FS_CardinalityType
<1>2. \A i \in 0 .. N : shifted[i] = IF i = 0 THEN tops
                                     ELSE ShiftBelow(shifted[i - 1], Ordered[i])
  BY ShiftedIs
<1>3. ASSUME NEW g \in Frames PROVE ShiftBelow(tops, g) = tops
  <2>1. \A f \in Frames : ShiftBelow(tops, g)[f] = tops[f]
    <3> TAKE f \in Frames
    <3>1. tops[f] \in Nat /\ MinTop(f, g, tops[g]) \in Nat
      BY MinTopIsNat
    <3> QED
      BY <3>1, ShiftIs
  <2>2. ShiftBelow(tops, g) \in [Frames -> Nat]
    BY ShiftIs
  <2> QED
    BY <2>1, <2>2
<1>4. Fails = {}
  <2> SUFFICES ASSUME Fails # {} PROVE FALSE
    OBVIOUS
  <2>0. Fails \subseteq Nat
    BY <1>1
  <2>1. PICK i \in Fails : \A k \in Fails : i <= k
    <3> HIDE DEF Fails
    <3> QED
      BY <2>0, LeastNumber
  <2>2. i # 0 /\ i \in 0 .. N
    BY <1>2
  <2>3. i - 1 \in 0 .. N /\ ~ (i - 1 \in Fails) /\ i \in 1 .. N
    BY <1>1, <2>1, <2>2
  <2>4. shifted[i - 1] = tops /\ Ordered[i] \in Frames
    BY <2>3, OrderedSorts
  <2>5. shifted[i] = ShiftBelow(tops, Ordered[i])
    BY <2>2, <2>4, <1>2
  <2> QED
    BY <2>4, <2>5, <1>3
<1> QED
  BY <1>1, <1>4

\* The loop

\* Before the first pass the departments lie where they are stored; after it they lie as
\* they should. The loop ends before it runs out of passes.
FitIInv ==
    /\ FitTypeOK
    /\ ~ settled => passes < Cardinality(Frames)
    /\ IF passes = 0 THEN tops = Tops0 /\ (settled => Frames = {})
                     ELSE Settles(tops, Tops0, Frames)

LEMMA FitStart == FitInit => FitIInv
<1> SUFFICES ASSUME FitInit PROVE FitIInv
  OBVIOUS
<1>1. FramesStored
  BY DEF FitInit, FramesStored
<1>2. Cardinality(Frames) \in Nat /\ (Cardinality(Frames) = 0 <=> Frames = {})
  BY FitAssumption, FS_CardinalityType, FS_EmptySet
<1>3. Tops0 \in [Frames -> Nat]
  BY <1>1, StoredSizes DEF Tops0
<1>4. tops = Tops0 /\ passes = 0 /\ settled = (Frames = {})
  BY DEF FitInit, Tops0
<1>5. settled \in BOOLEAN /\ (settled <=> Frames = {})
  BY <1>4
<1>6. ~ settled => 0 < Cardinality(Frames)
  BY <1>2, <1>5
<1>7. passes \in 0 .. Cardinality(Frames)
  BY <1>2, <1>4
<1> QED
  BY <1>1, <1>3, <1>4, <1>5, <1>6, <1>7 DEF FitIInv, FitTypeOK, FramesStored

LEMMA FitStep == FitIInv /\ [Pass]_fitVars => FitIInv'
<1> SUFFICES ASSUME FitIInv, [Pass]_fitVars PROVE FitIInv'
  OBVIOUS
<1> DEFINE N == Cardinality(Frames)
<1>1. CASE UNCHANGED fitVars
  BY <1>1 DEF fitVars, FitIInv, FitTypeOK, Tops0, Settles, IsBelow, StoredBottom, MinTop,
              HeightOf, Gap
<1>2. CASE Pass
  <2>1. FramesStored /\ tops \in [Frames -> Nat] /\ frames' = frames
    BY <1>2 DEF FitIInv, FitTypeOK, FramesStored, Pass
  <2>2. /\ passes' = passes + 1 /\ passes \in Nat /\ passes < N
        /\ settled' = (tops' = tops \/ passes' = N)
        /\ tops' = shifted[N]
    BY <1>2, FitAssumption, FS_CardinalityType DEF FitIInv, FitTypeOK, Pass
  <2>3. N \in Nat
    BY FitAssumption, FS_CardinalityType
  <2>4. Settles(tops', Tops0, Frames)
    <3>1. CASE passes = 0
      BY <3>1, <2>1, <2>2, PassSettles DEF FitIInv
    <3>2. CASE passes # 0
      <4>1. Settles(tops, Tops0, Frames)
        BY <3>2 DEF FitIInv
      <4>2. tops' = tops
        BY <4>1, <2>1, <2>2, SecondPassRests DEF Settles
      <4> QED
        BY <4>1, <4>2
    <3> QED
      BY <3>1, <3>2
  <2>5. Settles(tops, Tops0, Frames)'
    <3>1. /\ Tops0' = Tops0
          /\ \A f, g : IsBelow(f, g)' = IsBelow(f, g)
          /\ \A f, g : MinTop(f, g, tops'[g]) = MinTop(f, g, tops[g])'
      BY <2>1 DEF Tops0, IsBelow, StoredBottom, MinTop, HeightOf, Gap
    <3> QED
      BY <2>4, <3>1 DEF Settles
  <2>6. settled' \in BOOLEAN /\ (~ settled' => passes' # N)
    BY <2>2
  <2>7. passes' \in 0 .. N /\ passes' # 0 /\ (~ settled' => passes' < N)
    <3>1. passes + 1 \in 0 .. N /\ passes + 1 # 0
      BY <2>2, <2>3
    <3>2. passes' # N => passes' < N
      BY <2>2, <2>3
    <3> QED
      BY <3>1, <3>2, <2>2, <2>6
  <2>8. FitTypeOK'
    BY <2>1, <2>4, <2>6, <2>7 DEF FitTypeOK, FramesStored, Settles
  <2> QED
    BY <2>5, <2>7, <2>8 DEF FitIInv
<1> QED
  BY <1>1, <1>2 DEF Pass

LEMMA SettledIsExact ==
    ASSUME FramesStored, Settles(tops, Tops0, Frames)
    PROVE  /\ \A f \in Frames :
                tops[f] = Max({frames[f].y} \cup
                              {MinTop(f, g, tops[g]) : g \in {h \in Frames : IsBelow(f, h)}})
           /\ \A f, g \in Frames : frames[f].y <= frames[g].y => tops[f] <= tops[g]
<1>1. \A f \in Frames : tops[f] \in Nat /\ Tops0[f] = frames[f].y /\ frames[f].y \in Nat
  BY StoredSizes DEF Settles, Tops0
<1>2. ASSUME NEW f \in Frames
      PROVE  tops[f] = Max({frames[f].y} \cup
                           {MinTop(f, g, tops[g]) : g \in {h \in Frames : IsBelow(f, h)}})
  <2> DEFINE forced == {MinTop(f, g, tops[g]) : g \in {h \in Frames : IsBelow(f, h)}}
             places == {frames[f].y} \cup forced
  <2>1. \A n \in forced : n \in Nat /\ n <= tops[f]
    BY <1>1, MinTopIsNat DEF Settles
  <2>2. tops[f] >= frames[f].y
    BY <1>1 DEF Settles
  <2>3. tops[f] \in places
    BY <1>1 DEF Settles
  <2>4. places \subseteq Int /\ \A n \in places : n <= tops[f]
    <3> HIDE DEF forced
    <3> QED
      BY <1>1, <2>1, <2>2
  <2> HIDE DEF places
  <2>5. Max(places) = tops[f]
    BY <2>3, <2>4, MaxIs
  <2> QED
    BY <2>5 DEF places
<1>3. ASSUME NEW f \in Frames, NEW g \in Frames, frames[f].y <= frames[g].y
      PROVE  tops[f] <= tops[g]
  <2>1. tops[g] >= frames[g].y
    BY <1>1 DEF Settles
  <2>2. CASE tops[f] = frames[f].y
    BY <1>1, <1>3, <2>1, <2>2
  <2>3. CASE tops[f] # frames[f].y
    <3>1. PICK a \in Frames : IsBelow(f, a) /\ tops[f] = MinTop(f, a, tops[a])
      BY <1>1, <2>3 DEF Settles
    <3>2. /\ frames[f].y \in Nat /\ frames[g].y \in Nat /\ StoredBottom(a) \in Nat
          /\ StoredBottom(a) > frames[a].y + 1 /\ frames[a].y \in Nat
          /\ HeightOf(a) \in Nat /\ tops[a] \in Nat /\ tops[g] \in Nat
      BY <1>1, StoredSizes
    <3>3. frames[f].y + 1 >= StoredBottom(a)
      BY <3>1 DEF IsBelow
    <3>4. frames[g].y + 1 >= StoredBottom(a)
      BY <1>3, <3>2, <3>3
    <3>5. g # a
      BY <3>2, <3>4
    <3>6. IsBelow(g, a)
      BY <3>4, <3>5 DEF IsBelow
    <3>7. tops[g] >= MinTop(g, a, tops[a])
      BY <3>6 DEF Settles
    <3>8. Gap(f, a) <= Gap(g, a) /\ Gap(f, a) \in Nat /\ Gap(g, a) \in Nat
      BY <1>3, <3>2, GapIs
    <3> QED
      BY <3>1, <3>2, <3>7, <3>8 DEF MinTop
  <2> QED
    BY <2>2, <2>3
<1> QED
  BY <1>2, <1>3

LEMMA FitIInvIsExact == FitIInv => FitIsExact
<1> SUFFICES ASSUME FitIInv PROVE FitIsExact
  OBVIOUS
<1>1. FramesStored
  BY DEF FitIInv, FitTypeOK, FramesStored
<1>2. CASE passes = 0
  BY <1>2 DEF FitIInv, FitIsExact
<1>3. CASE passes # 0
  BY <1>1, <1>3, SettledIsExact DEF FitIInv, FitIsExact
<1> QED
  BY <1>2, <1>3

\* Departments that grow end where they should, whatever their number, places and heights,
\* and within the passes the loop is given (home-layout.ts:191).
THEOREM FitEndsExact == FitSpec => []FitIsExact
<1>1. FitSpec => []FitIInv
  BY FitStart, FitStep, PTL DEF FitSpec
<1> QED
  BY <1>1, FitIInvIsExact, PTL

\* The boxes keep their types, and the loop its bound (home-layout.ts:191).
THEOREM FitTypesStay == FitSpec => []FitTypeOK
<1>1. FitSpec => []FitIInv
  BY FitStart, FitStep, PTL DEF FitSpec
<1>2. FitIInv => FitTypeOK
  BY DEF FitIInv
<1> QED
  BY <1>1, <1>2, PTL

--------------------------------------------------------------------------------
\* The apps of the desktop: sequences of keys

LEMMA RangeIs ==
    ASSUME NEW S, NEW s \in Seq(S)
    PROVE  /\ DOMAIN s = 1 .. Len(s) /\ Len(s) \in Nat
           /\ \A x : x \in Range(s) <=> \E i \in 1 .. Len(s) : s[i] = x
           /\ Range(s) \subseteq S
           /\ IsInjective(s) <=> \A i, j \in 1 .. Len(s) : s[i] = s[j] => i = j
BY LenProperties DEF Range, IsInjective

LEMMA AppendKeeps ==
    ASSUME NEW S, NEW s \in Seq(S), NEW e \in S
    PROVE  /\ Append(s, e) \in Seq(S)
           /\ Range(Append(s, e)) = Range(s) \cup {e}
           /\ IsInjective(s) /\ e \notin Range(s) => IsInjective(Append(s, e))
<1> DEFINE t == Append(s, e)
<1>1. /\ t \in Seq(S) /\ Len(t) = Len(s) + 1 /\ Len(s) \in Nat
      /\ \A i \in 1 .. Len(s) : t[i] = s[i]
      /\ t[Len(s) + 1] = e
  BY AppendProperties, LenProperties
<1> HIDE DEF t
<1>2. \A i \in 1 .. Len(t) : i \in 1 .. Len(s) \/ i = Len(s) + 1
  BY <1>1
<1>3. 1 .. Len(s) \subseteq 1 .. Len(t) /\ Len(t) \in 1 .. Len(t)
  BY <1>1
<1>4. Range(t) = Range(s) \cup {e}
  <2>1. \A x : x \in Range(t) <=> x \in Range(s) \/ x = e
    BY <1>1, <1>2, <1>3, RangeIs
  <2> QED
    BY <2>1
<1>5. ASSUME IsInjective(s), e \notin Range(s) PROVE IsInjective(t)
  <2>1. ASSUME NEW i \in 1 .. Len(t), NEW j \in 1 .. Len(t), t[i] = t[j] PROVE i = j
    <3>1. \A k \in 1 .. Len(s) : t[k] # e
      BY <1>1, <1>5, RangeIs
    <3> QED
      BY <1>1, <1>2, <1>5, <2>1, <3>1, RangeIs
  <2> QED
    BY <2>1, <1>1, RangeIs
<1> QED
  BY <1>1, <1>4, <1>5 DEF t

--------------------------------------------------------------------------------
\* Filtering

\* The filter is what its equation says.
LEMMA FilteredIs ==
    ASSUME NEW keys, Len(keys) \in Nat, NEW apps
    PROVE  \E sieved : /\ sieved = [n \in 0 .. Len(keys) |->
                                  IF n = 0 THEN <<>>
                                  ELSE IF keys[n] \in apps THEN Append(sieved[n - 1], keys[n])
                                                           ELSE sieved[n - 1]]
                     /\ Filtered(keys, apps) = sieved[Len(keys)]
<1> DEFINE Keeps(p, n) == p = [i \in 0 .. n |->
                                 IF i = 0 THEN <<>>
                                 ELSE IF keys[i] \in apps THEN Append(p[i - 1], keys[i])
                                                          ELSE p[i - 1]]
           Fails == {n \in Nat : ~ \E p : Keeps(p, n)}
<1>1. Fails = {}
  <2> SUFFICES ASSUME Fails # {} PROVE FALSE
    OBVIOUS
  <2>1. PICK n \in Fails : \A k \in Fails : n <= k
    BY LeastNumber
  <2>2. CASE n = 0
    <3> DEFINE p == [i \in 0 .. 0 |-> <<>>]
    <3>1. Keeps(p, 0)
      OBVIOUS
    <3> QED
      BY <3>1, <2>1, <2>2
  <2>3. CASE n # 0
    <3>0. n \in Nat
      OBVIOUS
    <3>1. n - 1 \in Nat /\ ~ (n - 1 \in Fails) /\ n \in Nat
      <4> HIDE DEF Fails
      <4> QED
        BY <2>1, <2>3, <3>0
    <3>2. PICK p : Keeps(p, n - 1)
      BY <3>1
    <3> DEFINE last == IF keys[n] \in apps THEN Append(p[n - 1], keys[n]) ELSE p[n - 1]
               q == [i \in 0 .. n |-> IF i = n THEN last ELSE p[i]]
    <3>3. ASSUME NEW i \in 0 .. n
          PROVE  q[i] = IF i = 0 THEN <<>>
                        ELSE IF keys[i] \in apps THEN Append(q[i - 1], keys[i]) ELSE q[i - 1]
      <4>1. CASE i = n
        <5>1. i - 1 \in 0 .. n /\ i - 1 # n /\ i # 0
          BY <3>1, <4>1, <2>3
        <5>2. q[i - 1] = p[n - 1]
          BY <5>1, <4>1
        <5>3. q[i] = last
          BY <4>1
        <5> HIDE DEF q
        <5> QED
          BY <5>1, <5>2, <5>3, <4>1
      <4>2. CASE i # n
        <5>1. i \in 0 .. (n - 1) /\ (i # 0 => i - 1 \in 0 .. n /\ i - 1 # n)
          BY <3>1, <4>2
        <5>2. q[i] = p[i] /\ (i # 0 => q[i - 1] = p[i - 1])
          BY <5>1, <4>2
        <5>3. p[i] = IF i = 0 THEN <<>>
                     ELSE IF keys[i] \in apps THEN Append(p[i - 1], keys[i]) ELSE p[i - 1]
          BY <5>1, <3>2
        <5> HIDE DEF q
        <5> QED
          BY <5>2, <5>3
      <4> QED
        BY <4>1, <4>2
    <3>4. q = [i \in 0 .. n |-> q[i]]
      OBVIOUS
    <3>5. Keeps(q, n)
      <4> HIDE DEF q
      <4> QED
        BY <3>3, <3>4
    <3> HIDE DEF q
    <3> QED
      BY <3>5, <2>1
  <2> QED
    BY <2>2, <2>3
<1>2. \E p : Keeps(p, Len(keys))
  BY <1>1
<1> QED
  BY <1>2 DEF Filtered

\* What the first n keys give.
Filters(sieved, keys, apps, n) ==
    /\ sieved \in Seq(Range(keys))
    /\ \A x : x \in Range(sieved) <=> x \in apps /\ \E i \in 1 .. n : keys[i] = x
    /\ IsInjective(keys) => IsInjective(sieved)
    /\ (\A i \in 1 .. n : keys[i] \in apps) =>
         Len(sieved) = n /\ \A i \in 1 .. n : sieved[i] = keys[i]

LEMMA FilteredFilters ==
    ASSUME NEW S, NEW keys \in Seq(S), NEW apps
    PROVE  Filters(Filtered(keys, apps), keys, apps, Len(keys))
<1>1. Len(keys) \in Nat
  BY LenProperties
<1>2. PICK sieved :
        /\ sieved = [n \in 0 .. Len(keys) |->
                     IF n = 0 THEN <<>>
                     ELSE IF keys[n] \in apps THEN Append(sieved[n - 1], keys[n])
                                              ELSE sieved[n - 1]]
        /\ Filtered(keys, apps) = sieved[Len(keys)]
  BY <1>1, FilteredIs
<1>3. \A n \in 0 .. Len(keys) :
        sieved[n] = IF n = 0 THEN <<>>
                  ELSE IF keys[n] \in apps THEN Append(sieved[n - 1], keys[n]) ELSE sieved[n - 1]
  BY <1>2
<1> DEFINE Fails == {n \in 0 .. Len(keys) : ~ Filters(sieved[n], keys, apps, n)}
<1>4. Fails = {}
  <2> SUFFICES ASSUME Fails # {} PROVE FALSE
    OBVIOUS
  <2>1. Fails \subseteq Nat
    BY <1>1
  <2>2. PICK n \in Fails : \A k \in Fails : n <= k
    <3> HIDE DEF Fails
    <3> QED
      BY <2>1, LeastNumber
  <2>3. CASE n = 0
    <3>1. sieved[0] = <<>>
      BY <1>1, <1>3
    <3>2. Range(<<>>) = {} /\ IsInjective(<<>>) /\ <<>> \in Seq(Range(keys)) /\ Len(<<>>) = 0
      BY EmptySeq DEF Range, IsInjective
    <3>3. Filters(<<>>, keys, apps, 0)
      BY <3>2 DEF Filters
    <3> QED
      BY <3>1, <3>3, <2>2, <2>3
  <2>4. CASE n # 0
    <3>1. /\ n \in 1 .. Len(keys) /\ n - 1 \in 0 .. Len(keys) /\ ~ (n - 1 \in Fails)
          /\ 1 .. n = (1 .. (n - 1)) \cup {n} /\ n \notin 1 .. (n - 1) /\ n \in Nat
      BY <1>1, <2>2, <2>4
    <3> DEFINE before == sieved[n - 1]
    <3>2. Filters(before, keys, apps, n - 1)
      BY <3>1
    <3>3. keys[n] \in Range(keys)
      BY <3>1, RangeIs
    <3>4. sieved[n] = IF keys[n] \in apps THEN Append(before, keys[n]) ELSE before
      BY <1>3, <3>1
    <3> HIDE DEF before
    <3>5. CASE keys[n] \in apps
      <4> DEFINE after == Append(before, keys[n])
      <4>1. /\ after \in Seq(Range(keys))
            /\ Range(after) = Range(before) \cup {keys[n]}
            /\ IsInjective(before) /\ keys[n] \notin Range(before) => IsInjective(after)
            /\ Len(after) = Len(before) + 1
            /\ \A i \in 1 .. Len(before) : after[i] = before[i]
            /\ after[Len(before) + 1] = keys[n]
        BY <3>2, <3>3, AppendKeeps, AppendProperties DEF Filters
      <4> HIDE DEF after
      <4>2. \A x : x \in Range(after) <=> x \in apps /\ \E i \in 1 .. n : keys[i] = x
        BY <4>1, <3>1, <3>2, <3>5 DEF Filters
      <4>3. ASSUME IsInjective(keys) PROVE IsInjective(after)
        <5>1. \A i \in 1 .. (n - 1) : keys[i] # keys[n]
          BY <3>1, <4>3, RangeIs
        <5>2. keys[n] \notin Range(before)
          BY <5>1, <3>2 DEF Filters
        <5> QED
          BY <5>2, <4>1, <4>3, <3>2 DEF Filters
      <4>4. ASSUME \A i \in 1 .. n : keys[i] \in apps
            PROVE  Len(after) = n /\ \A i \in 1 .. n : after[i] = keys[i]
        <5>1. Len(before) = n - 1 /\ \A i \in 1 .. (n - 1) : before[i] = keys[i]
          BY <4>4, <3>1, <3>2 DEF Filters
        <5> QED
          BY <5>1, <4>1, <3>1
      <4>5. Filters(after, keys, apps, n)
        BY <4>1, <4>2, <4>3, <4>4 DEF Filters
      <4> QED
        BY <4>5, <3>4, <3>5, <2>2 DEF after
    <3>6. CASE keys[n] \notin apps
      <4>1. Filters(before, keys, apps, n)
        BY <3>1, <3>2, <3>6 DEF Filters
      <4> QED
        BY <4>1, <3>4, <3>6, <2>2
    <3> QED
      BY <3>5, <3>6
  <2> QED
    BY <2>3, <2>4
<1>5. Filters(sieved[Len(keys)], keys, apps, Len(keys))
  <2>1. Len(keys) \in 0 .. Len(keys) /\ ~ (Len(keys) \in Fails)
    BY <1>1, <1>4
  <2> QED
    BY <2>1
<1> QED
  BY <1>2, <1>5

LEMMA FilteredKeeps ==
    ASSUME NEW S, NEW keys \in Seq(S), NEW apps
    PROVE  /\ Filtered(keys, apps) \in Seq(S)
           /\ Range(Filtered(keys, apps)) = Range(keys) \cap apps
           /\ IsInjective(keys) => IsInjective(Filtered(keys, apps))
           /\ Range(keys) \subseteq apps => Filtered(keys, apps) = keys
<1> DEFINE sieved == Filtered(keys, apps)
<1>1. Filters(sieved, keys, apps, Len(keys))
  BY FilteredFilters
<1> HIDE DEF sieved
<1>2. \A x : x \in Range(keys) <=> \E i \in 1 .. Len(keys) : keys[i] = x
  BY RangeIs
<1>3. sieved \in Seq(S)
  <2>1. sieved \in Seq(Range(keys)) /\ Range(keys) \subseteq S
    BY <1>1, RangeIs DEF Filters
  <2> QED
    BY <2>1, SeqMonotonic
<1>4. Range(sieved) = Range(keys) \cap apps
  BY <1>1, <1>2 DEF Filters
<1>5. IsInjective(keys) => IsInjective(sieved)
  BY <1>1 DEF Filters
<1>6. ASSUME Range(keys) \subseteq apps PROVE sieved = keys
  <2>1. Len(sieved) = Len(keys) /\ \A i \in 1 .. Len(keys) : sieved[i] = keys[i]
    BY <1>1, <1>2, <1>6 DEF Filters
  <2> QED
    BY <2>1, <1>3, SeqEqual
<1> QED
  BY <1>3, <1>4, <1>5, <1>6 DEF sieved

--------------------------------------------------------------------------------
\* Moving

\* t is s, with e put in at p.
IsWith(t, s, p, e, S) ==
    /\ t \in Seq(S) /\ Len(t) = Len(s) + 1
    /\ \A k \in 1 .. Len(s) + 1 :
         t[k] = IF k < p THEN s[k] ELSE IF k = p THEN e ELSE s[k - 1]

LEMMA InsertAtIs ==
    ASSUME NEW S, NEW s \in Seq(S), NEW p \in 1 .. Len(s) + 1, NEW e \in S
    PROVE  IsWith(InsertAt(s, p, e), s, p, e, S)
<1>1. Len(s) \in Nat /\ \A i \in 1 .. Len(s) : s[i] \in S
  BY LenProperties, ElementOfSeq
<1> DEFINE head == SubSeq(s, 1, p - 1)
           tail == SubSeq(s, p, Len(s))
           first == head \o <<e>>
<1>2. /\ head \in Seq(S) /\ Len(head) = p - 1
      /\ \A k \in 1 .. (p - 1) : head[k] = s[k]
  BY <1>1, SubSeqProperties
<1>3. /\ tail \in Seq(S) /\ Len(tail) = Len(s) - p + 1
      /\ \A k \in 1 .. Len(s) - p + 1 : tail[k] = s[p + k - 1]
  BY <1>1, SubSeqProperties
<1>4. InsertAt(s, p, e) = first \o tail
  BY DEF InsertAt
<1> HIDE DEF head, tail
<1>5. <<e>> \in Seq(S) /\ Len(<<e>>) = 1 /\ <<e>>[1] = e
  OBVIOUS
<1>6. /\ first \in Seq(S) /\ Len(first) = p
      /\ \A k \in 1 .. p : first[k] = IF k < p THEN s[k] ELSE e
  <2>0. /\ first \in Seq(S) /\ Len(first) = Len(head) + Len(<<e>>)
        /\ \A k \in 1 .. Len(head) + Len(<<e>>) : first[k] = IF k <= Len(head) THEN head[k]
                                                 ELSE <<e>>[k - Len(head)]
    <3> DEFINE one == <<e>>
    <3>1. one \in Seq(S) /\ head \in Seq(S)
      BY <1>2, <1>5
    <3> HIDE DEF one
    <3>2. /\ head \o one \in Seq(S) /\ Len(head \o one) = Len(head) + Len(one)
          /\ \A k \in 1 .. Len(head) + Len(one) : (head \o one)[k] =
               IF k <= Len(head) THEN head[k] ELSE one[k - Len(head)]
      BY <3>1, ConcatProperties
    <3> QED
      BY <3>2 DEF one
  <2>1. /\ first \in Seq(S) /\ Len(first) = p - 1 + 1
        /\ \A k \in 1 .. p - 1 + 1 : first[k] = IF k <= p - 1 THEN head[k]
                                                 ELSE <<e>>[k - (p - 1)]
    BY <1>2, <1>5, <2>0
  <2> HIDE DEF first
  <2>2. p - 1 + 1 = p /\ \A k \in 1 .. p : (k <= p - 1 <=> k < p) /\ (k < p => k \in 1 .. (p - 1))
                                         /\ (~ k < p => k - (p - 1) = 1)
    BY <1>1
  <2> QED
    BY <1>2, <1>5, <2>1, <2>2
<1> HIDE DEF first
<1>7. /\ first \o tail \in Seq(S) /\ Len(first \o tail) = p + (Len(s) - p + 1)
      /\ \A k \in 1 .. p + (Len(s) - p + 1) :
           (first \o tail)[k] = IF k <= p THEN first[k] ELSE tail[k - p]
  BY <1>3, <1>6, ConcatProperties
<1>8. p + (Len(s) - p + 1) = Len(s) + 1
  BY <1>1
<1>9. ASSUME NEW k \in 1 .. Len(s) + 1
      PROVE  (first \o tail)[k] = IF k < p THEN s[k] ELSE IF k = p THEN e ELSE s[k - 1]
  <2>1. (first \o tail)[k] = IF k <= p THEN first[k] ELSE tail[k - p]
    BY <1>7, <1>8
  <2>2. k <= p => k \in 1 .. p
    BY <1>1
  <2>3. ~ k <= p => /\ k - p \in 1 .. Len(s) - p + 1 /\ p + (k - p) - 1 = k - 1
                    /\ ~ k < p /\ k # p
    BY <1>1
  <2> QED
    BY <1>3, <1>6, <2>1, <2>2, <2>3
<1> QED
  BY <1>4, <1>7, <1>8, <1>9 DEF IsWith

LEMMA RemoveAtIs ==
    ASSUME NEW S, NEW s \in Seq(S), NEW p \in 1 .. Len(s)
    PROVE  /\ RemoveAt(s, p) \in Seq(S)
           /\ Len(RemoveAt(s, p)) = Len(s) - 1
           /\ \A k \in 1 .. Len(s) - 1 : RemoveAt(s, p)[k] = IF k < p THEN s[k] ELSE s[k + 1]
<1>1. Len(s) \in Nat /\ \A i \in 1 .. Len(s) : s[i] \in S
  BY LenProperties, ElementOfSeq
<1> DEFINE head == SubSeq(s, 1, p - 1)
           tail == SubSeq(s, p + 1, Len(s))
<1>2. /\ head \in Seq(S) /\ Len(head) = p - 1
      /\ \A k \in 1 .. (p - 1) : head[k] = s[k]
  BY SMTT(30), <1>1, SubSeqProperties
<1>3. /\ tail \in Seq(S) /\ Len(tail) = Len(s) - p
      /\ \A k \in 1 .. Len(s) - p : tail[k] = s[p + k]
  <2>1. /\ tail \in Seq(S) /\ Len(tail) = IF p + 1 <= Len(s) THEN Len(s) - (p + 1) + 1 ELSE 0
        /\ \A k \in 1 .. Len(s) - (p + 1) + 1 : tail[k] = s[p + 1 + k - 1]
    BY <1>1, SubSeqProperties
  <2>2. Len(s) - (p + 1) + 1 = Len(s) - p /\ (~ p + 1 <= Len(s) => Len(s) - p = 0)
        /\ \A k \in 1 .. Len(s) - p : p + 1 + k - 1 = p + k
    BY <1>1
  <2> HIDE DEF tail
  <2> QED
    BY <2>1, <2>2
<1>4. RemoveAt(s, p) = head \o tail
  BY DEF RemoveAt
<1> HIDE DEF head, tail
<1>7. /\ head \o tail \in Seq(S) /\ Len(head \o tail) = (p - 1) + (Len(s) - p)
      /\ \A k \in 1 .. (p - 1) + (Len(s) - p) :
           (head \o tail)[k] = IF k <= p - 1 THEN head[k] ELSE tail[k - (p - 1)]
  <2>1. /\ head \o tail \in Seq(S) /\ Len(head \o tail) = Len(head) + Len(tail)
        /\ \A k \in 1 .. Len(head) + Len(tail) :
             (head \o tail)[k] = IF k <= Len(head) THEN head[k] ELSE tail[k - Len(head)]
    BY <1>2, <1>3, ConcatProperties
  <2> QED
    BY <1>2, <1>3, <2>1
<1>8. (p - 1) + (Len(s) - p) = Len(s) - 1
  BY <1>1
<1>9. ASSUME NEW k \in 1 .. Len(s) - 1
      PROVE  (head \o tail)[k] = IF k < p THEN s[k] ELSE s[k + 1]
  <2>1. (head \o tail)[k] = IF k <= p - 1 THEN head[k] ELSE tail[k - (p - 1)]
    BY <1>7, <1>8
  <2>2. (k <= p - 1 <=> k < p) /\ (k < p => k \in 1 .. (p - 1))
    BY <1>1
  <2>3. ~ k < p => k - (p - 1) \in 1 .. Len(s) - p /\ p + (k - (p - 1)) = k + 1
    BY <1>1
  <2> QED
    BY <1>2, <1>3, <2>1, <2>2, <2>3
<1> QED
  BY <1>4, <1>7, <1>8, <1>9

\* The key at one position goes to another.
Moved(keys, i, p) == InsertAt(RemoveAt(keys, i), p, keys[i])

\* Where the key at position k goes, and where that at position k was.
GoesTo(k, i, p) == LET r == IF k < i THEN k ELSE k - 1
                   IN  IF k = i THEN p ELSE IF r < p THEN r ELSE r + 1
ComesFrom(k, i, p) == LET r == IF k < p THEN k ELSE k - 1
                      IN  IF k = p THEN i ELSE IF r < i THEN r ELSE r + 1

LEMMA Positions ==
    ASSUME NEW n \in Nat, NEW i \in 1 .. n, NEW p \in 1 .. n
    PROVE  /\ \A k \in 1 .. n : /\ GoesTo(k, i, p) \in 1 .. n
                                /\ ComesFrom(k, i, p) \in 1 .. n
                                /\ ComesFrom(GoesTo(k, i, p), i, p) = k
                                /\ GoesTo(ComesFrom(k, i, p), i, p) = k
           /\ \A k, l \in (1 .. n) \ {i} : k < l <=> GoesTo(k, i, p) < GoesTo(l, i, p)
           /\ GoesTo(i, i, p) = p
<1>1. ASSUME NEW k \in 1 .. n
      PROVE  GoesTo(k, i, p) \in 1 .. n /\ ComesFrom(k, i, p) \in 1 .. n
  BY DEF GoesTo, ComesFrom
<1>2. ASSUME NEW k \in 1 .. n PROVE ComesFrom(GoesTo(k, i, p), i, p) = k
  BY DEF GoesTo, ComesFrom
<1>3. ASSUME NEW k \in 1 .. n PROVE GoesTo(ComesFrom(k, i, p), i, p) = k
  BY DEF GoesTo, ComesFrom
<1>4. ASSUME NEW k \in (1 .. n) \ {i}, NEW l \in (1 .. n) \ {i}
      PROVE  k < l <=> GoesTo(k, i, p) < GoesTo(l, i, p)
  BY DEF GoesTo
<1>5. GoesTo(i, i, p) = p
  BY DEF GoesTo
<1> QED
  BY <1>1, <1>2, <1>3, <1>4, <1>5

LEMMA MovedIs ==
    ASSUME NEW S, NEW keys \in Seq(S), IsInjective(keys),
           NEW i \in 1 .. Len(keys), NEW p \in 1 .. Len(keys)
    PROVE  /\ Moved(keys, i, p) \in Seq(S) /\ Len(Moved(keys, i, p)) = Len(keys)
           /\ IsInjective(Moved(keys, i, p)) /\ Range(Moved(keys, i, p)) = Range(keys)
           /\ \A k \in 1 .. Len(keys) : Moved(keys, i, p)[GoesTo(k, i, p)] = keys[k]
<1> DEFINE n == Len(keys)
           rest == RemoveAt(keys, i)
           m == Moved(keys, i, p)
<1>1. n \in Nat /\ keys[i] \in S
  BY LenProperties, ElementOfSeq
<1>2. /\ rest \in Seq(S) /\ Len(rest) = n - 1
      /\ \A k \in 1 .. n - 1 : rest[k] = IF k < i THEN keys[k] ELSE keys[k + 1]
  BY RemoveAtIs
<1>3. m = InsertAt(rest, p, keys[i])
  BY DEF Moved
<1> HIDE DEF rest, m
<1>4. /\ m \in Seq(S) /\ Len(m) = n
      /\ \A k \in 1 .. n : m[k] = IF k < p THEN rest[k] ELSE IF k = p THEN keys[i] ELSE rest[k - 1]
  <2>1. p \in 1 .. Len(rest) + 1 /\ Len(rest) + 1 = n
    BY <1>1, <1>2
  <2>2. keys[i] \in S /\ rest \in Seq(S)
    BY <1>1, <1>2
  <2>3. IsWith(InsertAt(rest, p, keys[i]), rest, p, keys[i], S)
    BY <2>1, <2>2, InsertAtIs
  <2>4. IsWith(m, rest, p, keys[i], S)
    BY <1>3, <2>3
  <2> QED
    BY <2>1, <2>4 DEF IsWith
<1>5. ASSUME NEW k \in 1 .. n PROVE m[k] = keys[ComesFrom(k, i, p)]
  <2>1. k < p => k \in 1 .. n - 1
    BY <1>1
  <2>2. ~ k < p /\ k # p => k - 1 \in 1 .. n - 1
    BY <1>1
  <2> QED
    BY <1>2, <1>4, <2>1, <2>2 DEF ComesFrom
<1>6. \A k \in 1 .. n : m[GoesTo(k, i, p)] = keys[k]
  <2> TAKE k \in 1 .. n
  <2>1. GoesTo(k, i, p) \in 1 .. n /\ ComesFrom(GoesTo(k, i, p), i, p) = k
    BY <1>1, Positions
  <2>2. m[GoesTo(k, i, p)] = keys[ComesFrom(GoesTo(k, i, p), i, p)]
    BY <2>1, <1>5
  <2> QED
    BY <2>1, <2>2
<1>7. IsInjective(m)
  <2>1. ASSUME NEW k \in 1 .. n, NEW l \in 1 .. n, m[k] = m[l] PROVE k = l
    <3>1. keys[ComesFrom(k, i, p)] = keys[ComesFrom(l, i, p)]
      BY <1>5, <2>1
    <3>2. ComesFrom(k, i, p) = ComesFrom(l, i, p)
      <4>1. ComesFrom(k, i, p) \in 1 .. n /\ ComesFrom(l, i, p) \in 1 .. n
        BY <1>1, Positions
      <4> QED
        BY <3>1, <4>1, RangeIs
    <3> QED
      BY <3>2, <1>1, Positions
  <2> QED
    BY <2>1, <1>4, RangeIs
<1>8. Range(m) = Range(keys)
  <2>1. \A x : x \in Range(m) <=> \E k \in 1 .. n : m[k] = x
    BY <1>4, RangeIs
  <2>2. \A x : x \in Range(keys) <=> \E k \in 1 .. n : keys[k] = x
    BY RangeIs
  <2>3. \A k \in 1 .. n : ComesFrom(k, i, p) \in 1 .. n /\ GoesTo(k, i, p) \in 1 .. n
    BY <1>1, Positions
  <2>4. \A x : x \in Range(m) <=> x \in Range(keys)
    BY <1>5, <1>6, <2>1, <2>2, <2>3
  <2> QED
    BY <2>4
<1> QED
  BY <1>4, <1>6, <1>7, <1>8 DEF m

\* In keys that are named once each, a key is found where it is.
LEMMA IndexIs ==
    ASSUME NEW S, NEW keys \in Seq(S), IsInjective(keys), NEW i \in 1 .. Len(keys)
    PROVE  IndexOf(keys, keys[i]) = i
<1> DEFINE I == {k \in 1 .. Len(keys) : keys[k] = keys[i]}
<1>1. I = {i}
  BY RangeIs
<1>2. IndexOf(keys, keys[i]) = IF I # {} THEN Min(I) ELSE 0
  BY DEF IndexOf, SelectInSeq
<1>3. Len(keys) \in Nat /\ Min({i}) = i
  BY LenProperties DEF Min
<1> QED
  BY <1>1, <1>2, <1>3

--------------------------------------------------------------------------------
\* What is shown

LEMMA AppsAre ==
    /\ ContainerNames \o LinkKeys \in Seq(Apps)
    /\ Apps = Range(ContainerNames) \cup Range(LinkKeys)
    /\ Range(ContainerNames) \cap Range(LinkKeys) = {}
<1> DEFINE S == Range(ContainerNames) \cup Range(LinkKeys)
           all == ContainerNames \o LinkKeys
<1>1. ContainerNames \in Seq(S) /\ LinkKeys \in Seq(S)
  BY HomeAppsAssumption, SeqMonotonic
<1> HIDE DEF S
<1>2. /\ all \in Seq(S) /\ Range(all) = Range(ContainerNames) \cup Range(LinkKeys)
      /\ Len(all) = Len(ContainerNames) + Len(LinkKeys)
      /\ \A i \in 1 .. Len(ContainerNames) + Len(LinkKeys) : all[i] =
           IF i <= Len(ContainerNames) THEN ContainerNames[i]
           ELSE LinkKeys[i - Len(ContainerNames)]
  BY <1>1, ConcatProperties, RangeConcatenation
<1>3. all \in Seq(Apps)
  BY <1>2, SeqOfRange DEF Apps
<1>4. ASSUME NEW x \in Range(ContainerNames), x \in Range(LinkKeys) PROVE FALSE
  <2>1. Len(ContainerNames) \in Nat /\ Len(LinkKeys) \in Nat
    BY <1>1, LenProperties
  <2>2. PICK i \in 1 .. Len(ContainerNames) : ContainerNames[i] = x
    BY <1>1, RangeIs
  <2>3. PICK j \in 1 .. Len(LinkKeys) : LinkKeys[j] = x
    BY <1>1, <1>4, RangeIs
  <2>4. /\ i \in 1 .. Len(ContainerNames) + Len(LinkKeys) /\ i <= Len(ContainerNames)
        /\ j + Len(ContainerNames) \in 1 .. Len(ContainerNames) + Len(LinkKeys)
        /\ ~ j + Len(ContainerNames) <= Len(ContainerNames)
        /\ j + Len(ContainerNames) - Len(ContainerNames) = j
    BY <2>1
  <2>5. all[i] = x /\ all[j + Len(ContainerNames)] = x
    BY <1>2, <2>2, <2>3, <2>4
  <2>6. IsInjective(all)
    BY HomeAppsAssumption
  <2> HIDE DEF all
  <2>7. i = j + Len(ContainerNames)
    <3>1. \A k, l \in 1 .. Len(all) : all[k] = all[l] => k = l
      BY <1>2, <2>6, RangeIs
    <3>2. i \in 1 .. Len(all) /\ j + Len(ContainerNames) \in 1 .. Len(all)
      BY <1>2, <2>4
    <3> QED
      BY <2>5, <3>1, <3>2
  <2> QED
    BY <2>1, <2>4, <2>7
<1> QED
  BY <1>2, <1>3, <1>4 DEF Apps

LEMMA ConcatInjective ==
    ASSUME NEW S, NEW s \in Seq(S), NEW t \in Seq(S),
           IsInjective(s), IsInjective(t), Range(s) \cap Range(t) = {}
    PROVE  IsInjective(s \o t)
<1> DEFINE u == s \o t
<1>1. /\ u \in Seq(S) /\ Len(u) = Len(s) + Len(t)
      /\ \A i \in 1 .. Len(s) + Len(t) : u[i] = IF i <= Len(s) THEN s[i] ELSE t[i - Len(s)]
      /\ Len(s) \in Nat /\ Len(t) \in Nat
  BY ConcatProperties, LenProperties
<1> HIDE DEF u
<1>2. ASSUME NEW i \in 1 .. Len(u), NEW j \in 1 .. Len(u), u[i] = u[j] PROVE i = j
  <2>1. \A k \in 1 .. Len(u) : \/ k <= Len(s) /\ k \in 1 .. Len(s) /\ u[k] = s[k]
                               \/ /\ k > Len(s) /\ k - Len(s) \in 1 .. Len(t)
                                  /\ u[k] = t[k - Len(s)]
    BY <1>1
  <2>2. \A k \in 1 .. Len(s), l \in 1 .. Len(t) : s[k] # t[l]
    BY RangeIs
  <2>3. /\ \A k, l \in 1 .. Len(s) : s[k] = s[l] => k = l
        /\ \A k, l \in 1 .. Len(t) : t[k] = t[l] => k = l
    BY RangeIs
  <2>4. CASE i <= Len(s) /\ j <= Len(s)
    <3>1. /\ i \in 1 .. Len(s) /\ j \in 1 .. Len(s)
          /\ u[i] = s[i] /\ u[j] = s[j]
      <4>1. i \in 1 .. Len(s) /\ j \in 1 .. Len(s)
        BY <1>1, <2>4
      <4> QED
        BY <1>1, <2>4, <4>1
    <3>2. s[i] = s[j]
      BY <1>2, <3>1
    <3> QED
      BY <2>3, <3>1, <3>2
  <2>5. CASE i > Len(s) /\ j > Len(s)
    <3>1. /\ i - Len(s) \in 1 .. Len(t) /\ j - Len(s) \in 1 .. Len(t)
          /\ u[i] = t[i - Len(s)] /\ u[j] = t[j - Len(s)]
      BY <1>1, <2>5
    <3>2. t[i - Len(s)] = t[j - Len(s)]
      BY <1>2, <3>1
    <3>3. i - Len(s) = j - Len(s)
      BY <2>3, <3>1, <3>2
    <3> QED
      BY <1>1, <3>3
  <2>6. CASE i <= Len(s) /\ j > Len(s)
    BY <1>1, <1>2, <2>1, <2>2, <2>6
  <2>7. CASE i > Len(s) /\ j <= Len(s)
    BY <1>1, <1>2, <2>1, <2>2, <2>7
  <2>8. \A k \in 1 .. Len(u) : k <= Len(s) \/ k > Len(s)
    BY <1>1
  <2> QED
    BY <2>4, <2>5, <2>6, <2>7, <2>8
<1>3. IsInjective(u)
  BY <1>1, <1>2, RangeIs
<1> QED
  BY <1>3 DEF u

\* What is shown, of a stored order and the apps that are there.
Grid(order, apps) == Filtered(order, apps)
                        \o Filtered(ContainerNames \o LinkKeys, apps \ Range(order))

LEMMA GridIs ==
    ASSUME NEW order \in Seq(Apps), IsInjective(order), NEW apps, apps \subseteq Apps
    PROVE  /\ Grid(order, apps) \in Seq(Apps) /\ IsInjective(Grid(order, apps))
           /\ Range(Grid(order, apps)) = apps
           /\ Range(order) = apps => Grid(order, apps) = order
<1> DEFINE grid == Grid(order, apps)
           all == ContainerNames \o LinkKeys
           named == Filtered(order, apps)
           rest == Filtered(all, apps \ Range(order))
<1>1. /\ named \in Seq(Apps) /\ Range(named) = Range(order) \cap apps /\ IsInjective(named)
      /\ Range(order) \subseteq apps => named = order
  BY FilteredKeeps
<1>2. all \in Seq(Apps) /\ Range(all) = Apps /\ IsInjective(all)
  BY AppsAre, HomeAppsAssumption DEF Apps
<1>3. /\ rest \in Seq(Apps) /\ Range(rest) = Apps \cap (apps \ Range(order))
      /\ IsInjective(rest)
  <2> HIDE DEF all
  <2> QED
    BY <1>2, FilteredKeeps
<1>4. grid = named \o rest
  BY DEF Grid
<1> HIDE DEF grid, named, rest
<1>5. grid \in Seq(Apps) /\ Range(grid) = Range(named) \cup Range(rest)
  <2>1. named \o rest \in Seq(Apps)
    BY <1>1, <1>3, ConcatProperties
  <2>2. Range(named \o rest) = Range(named) \cup Range(rest)
    BY <1>1, <1>3, RangeConcatenation
  <2> QED
    BY <1>4, <2>1, <2>2
<1>6. IsInjective(grid)
  BY <1>1, <1>3, <1>4, ConcatInjective
<1>7. ASSUME Range(order) = apps PROVE grid = order
  <2>1. Range(rest) = {}
    BY <1>3, <1>7
  <2>2. rest = <<>>
    <3>1. Len(rest) \in Nat /\ \A i \in 1 .. Len(rest) : rest[i] \in Range(rest)
      BY <1>3, RangeIs
    <3>2. Len(rest) = 0
      BY <2>1, <3>1
    <3> QED
      BY <1>3, <3>2, EmptySeq
  <2> QED
    BY <1>1, <1>4, <1>7, <2>2, ConcatEmptySeq
<1> QED
  BY <1>5, <1>6, <1>7, <1>1, <1>3 DEF grid

\* Names are in the stored order once each; those of links belong to links that were made.
HomeAppsIInv ==
    /\ HomeAppsTypeOK
    /\ IsInjective(containerOrder)
    /\ Range(containerOrder) \subseteq Range(ContainerNames) \cup madeLinks
    /\ Dragging => drag.key \in Apps /\ drag.aim # drag.key

LEMMA GridKeysAre ==
    ASSUME HomeAppsIInv
    PROVE  /\ GridKeys \in Seq(Apps) /\ IsInjective(GridKeys) /\ Range(GridKeys) = ShownApps
           /\ Range(containerOrder) = ShownApps => GridKeys = containerOrder
           /\ ShownApps \subseteq Range(ContainerNames) \cup madeLinks
<1>1. ShownApps \subseteq Apps /\ ShownApps \subseteq Range(ContainerNames) \cup madeLinks
  BY AppsAre DEF HomeAppsIInv, HomeAppsTypeOK, ShownApps
<1>2. containerOrder \in Seq(Apps) /\ IsInjective(containerOrder)
  BY DEF HomeAppsIInv, HomeAppsTypeOK
<1>3. GridKeys = Grid(containerOrder, ShownApps)
  BY DEF GridKeys, Grid
<1> QED
  BY <1>1, <1>2, <1>3, GridIs

LEMMA GridKeysAreNext ==
    ASSUME HomeAppsIInv'
    PROVE  /\ GridKeys' \in Seq(Apps) /\ IsInjective(GridKeys') /\ Range(GridKeys') = ShownApps'
           /\ Range(containerOrder') = ShownApps' => GridKeys' = containerOrder'
<1>1. ShownApps' \subseteq Apps
  BY AppsAre DEF HomeAppsIInv, HomeAppsTypeOK, ShownApps
<1>2. containerOrder' \in Seq(Apps) /\ IsInjective(containerOrder')
  BY DEF HomeAppsIInv, HomeAppsTypeOK
<1>3. GridKeys' = Grid(containerOrder', ShownApps')
  BY DEF GridKeys, Grid
<1> QED
  BY <1>1, <1>2, <1>3, GridIs

AppsApart ==
    /\ Apps \cap DepartmentIds = {}
    /\ Loose \notin Apps \cup DepartmentIds /\ Nothing \notin Apps \cup DepartmentIds
    /\ Loose # Nothing

LEMMA AppsTellApart == AppsApart
  BY HomeAppsAssumption DEF AppsApart, Loose, Nothing

\* A key that is shown, and where.
LEMMA ShownAt ==
    ASSUME HomeAppsIInv, NEW app
    PROVE  /\ Contains(GridKeys, app) <=> app \in ShownApps
           /\ Len(GridKeys) \in Nat
           /\ app \in ShownApps =>
                /\ IndexOf(GridKeys, app) \in 1 .. Len(GridKeys)
                /\ GridKeys[IndexOf(GridKeys, app)] = app
<1> DEFINE keys == GridKeys
<1>1. keys \in Seq(Apps) /\ IsInjective(keys) /\ Range(keys) = ShownApps
  BY GridKeysAre
<1> HIDE DEF keys
<1>2. Contains(keys, app) <=> app \in ShownApps
  BY <1>1, RangeIs DEF Contains
<1>3. ASSUME app \in ShownApps
      PROVE  IndexOf(keys, app) \in 1 .. Len(keys) /\ keys[IndexOf(keys, app)] = app
  <2>1. PICK i \in 1 .. Len(keys) : keys[i] = app
    BY <1>1, <1>3, RangeIs
  <2>2. IndexOf(keys, app) = i
    BY <1>1, <2>1, IndexIs
  <2> QED
    BY <2>1, <2>2
<1>4. Len(keys) \in Nat
  BY <1>1, LenProperties
<1> QED
  BY <1>2, <1>3, <1>4 DEF keys

\* On a tile: either one of the two is gone, or the app goes to the tile's position.
LEMMA PlacedIs ==
    ASSUME HomeAppsIInv, NEW from \in Apps, NEW to \in Apps, from # to, PlaceApp(from, to)
    PROVE  \/ /\ ~ ({from, to} \subseteq ShownApps)
              /\ UNCHANGED <<containerOrder, appDepartments>>
           \/ /\ \E i, p \in 1 .. Len(GridKeys) :
                   /\ GridKeys[i] = from /\ GridKeys[p] = to
                   /\ containerOrder' = Moved(GridKeys, i, p)
              /\ appDepartments' = [appDepartments EXCEPT ![from] = appDepartments[to]]
<1> DEFINE i == IndexOf(GridKeys, from)
           p == IndexOf(GridKeys, to)
<1>1. CASE from \in ShownApps /\ to \in ShownApps
  <2>1. Contains(GridKeys, from) /\ Contains(GridKeys, to)
    BY <1>1, ShownAt
  <2>2. /\ i \in 1 .. Len(GridKeys) /\ GridKeys[i] = from
        /\ p \in 1 .. Len(GridKeys) /\ GridKeys[p] = to
    BY <1>1, ShownAt
  <2>3. /\ containerOrder' = InsertAt(RemoveAt(GridKeys, i), p, from)
        /\ appDepartments' = [appDepartments EXCEPT ![from] = appDepartments[to]]
    BY <2>1 DEF PlaceApp
  <2>4. containerOrder' = Moved(GridKeys, i, p)
    BY <2>2, <2>3 DEF Moved
  <2> HIDE DEF i, p
  <2> QED
    BY <2>2, <2>3, <2>4
<1>2. CASE ~ (from \in ShownApps /\ to \in ShownApps)
  <2>1. ~ (Contains(GridKeys, from) /\ Contains(GridKeys, to))
    BY <1>2, ShownAt
  <2>2. UNCHANGED <<containerOrder, appDepartments>>
    BY <2>1 DEF PlaceApp
  <2> QED
    BY <1>2, <2>2
<1> QED
  BY <1>1, <1>2

\* On a department: the app goes behind all that are in it.
LEMMA AssignedIs ==
    ASSUME HomeAppsIInv, NEW app \in ShownApps, NEW department \in DepartmentIds,
           AssignDepartment(app, department), appDepartments[app] # department
    PROVE  \E i, p \in 1 .. Len(GridKeys) :
             /\ GridKeys[i] = app /\ containerOrder' = Moved(GridKeys, i, p)
             /\ \A k \in 1 .. Len(GridKeys) :
                  k # i /\ appDepartments[GridKeys[k]] = department => GoesTo(k, i, p) < p
<1> DEFINE all == GridKeys
           i == IndexOf(all, app)
           keys == RemoveFirst(all, app)
           I == {k \in 1 .. Len(keys) : appDepartments[keys[k]] = department}
           last == SelectLastInSeq(keys, LAMBDA k : appDepartments[k] = department)
           p == (IF last = 0 THEN Len(keys) ELSE last) + 1
<1>1. /\ all \in Seq(Apps) /\ Len(all) \in Nat /\ i \in 1 .. Len(all) /\ all[i] = app
      /\ Contains(all, app)
  BY ShownAt, GridKeysAre
<1>2. keys = RemoveAt(all, i)
  <2>1. \E k \in 1 .. Len(all) : all[k] = app
    BY <1>1
  <2> HIDE DEF all
  <2> QED
    BY <2>1 DEF RemoveFirst, IndexOf, SelectInSeq
<1>3. last = IF I # {} THEN Max(I) ELSE 0
  BY DEF SelectLastInSeq
<1>4. department # Loose
  BY AppsTellApart DEF AppsApart
<1>5. containerOrder' = InsertAt(keys, p, app)
  BY <1>1, <1>4 DEF AssignDepartment
<1> HIDE DEF all, i, last
<1>6. Len(keys) = Len(all) - 1 /\ \A k \in 1 .. Len(all) - 1 :
        keys[k] = IF k < i THEN all[k] ELSE all[k + 1]
  BY <1>1, <1>2, RemoveAtIs
<1> HIDE DEF keys
<1>7. Len(keys) \in Nat /\ I \in SUBSET (1 .. Len(keys))
  BY <1>1, <1>6
<1>8. /\ I = {} => last = 0
      /\ I # {} => last \in I /\ last \in 1 .. Len(keys) /\ \A k \in I : k <= last
  <2> HIDE DEF I
  <2> QED
    BY <1>3, <1>7, GreatestNumber
<1>9. p \in 1 .. Len(all) /\ (I # {} => p = last + 1)
  BY <1>1, <1>6, <1>7, <1>8
<1>10. containerOrder' = Moved(all, i, p)
  BY <1>1, <1>2, <1>5 DEF Moved
<1>11. ASSUME NEW k \in 1 .. Len(all), k # i, appDepartments[all[k]] = department
       PROVE  GoesTo(k, i, p) < p
  <2> DEFINE r == IF k < i THEN k ELSE k - 1
  <2>1. r \in 1 .. Len(keys) /\ (IF r < i THEN r ELSE r + 1) = k
    BY <1>1, <1>6, <1>11
  <2>2. keys[r] = all[k]
    BY <1>6, <2>1
  <2>3. r \in I
    BY <1>11, <2>1, <2>2
  <2> HIDE DEF I, p
  <2>4. r < p
    BY <1>7, <1>8, <1>9, <2>1, <2>3
  <2> QED
    BY <1>11, <2>4 DEF GoesTo
<1> HIDE DEF p
<1> QED
  BY <1>1, <1>9, <1>10, <1>11 DEF all

\* What a drop does to the order and to the departments.
Moves(i, p) ==
    /\ GridKeys[i] = drag.key /\ containerOrder' = Moved(GridKeys, i, p)

DropStays == containerOrder' = containerOrder \/ containerOrder' = GridKeys

LEMMA DropIs ==
    ASSUME HomeAppsIInv, Drop
    PROVE  /\ drag' = NoDrag
           /\ UNCHANGED <<present, links, departments, madeLinks, madeDepartments>>
           /\ drag.key \in Apps
           /\ DropStays \/ \E i, p \in 1 .. Len(GridKeys) : Moves(i, p)
           /\ appDepartments' \in [Apps -> DepartmentIds \cup {Loose}]
           /\ \A a \in Apps \ {drag.key} : appDepartments'[a] = appDepartments[a]
<1>1. /\ drag' = NoDrag
      /\ UNCHANGED <<present, links, departments, madeLinks, madeDepartments>>
      /\ Dragging
      /\ \/ drag.aim \in Apps /\ PlaceApp(drag.key, drag.aim)
         \/ drag.aim \in DepartmentIds \cup {Loose} /\ AssignDepartment(drag.key, drag.aim)
         \/ drag.aim = Nothing /\ UNCHANGED <<containerOrder, appDepartments>>
  BY DEF Drop
<1>2. drag.key \in Apps /\ drag.aim # drag.key
  BY <1>1 DEF HomeAppsIInv
<1>3. appDepartments \in [Apps -> DepartmentIds \cup {Loose}]
  BY DEF HomeAppsIInv, HomeAppsTypeOK
<1> DEFINE Goal == /\ DropStays \/ \E i, p \in 1 .. Len(GridKeys) : Moves(i, p)
                   /\ appDepartments' \in [Apps -> DepartmentIds \cup {Loose}]
                   /\ \A a \in Apps \ {drag.key} : appDepartments'[a] = appDepartments[a]
<1> SUFFICES Goal
  BY <1>1, <1>2
<1>4. CASE drag.aim \in Apps /\ PlaceApp(drag.key, drag.aim)
  <2>1. CASE UNCHANGED <<containerOrder, appDepartments>>
    BY <2>1, <1>3 DEF DropStays
  <2>2. CASE /\ \E i, p \in 1 .. Len(GridKeys) :
                  /\ GridKeys[i] = drag.key /\ GridKeys[p] = drag.aim
                  /\ containerOrder' = Moved(GridKeys, i, p)
             /\ appDepartments' = [appDepartments EXCEPT ![drag.key] = appDepartments[drag.aim]]
    <3>1. \E i, p \in 1 .. Len(GridKeys) : Moves(i, p)
      BY <2>2 DEF Moves
    <3>2. appDepartments[drag.aim] \in DepartmentIds \cup {Loose}
      BY <1>3, <1>4
    <3> QED
      BY <1>2, <1>3, <2>2, <3>1, <3>2
  <2> QED
    BY <1>2, <1>4, <2>1, <2>2, PlacedIs
<1>5. CASE drag.aim \in DepartmentIds \cup {Loose} /\ AssignDepartment(drag.key, drag.aim)
  <2>1. CASE appDepartments[drag.key] = drag.aim
    BY <2>1, <1>3, <1>5 DEF DropStays, AssignDepartment
  <2>2. CASE appDepartments[drag.key] # drag.aim
    <3>1. appDepartments' = [appDepartments EXCEPT ![drag.key] = drag.aim]
      BY <1>5, <2>2 DEF AssignDepartment
    <3>2. /\ appDepartments' \in [Apps -> DepartmentIds \cup {Loose}]
          /\ \A a \in Apps \ {drag.key} : appDepartments'[a] = appDepartments[a]
      BY <1>2, <1>3, <1>5, <3>1
    <3>3. CASE drag.aim = Loose
      <4>1. containerOrder' = containerOrder
        BY <1>5, <2>2, <3>3 DEF AssignDepartment
      <4> QED
        BY <3>2, <4>1 DEF DropStays
    <3>4. CASE drag.aim # Loose /\ drag.key \notin ShownApps
      <4>1. ~ Contains(GridKeys, drag.key)
        BY <3>4, ShownAt
      <4>2. containerOrder' = RemoveFirst(GridKeys, drag.key)
        BY <1>5, <2>2, <3>4, <4>1 DEF AssignDepartment
      <4>3. containerOrder' = GridKeys
        BY <4>1, <4>2 DEF RemoveFirst, Contains
      <4> QED
        BY <3>2, <4>3 DEF DropStays
    <3>5. CASE drag.aim # Loose /\ drag.key \in ShownApps
      <4>1. \E i, p \in 1 .. Len(GridKeys) : Moves(i, p)
        BY <1>5, <2>2, <3>5, AssignedIs DEF Moves
      <4> QED
        BY <3>2, <4>1
    <3> QED
      BY <3>3, <3>4, <3>5
  <2> QED
    BY <2>1, <2>2
<1>6. CASE drag.aim = Nothing /\ UNCHANGED <<containerOrder, appDepartments>>
  BY <1>6, <1>3 DEF DropStays
<1> HIDE DEF Goal
<1> QED
  BY <1>1, <1>4, <1>5, <1>6

LEMMA HomeAppsStart == HomeAppsInit => HomeAppsIInv
<1> SUFFICES ASSUME HomeAppsInit PROVE HomeAppsIInv
  OBVIOUS
<1>1. <<>> \in Seq(Apps) /\ IsInjective(<<>>) /\ Range(<<>>) = {}
  BY EmptySeq DEF IsInjective, Range
<1>2. HomeAppsTypeOK
  BY <1>1 DEF HomeAppsInit, HomeAppsTypeOK, NoDrag
<1> QED
  BY <1>1, <1>2 DEF HomeAppsInit, HomeAppsIInv, Dragging

\* The stored order, of the links that were made.
OrderStands(order, made) ==
    /\ order \in Seq(Apps) /\ IsInjective(order)
    /\ Range(order) \subseteq Range(ContainerNames) \cup made

\* The rest of the invariant.
AppsRest ==
    /\ present \subseteq Range(ContainerNames)
    /\ links \subseteq madeLinks /\ madeLinks \subseteq Range(LinkKeys)
    /\ departments \subseteq madeDepartments /\ madeDepartments \subseteq DepartmentIds
    /\ appDepartments \in [Apps -> DepartmentIds \cup {Loose}]

DragStands ==
    /\ drag \in [key : Apps \cup {Nothing}, aim : Apps \cup DepartmentIds \cup {Loose, Nothing}]
    /\ Dragging => drag.key \in Apps /\ drag.aim # drag.key

LEMMA HomeAppsParts ==
    HomeAppsIInv <=> OrderStands(containerOrder, madeLinks) /\ AppsRest /\ DragStands
BY DEF HomeAppsIInv, HomeAppsTypeOK, OrderStands, AppsRest, DragStands

LEMMA HomeAppsPartsNext ==
    ASSUME OrderStands(containerOrder', madeLinks'), AppsRest', DragStands'
    PROVE  HomeAppsIInv'
BY DEF HomeAppsIInv, HomeAppsTypeOK, OrderStands, AppsRest, DragStands

LEMMA FilteredStands ==
    ASSUME NEW order, NEW made, OrderStands(order, made), NEW apps
    PROVE  /\ OrderStands(Filtered(order, apps), made)
           /\ Range(Filtered(order, apps)) \subseteq apps
BY FilteredKeeps DEF OrderStands

LEMMA DropStep ==
    ASSUME HomeAppsIInv, Drop
    PROVE  HomeAppsIInv'
<1>1. /\ drag' = NoDrag
      /\ UNCHANGED <<present, links, departments, madeLinks, madeDepartments>>
      /\ DropStays \/ \E i, p \in 1 .. Len(GridKeys) : Moves(i, p)
      /\ appDepartments' \in [Apps -> DepartmentIds \cup {Loose}]
  BY DropIs
<1>2. OrderStands(containerOrder, madeLinks) /\ OrderStands(GridKeys, madeLinks)
  BY HomeAppsParts, GridKeysAre DEF OrderStands
<1>3. OrderStands(containerOrder', madeLinks)
  <2>1. CASE DropStays
    BY <1>2, <2>1 DEF DropStays
  <2>2. ASSUME NEW i \in 1 .. Len(GridKeys), NEW p \in 1 .. Len(GridKeys), Moves(i, p)
        PROVE  OrderStands(containerOrder', madeLinks)
    BY <1>2, <2>2, MovedIs DEF Moves, OrderStands
  <2> QED
    BY <1>1, <2>1, <2>2
<1>4. AppsRest' /\ DragStands'
  BY <1>1, HomeAppsParts DEF AppsRest, DragStands, NoDrag, Dragging
<1> QED
  BY <1>1, <1>3, <1>4, HomeAppsPartsNext

LEMMA HomeAppsStep ==
    ASSUME HomeAppsIInv, [HomeAppsNext]_appsVars
    PROVE  HomeAppsIInv'
<1> USE HomeAppsParts
<1>1. CASE UNCHANGED appsVars
  <2>1. AppsRest' /\ DragStands' /\ OrderStands(containerOrder', madeLinks')
    BY <1>1 DEF appsVars, AppsRest, DragStands, Dragging
  <2> QED
    BY <2>1, HomeAppsPartsNext
<1>2. CASE Aim
  <2>1. PICK over \in (ShownApps \ {drag.key}) \cup departments \cup {Loose, Nothing} :
          drag' = [drag EXCEPT !.aim = over]
    BY <1>2 DEF Aim
  <2>2. UNCHANGED <<present, links, departments, containerOrder, appDepartments,
                    madeLinks, madeDepartments>> /\ Dragging
    BY <1>2 DEF Aim, UnchangedButDrag
  <2>3. ShownApps \subseteq Apps /\ departments \subseteq DepartmentIds
    BY AppsAre DEF AppsRest, ShownApps
  <2>4. over # drag.key
    BY <2>2, <2>3, AppsTellApart DEF AppsApart, DragStands
  <2>5. DragStands'
    BY <2>1, <2>2, <2>3, <2>4 DEF DragStands, Dragging
  <2>6. AppsRest' /\ OrderStands(containerOrder', madeLinks')
    BY <2>2 DEF AppsRest
  <2> QED
    BY <2>5, <2>6, HomeAppsPartsNext
<1>3. CASE Drop
  BY <1>3, DropStep
<1>4. CASE ContainersLoaded
  <2>1. AppsRest' /\ DragStands' /\ OrderStands(containerOrder', madeLinks')
    BY <1>4 DEF ContainersLoaded, AppsRest, DragStands, Dragging
  <2> QED
    BY <2>1, HomeAppsPartsNext
<1>5. CASE LayoutReplaced
  <2>1. /\ links' \subseteq madeLinks /\ departments' \subseteq madeDepartments
        /\ containerOrder' = Filtered(containerOrder, links' \cup Range(ContainerNames))
        /\ appDepartments' = WithoutUnknown(departments')
        /\ UNCHANGED <<present, madeLinks, madeDepartments, drag>>
    BY <1>5 DEF LayoutReplaced
  <2>2. OrderStands(containerOrder', madeLinks')
    BY <2>1, FilteredStands
  <2>3. appDepartments' \in [Apps -> DepartmentIds \cup {Loose}]
    BY <2>1 DEF WithoutUnknown, AppsRest
  <2>4. AppsRest' /\ DragStands'
    BY <2>1, <2>3 DEF AppsRest, DragStands, Dragging
  <2> QED
    BY <2>2, <2>4, HomeAppsPartsNext
<1>6. ASSUME NEW app \in Apps, StartDrag(app)
      PROVE  HomeAppsIInv'
  <2>1. DragStands'
    BY <1>6, AppsTellApart DEF StartDrag, DragStands, Dragging, AppsApart
  <2>2. AppsRest' /\ OrderStands(containerOrder', madeLinks')
    BY <1>6 DEF StartDrag, UnchangedButDrag, AppsRest
  <2> QED
    BY <2>1, <2>2, HomeAppsPartsNext
<1>7. ASSUME NEW link \in Range(LinkKeys), AddLink(link)
      PROVE  HomeAppsIInv'
  <2>1. /\ link \notin madeLinks /\ madeLinks' = madeLinks \cup {link}
        /\ links' = links \cup {link} /\ containerOrder' = Append(containerOrder, link)
        /\ UNCHANGED <<present, departments, appDepartments, madeDepartments, drag>>
    BY <1>7 DEF AddLink
  <2>2. link \in Apps /\ link \notin Range(ContainerNames)
    BY AppsAre
  <2>3. OrderStands(containerOrder', madeLinks')
    BY <2>1, <2>2, AppendKeeps DEF OrderStands
  <2>4. AppsRest' /\ DragStands'
    BY <2>1 DEF AppsRest, DragStands, Dragging
  <2> QED
    BY <2>3, <2>4, HomeAppsPartsNext
<1>8. ASSUME NEW link \in Range(LinkKeys), RemoveLink(link)
      PROVE  HomeAppsIInv'
  <2>1. /\ links' = links \ {link}
        /\ containerOrder' = Filtered(containerOrder, Apps \ {link})
        /\ appDepartments' = [appDepartments EXCEPT ![link] = Loose]
        /\ UNCHANGED <<present, departments, madeLinks, madeDepartments, drag>>
    BY <1>8 DEF RemoveLink
  <2>2. OrderStands(containerOrder', madeLinks')
    BY <2>1, FilteredStands
  <2>3. AppsRest' /\ DragStands'
    BY <2>1 DEF AppsRest, DragStands, Dragging
  <2> QED
    BY <2>2, <2>3, HomeAppsPartsNext
<1>9. ASSUME NEW department \in DepartmentIds,
             AddDepartment(department) \/ RemoveDepartment(department)
      PROVE  HomeAppsIInv'
  <2>1. /\ UNCHANGED <<present, links, containerOrder, madeLinks, drag>>
        /\ departments' \subseteq departments \cup {department}
        /\ madeDepartments' = madeDepartments \cup {department}
             \/ (madeDepartments' = madeDepartments /\ departments' \subseteq departments)
    BY <1>9 DEF AddDepartment, RemoveDepartment
  <2>2. appDepartments' \in [Apps -> DepartmentIds \cup {Loose}]
    BY <1>9 DEF AddDepartment, RemoveDepartment, AppsRest
  <2>3. AppsRest' /\ DragStands' /\ OrderStands(containerOrder', madeLinks')
    BY <2>1, <2>2 DEF AppsRest, DragStands, Dragging
  <2> QED
    BY <2>3, HomeAppsPartsNext
<1> QED
  BY <1>1, <1>2, <1>3, <1>4, <1>5, <1>6, <1>7, <1>8, <1>9 DEF HomeAppsNext

--------------------------------------------------------------------------------
\* What a drop shows

LEMMA DropShows ==
    ASSUME HomeAppsIInv, Drop
    PROVE  /\ ShownApps' = ShownApps
           /\ \/ GridKeys' = GridKeys
              \/ \E i, p \in 1 .. Len(GridKeys) : /\ Moves(i, p)
                                                  /\ GridKeys' = Moved(GridKeys, i, p)
<1>1. /\ UNCHANGED <<present, links>>
      /\ DropStays \/ \E i, p \in 1 .. Len(GridKeys) : Moves(i, p)
  BY DropIs
<1>2. HomeAppsIInv'
  BY DropStep
<1>3. ShownApps' = ShownApps
  BY <1>1 DEF ShownApps
<1>4. /\ GridKeys \in Seq(Apps) /\ IsInjective(GridKeys) /\ Range(GridKeys) = ShownApps
  BY GridKeysAre
<1>5. Range(containerOrder') = ShownApps' => GridKeys' = containerOrder'
  BY <1>2, GridKeysAreNext
<1>6. CASE containerOrder' = containerOrder
  BY <1>1, <1>3, <1>6 DEF GridKeys
<1>7. CASE containerOrder' = GridKeys
  BY <1>3, <1>4, <1>5, <1>7
<1>8. ASSUME NEW i \in 1 .. Len(GridKeys), NEW p \in 1 .. Len(GridKeys), Moves(i, p)
      PROVE  GridKeys' = Moved(GridKeys, i, p)
  <2>1. containerOrder' = Moved(GridKeys, i, p)
    BY <1>8 DEF Moves
  <2>2. Range(Moved(GridKeys, i, p)) = ShownApps
    BY <1>4, MovedIs
  <2> QED
    BY <1>3, <1>5, <2>1, <2>2
<1> QED
  BY <1>1, <1>3, <1>6, <1>7, <1>8 DEF DropStays

\* Where the apps are after a move.
LEMMA MovedIndexes ==
    ASSUME HomeAppsIInv, NEW i \in 1 .. Len(GridKeys), NEW p \in 1 .. Len(GridKeys),
           NEW k \in 1 .. Len(GridKeys)
    PROVE  /\ IndexOf(GridKeys, GridKeys[k]) = k
           /\ IndexOf(Moved(GridKeys, i, p), GridKeys[k]) = GoesTo(k, i, p)
<1> DEFINE keys == GridKeys
           m == Moved(keys, i, p)
           g == GoesTo(k, i, p)
<1>1. keys \in Seq(Apps) /\ IsInjective(keys) /\ Len(keys) \in Nat
  BY GridKeysAre, ShownAt
<1> HIDE DEF keys
<1>2. m \in Seq(Apps) /\ IsInjective(m) /\ Len(m) = Len(keys) /\ m[g] = keys[k]
  BY <1>1, MovedIs DEF keys
<1>3. g \in 1 .. Len(keys)
  BY <1>1, Positions DEF keys
<1> HIDE DEF m, g
<1>4. IndexOf(m, m[g]) = g
  BY <1>2, <1>3, IndexIs
<1>5. IndexOf(keys, keys[k]) = k
  BY <1>1, IndexIs DEF keys
<1> QED
  BY <1>2, <1>4, <1>5 DEF keys, m, g

LEMMA OthersDoStay ==
    ASSUME HomeAppsIInv, Drop
    PROVE  OthersStay
<1>1. /\ UNCHANGED departments /\ drag.key \in Apps
      /\ \A a \in Apps \ {drag.key} : appDepartments'[a] = appDepartments[a]
  BY DropIs
<1>2. ShownApps \subseteq Apps
  BY HomeAppsParts, AppsAre DEF AppsRest, ShownApps
<1>3. \A a \in Apps \ {drag.key} : Section'[a] = Section[a]
  BY <1>1 DEF Section
<1>4. ASSUME NEW a \in ShownApps \ {drag.key}, NEW b \in ShownApps \ {drag.key}
      PROVE  Before(GridKeys, a, b) <=> Before(GridKeys', a, b)
  <2>1. CASE GridKeys' = GridKeys
    BY <2>1
  <2>2. ASSUME NEW i \in 1 .. Len(GridKeys), NEW p \in 1 .. Len(GridKeys),
               Moves(i, p), GridKeys' = Moved(GridKeys, i, p)
        PROVE  Before(GridKeys, a, b) <=> Before(GridKeys', a, b)
    <3>1. Len(GridKeys) \in Nat
      BY ShownAt
    <3>2. PICK k \in 1 .. Len(GridKeys) : GridKeys[k] = a
      BY ShownAt
    <3>3. PICK l \in 1 .. Len(GridKeys) : GridKeys[l] = b
      BY ShownAt
    <3>4. k # i /\ l # i
      BY <2>2, <3>2, <3>3 DEF Moves
    <3>5. k < l <=> GoesTo(k, i, p) < GoesTo(l, i, p)
      BY <3>1, <3>4, Positions
    <3>6. /\ IndexOf(GridKeys, a) = k /\ IndexOf(GridKeys, b) = l
          /\ IndexOf(GridKeys', a) = GoesTo(k, i, p)
          /\ IndexOf(GridKeys', b) = GoesTo(l, i, p)
      BY <2>2, <3>2, <3>3, MovedIndexes
    <3> QED
      BY <3>5, <3>6 DEF Before
  <2> QED
    BY <2>1, <2>2, DropShows
<1> QED
  BY <1>2, <1>3, <1>4 DEF OthersStay

LEMMA LandsBesideTile ==
    ASSUME HomeAppsIInv, Drop, {drag.key, drag.aim} \subseteq ShownApps
    PROVE  /\ Section'[drag.key] = Section[drag.aim]
           /\ IndexOf(GridKeys', drag.aim) \in {IndexOf(GridKeys', drag.key) - 1,
                                                IndexOf(GridKeys', drag.key) + 1}
<1> DEFINE from == drag.key
           to == drag.aim
<1>1. ShownApps \subseteq Apps
  BY HomeAppsParts, AppsAre DEF AppsRest, ShownApps
<1>2. from \in Apps /\ to \in Apps /\ to \notin DepartmentIds \cup {Loose, Nothing}
  BY <1>1, AppsTellApart DEF AppsApart
<1>3. Dragging /\ PlaceApp(from, to) /\ UNCHANGED departments
  BY <1>2 DEF Drop
<1>4. from # to
  BY <1>3 DEF HomeAppsIInv
<1>5. /\ \E i, p \in 1 .. Len(GridKeys) :
           /\ GridKeys[i] = from /\ GridKeys[p] = to
           /\ containerOrder' = Moved(GridKeys, i, p)
      /\ appDepartments' = [appDepartments EXCEPT ![from] = appDepartments[to]]
  BY <1>2, <1>3, <1>4, PlacedIs
<1>6. PICK i \in 1 .. Len(GridKeys), p \in 1 .. Len(GridKeys) :
        /\ GridKeys[i] = from /\ GridKeys[p] = to
        /\ containerOrder' = Moved(GridKeys, i, p)
  BY <1>5
<1>7. i # p /\ Len(GridKeys) \in Nat
  BY <1>4, <1>6, ShownAt
<1>8. GridKeys' = Moved(GridKeys, i, p)
  <2>1. /\ GridKeys \in Seq(Apps) /\ IsInjective(GridKeys) /\ Range(GridKeys) = ShownApps
    BY GridKeysAre
  <2>2. Range(Moved(GridKeys, i, p)) = ShownApps
    BY <2>1, MovedIs
  <2>3. ShownApps' = ShownApps
    BY DropShows
  <2>4. Range(containerOrder') = ShownApps' => GridKeys' = containerOrder'
    BY DropStep, GridKeysAreNext
  <2> QED
    BY <1>6, <2>2, <2>3, <2>4
<1>9. /\ IndexOf(GridKeys', from) = GoesTo(i, i, p)
      /\ IndexOf(GridKeys', to) = GoesTo(p, i, p)
  BY <1>6, <1>8, MovedIndexes
<1>10. GoesTo(i, i, p) = p /\ GoesTo(p, i, p) \in {p - 1, p + 1}
  BY <1>7 DEF GoesTo
<1>11. Section'[from] = Section[to]
  <2>1. appDepartments'[from] = appDepartments[to]
    BY <1>2, <1>5 DEF HomeAppsIInv, HomeAppsTypeOK
  <2> QED
    BY <1>2, <1>3, <2>1 DEF Section
<1> QED
  BY <1>9, <1>10, <1>11

LEMMA LandsLast ==
    ASSUME HomeAppsIInv, Drop,
           drag.key \in ShownApps, drag.aim \in departments, Section[drag.key] # drag.aim
    PROVE  /\ Section'[drag.key] = drag.aim
           /\ \A k \in ShownApps :
                Section'[k] = drag.aim => IndexOf(GridKeys', k) <= IndexOf(GridKeys', drag.key)
<1> DEFINE app == drag.key
           department == drag.aim
<1>1. ShownApps \subseteq Apps /\ departments \subseteq DepartmentIds
  BY HomeAppsParts, AppsAre DEF AppsRest, ShownApps
<1>2. /\ app \in Apps /\ department \in DepartmentIds /\ department \notin Apps
      /\ department # Loose /\ department # Nothing
  BY <1>1, AppsTellApart DEF AppsApart
<1>3. AssignDepartment(app, department) /\ UNCHANGED departments
  BY <1>2 DEF Drop
<1>4. appDepartments[app] # department
  BY <1>2 DEF Section
<1>5. /\ appDepartments \in [Apps -> DepartmentIds \cup {Loose}]
      /\ appDepartments' = [appDepartments EXCEPT ![app] = department]
  BY <1>3, <1>4 DEF AssignDepartment, HomeAppsIInv, HomeAppsTypeOK
<1>6. PICK i \in 1 .. Len(GridKeys), p \in 1 .. Len(GridKeys) :
        /\ GridKeys[i] = app /\ containerOrder' = Moved(GridKeys, i, p)
        /\ \A k \in 1 .. Len(GridKeys) :
             k # i /\ appDepartments[GridKeys[k]] = department => GoesTo(k, i, p) < p
  BY <1>2, <1>3, <1>4, AssignedIs
<1>7. GridKeys' = Moved(GridKeys, i, p)
  <2>1. /\ GridKeys \in Seq(Apps) /\ IsInjective(GridKeys) /\ Range(GridKeys) = ShownApps
    BY GridKeysAre
  <2>2. Range(Moved(GridKeys, i, p)) = ShownApps
    BY <2>1, MovedIs
  <2>3. ShownApps' = ShownApps
    BY DropShows
  <2>4. Range(containerOrder') = ShownApps' => GridKeys' = containerOrder'
    BY DropStep, GridKeysAreNext
  <2> QED
    BY <1>6, <2>2, <2>3, <2>4
<1>8. Len(GridKeys) \in Nat
  BY ShownAt
<1>9. IndexOf(GridKeys', app) = p
  <2>1. IndexOf(GridKeys', app) = GoesTo(i, i, p)
    BY <1>6, <1>7, MovedIndexes
  <2> QED
    BY <2>1 DEF GoesTo
<1>10. Section'[app] = department
  BY <1>2, <1>3, <1>5 DEF Section
<1>11. ASSUME NEW k \in ShownApps, Section'[k] = department
       PROVE  IndexOf(GridKeys', k) <= p
  <2>1. CASE k = app
    BY <1>9, <2>1
  <2>2. CASE k # app
    <3>1. PICK j \in 1 .. Len(GridKeys) : GridKeys[j] = k
      BY ShownAt
    <3>2. j # i
      BY <1>6, <2>2, <3>1
    <3>3. appDepartments[k] = department
      BY <1>1, <1>2, <1>5, <1>11, <2>2 DEF Section
    <3>4. GoesTo(j, i, p) < p /\ GoesTo(j, i, p) \in 1 .. Len(GridKeys)
      BY <1>6, <1>8, <3>1, <3>2, <3>3, Positions
    <3>5. IndexOf(GridKeys', k) = GoesTo(j, i, p)
      BY <1>7, <3>1, MovedIndexes
    <3> QED
      BY <1>8, <3>4, <3>5
  <2> QED
    BY <2>1, <2>2
<1> QED
  BY <1>9, <1>10, <1>11

LEMMA LandsThere ==
    ASSUME HomeAppsIInv, Drop
    PROVE  LandsAtAim
BY LandsBesideTile, LandsLast DEF LandsAtAim

\* Only a drop ends a drag.
LEMMA OnlyDropsEnd ==
    ASSUME HomeAppsIInv, [HomeAppsNext]_appsVars, Dragging, drag' = NoDrag
    PROVE  Drop
<1>1. drag' # drag
  BY DEF Dragging
<1>2. CASE Aim
  <2>1. drag.key \in Apps /\ drag'.key = drag.key
    BY <1>2 DEF Aim, HomeAppsIInv, HomeAppsTypeOK
  <2> QED
    BY <2>1, AppsTellApart DEF NoDrag, AppsApart
<1> QED
  BY <1>1, <1>2 DEF HomeAppsNext, appsVars, ContainersLoaded, LayoutReplaced, StartDrag, AddLink,
                    RemoveLink, AddDepartment, RemoveDepartment, Dragging

\* Whatever is loaded or replaced during a drag, a drop moves the app that was dragged to
\* where it was dropped and no other, and no app is lost or doubled (casa-desktop.tsx:568).
THEOREM AppsStayWhereTheyAre == HomeAppsSpec => AppsKeepTheirPlaces
<1>1. HomeAppsIInv /\ [HomeAppsNext]_appsVars => HomeAppsIInv'
  BY HomeAppsStep
<1>2. HomeAppsIInv /\ HomeAppsIInv' /\ [HomeAppsNext]_appsVars =>
        [/\ <<present, links, containerOrder>>' # <<present, links, containerOrder>>
              => AppsShownOnce'
         /\ Dragging /\ drag' = NoDrag => OthersStay /\ LandsAtAim]_appsVars
  <2> SUFFICES ASSUME HomeAppsIInv, HomeAppsIInv', [HomeAppsNext]_appsVars
               PROVE  /\ AppsShownOnce'
                      /\ Dragging /\ drag' = NoDrag => OthersStay /\ LandsAtAim
    OBVIOUS
  <2>1. AppsShownOnce'
    BY GridKeysAreNext DEF AppsShownOnce
  <2>2. Dragging /\ drag' = NoDrag => OthersStay /\ LandsAtAim
    BY OnlyDropsEnd, OthersDoStay, LandsThere
  <2> QED
    BY <2>1, <2>2
<1>3. HomeAppsSpec => []HomeAppsIInv
  BY <1>1, HomeAppsStart, PTL DEF HomeAppsSpec
<1> QED
  BY <1>2, <1>3, PTL DEF HomeAppsSpec, AppsKeepTheirPlaces

\* The desktop's lists keep their types (casa-desktop.tsx:160).
THEOREM HomeAppsTypesStay == HomeAppsSpec => []HomeAppsTypeOK
<1>1. HomeAppsIInv /\ [HomeAppsNext]_appsVars => HomeAppsIInv'
  BY HomeAppsStep
<1>2. HomeAppsIInv => HomeAppsTypeOK
  BY DEF HomeAppsIInv
<1> QED
  BY <1>1, <1>2, HomeAppsStart, PTL DEF HomeAppsSpec

--------------------------------------------------------------------------------
\* The parts side by side

\* Departments that rest lie as some departments begin.
LEMMA FitRests == FitAtRest => FitInit
<1> SUFFICES ASSUME FitAtRest PROVE FitInit
  OBVIOUS
<1>1. Min(Tops) \in Tops /\ Min(Heights) \in Heights /\ 0 \in ContentHeights
  BY FitAssumption, MinIsMember
<1> HIDE DEF Min
<1> QED
  BY <1>1 DEF FitAtRest, FitInit

\* A behaviour of the composition is one of each of its parts: of the one that runs, and of the
\* others, which rest (the parts share no variable, as their modules share none from
\* backups.service.ts:55 to plugins/index.ts:30).
THEOREM MaintenanceIsItsParts ==
    MaintenanceSpec => /\ BackupsSpec /\ RetentionSpec /\ LifetimeSpec /\ ComposeEditorSpec
                       /\ HomeAppsSpec /\ FitSpec /\ AlertsSpec /\ PluginsSpec
<1>1. MaintenanceInit => /\ BackupsInit /\ RetentionInit /\ LifetimeInit /\ ComposeEditorInit
                         /\ HomeAppsInit /\ FitInit /\ AlertsInit /\ PluginsInit
  BY FitRests DEF MaintenanceInit
<1>2. [MaintenanceNext]_maintenanceVars => [BackupsNext]_backupVars
  BY DEF MaintenanceNext, maintenanceVars
<1>3. [MaintenanceNext]_maintenanceVars => [RetentionNext]_retentionVars
  BY DEF MaintenanceNext, maintenanceVars
<1>4. [MaintenanceNext]_maintenanceVars => [LifetimeNext]_lifetimeVars
  BY DEF MaintenanceNext, maintenanceVars
<1>5. [MaintenanceNext]_maintenanceVars => [ComposeEditorNext]_editorVars
  BY DEF MaintenanceNext, maintenanceVars
<1>6. [MaintenanceNext]_maintenanceVars => [HomeAppsNext]_appsVars
  BY DEF MaintenanceNext, maintenanceVars
<1>7. [MaintenanceNext]_maintenanceVars => [Pass]_fitVars
  BY DEF MaintenanceNext, maintenanceVars
<1>8. [MaintenanceNext]_maintenanceVars => [AlertsNext]_alertsVars
  BY DEF MaintenanceNext, maintenanceVars
<1>9. [MaintenanceNext]_maintenanceVars => [PluginsNext]_pluginVars
  BY DEF MaintenanceNext, maintenanceVars
<1> QED
  BY <1>1, <1>2, <1>3, <1>4, <1>5, <1>6, <1>7, <1>8, <1>9, PTL
     DEF MaintenanceSpec, BackupsSpec, RetentionSpec, LifetimeSpec, ComposeEditorSpec,
         HomeAppsSpec, FitSpec, AlertsSpec, PluginsSpec

\* The state of each part has its types, whichever of them runs (MCMaintenance composes the
\* parts of backups.service.ts:55 to plugins/index.ts:30).
THEOREM MaintenanceTypesStay == MaintenanceSpec => []MaintenanceTypeOK
<1>1. MaintenanceInit => part \in Parts
  BY DEF MaintenanceInit
<1>2. part \in Parts /\ [MaintenanceNext]_maintenanceVars => (part \in Parts)'
  BY DEF MaintenanceNext, maintenanceVars
<1>3. /\ part \in Parts /\ BackupsTypeOK /\ RetentionTypeOK /\ LifetimeTypeOK
      /\ ComposeEditorTypeOK /\ HomeAppsTypeOK /\ FitTypeOK /\ AlertsTypeOK /\ PluginsTypeOK
      => MaintenanceTypeOK
  BY DEF MaintenanceTypeOK
<1>4. MaintenanceSpec => [](part \in Parts)
  BY <1>1, <1>2, PTL DEF MaintenanceSpec
<1> QED
  BY <1>3, <1>4, MaintenanceIsItsParts, BackupsTypesStay, RetentionTypesStay, LifetimeTypesStay,
     EditorTypesStay, HomeAppsTypesStay, FitTypesStay, AlertsTypesStay, PluginsTypesStay, PTL

\* Side by side, too, each part keeps what it promises (lifetime.service.ts:158,
\* home-layout.ts:191, alert-cooldown.ts:20, plugins/index.ts:30, backups.service.ts:55,
\* data-retention.ts:7, compose-detail-page.tsx:125, casa-desktop.tsx:568).
COROLLARY MaintenanceHolds ==
    MaintenanceSpec => /\ []RecordsCounted /\ []NoRepeatedAlert /\ []PluginsAsAsked
                       /\ []FitIsExact /\ RestoreIsTrue /\ NewestRowsKept /\ SaveReplacesItsOrigin
                       /\ AppsKeepTheirPlaces /\ []LoadingIsServed
BY MaintenanceIsItsParts, EventsAndSamplesCounted, AlertsAreNotRepeated, PluginsFollowRequests,
   FitEndsExact, RestoresAreTrue, NewestRowsStay, SavesAreSafe, AppsStayWhereTheyAre,
   EditorIsServed, PTL

================================================================================
