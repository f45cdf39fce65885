--------------------------------- MODULE Alerts ---------------------------------
(***************************************************************************)
(* Monitoring alerts: the healthcheck job (modules/scheduler/index.ts), the  *)
(* snapshot it takes (modules/monitoring/monitoring.service.ts), the         *)
(* cooldown (alert-cooldown.ts) and the notification it writes.              *)
(*                                                                         *)
(* An alert's text is a stem and a number: ["web", 2] for "web-2: exited",  *)
(* ["CPU", 93] for "CPU usage 93% exceeds threshold". On a host stem the     *)
(* number is a measurement, on a container stem it is part of the name.      *)
(***************************************************************************)
EXTENDS Naturals, FiniteSets

CONSTANTS
    HostStems,       \* what is measured of the host
    ContainerStems,  \* names of containers without their numbers
    CacheStem,       \* the build cache, one of the host stems
    Numbers,         \* the numbers in the texts
    HealthChecks,    \* runs of the job: by its timer and by hand
    AlertCooldown    \* DEFAULT_COOLDOWN_MS in ticks

ASSUME AlertsAssumption == AlertCooldown \in Nat \ {0} /\ CacheStem \in HostStems

VARIABLES
    active,       \* alerts a snapshot would find now
    lastSentAt,   \* per fingerprint, ticks since it was last let through
    healthCheck,  \* where each run of the job stands, and the alerts it has read
    decided,      \* history: per subject, ticks since it was last let through
    wrong         \* history: what the cooldown did wrong

alertsVars == <<active, lastSentAt, healthCheck, decided, wrong>>

Stems == HostStems \cup ContainerStems
AlertTexts == Stems \X Numbers

\* alertFingerprint: the numbers are taken out of the text.
Fingerprint(a) == a[1]
Fingerprints == Stems

\* What an alert is about: a measurement of the host, or one container.
Subject(a) == IF a[1] \in HostStems THEN <<a[1]>> ELSE a
Subjects == {Subject(a) : a \in AlertTexts}

\* Ages are counted up to the cooldown: an older entry, and one that the filter has
\* forgotten after two cooldowns, count as none.
Never == AlertCooldown
Ages == 0 .. Never
NotRunning == [pc |-> "idle", alerts |-> {}]

\* Measurements do not raise two alerts of one stem at once.
Snapshots == {s \in SUBSET AlertTexts :
                \A a, b \in s : a[1] = b[1] /\ a[1] \in HostStems => a = b}

AlertsInit ==
    /\ active = {}
    /\ lastSentAt = [k \in Fingerprints |-> Never]
    /\ healthCheck = [c \in HealthChecks |-> NotRunning]
    /\ decided = [s \in Subjects |-> Never]
    /\ wrong = {}

----------------------------------------------------------------------------
\* The thresholds are crossed, containers exit and come back.
ConditionsChange ==
    /\ \E a \in AlertTexts : \/ active' = active \cup {a} /\ active' \in Snapshots
                             \/ active' = active \ {a}
    /\ UNCHANGED <<lastSentAt, healthCheck, decided, wrong>>

CheckBegins(c) ==
    /\ healthCheck[c].pc = "idle"
    /\ healthCheck' = [healthCheck EXCEPT ![c].pc = "reads"]
    /\ UNCHANGED <<active, lastSentAt, decided, wrong>>

OfCache(alerts) == {a \in alerts : a[1] = CacheStem}

\* The snapshot; an alert about the build cache has it pruned first.
CheckReads(c) ==
    /\ healthCheck[c].pc = "reads"
    /\ healthCheck' = [healthCheck EXCEPT ![c] =
                   [pc |-> IF OfCache(active) # {} THEN "prunes" ELSE "filters",
                    alerts |-> active]]
    /\ UNCHANGED <<active, lastSentAt, decided, wrong>>

\* The settings or the host's figures cannot be read.
CheckFails(c) ==
    /\ healthCheck[c].pc = "reads"
    /\ healthCheck' = [healthCheck EXCEPT ![c] = NotRunning]
    /\ UNCHANGED <<active, lastSentAt, decided, wrong>>

\* A pruned cache needs no alert, one that could not be pruned does.
CachePruned(c) ==
    /\ healthCheck[c].pc = "prunes"
    /\ active' = active \ OfCache(active)
    /\ healthCheck' = [healthCheck EXCEPT
         ![c] = [pc |-> "filters", alerts |-> @.alerts \ OfCache(@.alerts)]]
    /\ UNCHANGED <<lastSentAt, decided, wrong>>

CachePruneFails(c) ==
    /\ healthCheck[c].pc = "prunes"
    /\ healthCheck' = [healthCheck EXCEPT ![c].pc = "filters"]
    /\ UNCHANGED <<active, lastSentAt, decided, wrong>>

CoolingDown(k) == lastSentAt[k] < AlertCooldown

\* filterAlertsWithCooldown lets one alert through per fingerprint that is not cooling
\* down: the first one of the snapshot.
Chosen(alerts) ==
    {s \in SUBSET alerts :
       /\ \A a, b \in s : Fingerprint(a) = Fingerprint(b) => a = b
       /\ {Fingerprint(a) : a \in s} = {Fingerprint(a) : a \in alerts}}

Through(chosen) == {a \in chosen : ~CoolingDown(Fingerprint(a))}

\* The variant that notes nothing.
NothingNoted(through) == lastSentAt

\* The time of what is let through is noted at once, before anything is written.
Noted(through) ==
    [k \in Fingerprints |-> IF k \in {Fingerprint(a) : a \in through} THEN 0
                            ELSE lastSentAt[k]]

\* An alert is repeated if its subject was let through within the cooldown, swallowed if
\* it is held back although it was not.
Repeated(through) == \E a \in through : decided[Subject(a)] < AlertCooldown
Swallowed(held, through) ==
    \E a \in held : /\ decided[Subject(a)] >= AlertCooldown
                    /\ \A b \in through : Subject(b) # Subject(a)

CheckFilters(c) ==
    /\ healthCheck[c].pc = "filters"
    /\ \E chosen \in Chosen(healthCheck[c].alerts) :
         LET through == Through(chosen)
         IN  /\ lastSentAt' = Noted(through)
             /\ decided' = [s \in Subjects |-> IF s \in {Subject(a) : a \in through} THEN 0
                                               ELSE decided[s]]
             /\ wrong' = wrong
                  \cup (IF Repeated(through) THEN {"repeated"} ELSE {})
                  \cup (IF Swallowed(healthCheck[c].alerts \ through, through)
                        THEN {"swallowed"} ELSE {})
             /\ healthCheck' = [healthCheck EXCEPT ![c] = IF through = {} THEN NotRunning
                                              ELSE [pc |-> "notifies", alerts |-> through]]
    /\ UNCHANGED <<active>>

\* notify writes the row and tries Discord and ntfy, whose errors are ignored; or the row
\* cannot be written and the job fails. The cooldown runs in both cases.
Notifies(c) ==
    /\ healthCheck[c].pc = "notifies"
    /\ healthCheck' = [healthCheck EXCEPT ![c] = NotRunning]
    /\ UNCHANGED <<active, lastSentAt, decided, wrong>>

AgeAfter(n) == IF n < Never THEN n + 1 ELSE n

AlertsTick ==
    /\ lastSentAt' = [k \in Fingerprints |-> AgeAfter(lastSentAt[k])]
    /\ decided' = [s \in Subjects |-> AgeAfter(decided[s])]
    /\ UNCHANGED <<active, healthCheck, wrong>>

AlertsNext ==
    \/ ConditionsChange
    \/ \E c \in HealthChecks : \/ CheckBegins(c) \/ CheckReads(c) \/ CheckFails(c)
                         \/ CachePruned(c) \/ CachePruneFails(c) \/ CheckFilters(c)
                         \/ Notifies(c)
    \/ AlertsTick

AlertsSpec == AlertsInit /\ [][AlertsNext]_alertsVars

----------------------------------------------------------------------------
\* Alerts, ages and runs have their types (alert-cooldown.ts:3).
AlertsTypeOK ==
    /\ active \in Snapshots
    /\ lastSentAt \in [Fingerprints -> Ages]
    /\ healthCheck \in [HealthChecks -> [pc : {"idle", "reads", "prunes", "filters", "notifies"},
                             alerts : SUBSET AlertTexts]]
    /\ decided \in [Subjects -> Ages]
    /\ wrong \subseteq {"repeated", "swallowed"}

\* However many runs of the job overlap, nobody is alerted of the same thing twice
\* within the cooldown, whatever the numbers in the text do meanwhile.
NoRepeatedAlert == "repeated" \notin wrong

\* An alert that is held back was let through within the cooldown: README.md:112
\* promises alerts per container, and only "fluctuating numbers" are to share a cooldown
\* (alert-cooldown.ts:8).
NoAlertSwallowed == "swallowed" \notin wrong
================================================================================
