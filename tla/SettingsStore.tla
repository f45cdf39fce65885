------------------------------ MODULE SettingsStore ------------------------------
(***************************************************************************)
(* The settings table and what is derived from it: the cache of all         *)
(* settings (settings.service.ts), the cached answer to "is login on"       *)
(* (auth-gate.ts), and the schedule of the update check, which PUT /settings *)
(* rewrites when its interval changes (settings/index.ts).                  *)
(*                                                                         *)
(* Two settings stand for all: the interval of the update check and the     *)
(* login switch. Both caches are filled by calls whose query was answered   *)
(* earlier, so a change can lie between the two. Every query may fail: a    *)
(* change that fails half way leaves the rows it has written, and neither   *)
(* the gate nor the schedule is told of them.                               *)
(***************************************************************************)
EXTENDS Naturals, FiniteSets

CONSTANTS
    SettingsCalls,  \* HTTP calls
    Intervals,      \* values of updateCheckIntervalMinutes
    SettingsTtl,    \* SETTINGS_CACHE_TTL_MS and the gate's CACHE_TTL_MS, in ticks
    MaxPuts         \* bound on PUT /settings

ASSUME SettingsAssumption == SettingsTtl \in Nat /\ Intervals # {} /\ MaxPuts \in Nat

VARIABLES
    stored,         \* the rows of the table Setting
    settingsCache,  \* settingsCache: the values, whose defaults they have, their age
    gate,           \* the gate's cache
    generation,     \* the gate's generation
    jobInterval,    \* the interval whose cron expression the update_check job has
    settingsCall,   \* what each call has read and where it stands
    puts,           \* PUT /settings so far
    crossedPuts,    \* history: two changes of the interval were under way at once
    dropped         \* history: the settings a failed PUT has written without going on to the
                    \* gate or the schedule, until either has caught up

settingsVars == <<stored, settingsCache, gate, generation, jobInterval, settingsCall, puts,
                  crossedPuts, dropped>>

SettingKeys == {"interval", "auth"}
Values == [interval : Intervals, auth : BOOLEAN]
FirstInterval == CHOOSE i \in Intervals : TRUE
FirstValues == [interval |-> FirstInterval, auth |-> TRUE]

\* An entry whose age has reached SettingsTtl is never used again.
NoSettings == [value |-> FirstValues, env |-> FALSE, age |-> SettingsTtl]
NoGate == [value |-> TRUE, age |-> SettingsTtl]
NoRequest == [pc |-> "idle", put |-> FALSE, patch |-> {}, left |-> {}, to |-> FirstValues,
              seen |-> FirstValues, gen |-> 0]

SettingsInit ==
    /\ stored = FirstValues
    /\ settingsCache = NoSettings /\ gate = NoGate /\ generation = 0
    /\ jobInterval = FirstInterval
    /\ settingsCall = [c \in SettingsCalls |-> NoRequest]
    /\ puts = 0 /\ crossedPuts = FALSE /\ dropped = {}

FreshSettings(entry) == entry.age < SettingsTtl
Becomes(c, request) == settingsCall' = [settingsCall EXCEPT ![c] = request]

----------------------------------------------------------------------------
(* getSettings: from the cache, or from the table and into the cache. *)

\* GET /settings, whose defaults come from the environment; a hit changes nothing.
GetMiss(c) ==
    /\ settingsCall[c].pc = "idle"
    /\ ~(FreshSettings(settingsCache) /\ settingsCache.env)
    /\ Becomes(c, [NoRequest EXCEPT !.pc = "ask"])
    /\ UNCHANGED <<stored, settingsCache, gate, generation, jobInterval, puts, crossedPuts,
                   dropped>>

TableRead(c) ==
    /\ settingsCall[c].pc = "ask"
    /\ settingsCall' = [settingsCall EXCEPT ![c] =
                          [settingsCall[c] EXCEPT !.pc = "read", !.seen = stored]]
    /\ UNCHANGED <<stored, settingsCache, gate, generation, jobInterval, puts, crossedPuts,
                   dropped>>

\* The entry is dated by the moment it is stored, whatever has been written since
\* the table was read.
Filled(c) == [value |-> settingsCall[c].seen, env |-> ~settingsCall[c].put, age |-> 0]

GetFill(c) ==
    /\ settingsCall[c].pc = "read" /\ ~settingsCall[c].put
    /\ settingsCache' = Filled(c)
    /\ Becomes(c, NoRequest)
    /\ UNCHANGED <<stored, gate, generation, jobInterval, puts, crossedPuts, dropped>>

----------------------------------------------------------------------------
(* isAuthEnabled *)

GateMiss(c) ==
    /\ settingsCall[c].pc = "idle"
    /\ ~FreshSettings(gate)
    /\ Becomes(c, [NoRequest EXCEPT !.pc = "gate ask", !.gen = generation])
    /\ UNCHANGED <<stored, settingsCache, gate, generation, jobInterval, puts, crossedPuts,
                   dropped>>

GateRead(c) ==
    /\ settingsCall[c].pc = "gate ask"
    /\ settingsCall' = [settingsCall EXCEPT ![c] =
                          [settingsCall[c] EXCEPT !.pc = "gate read", !.seen = stored]]
    /\ UNCHANGED <<stored, settingsCache, gate, generation, jobInterval, puts, crossedPuts,
                   dropped>>

\* The variant without the generation.
MayAlwaysCache(c) == TRUE

\* A toggle while the row was being read must not restore the old value.
MayCache(c) == settingsCall[c].gen = generation

GateFill(c) ==
    /\ settingsCall[c].pc = "gate read"
    /\ gate' = IF MayCache(c) THEN [value |-> settingsCall[c].seen.auth, age |-> 0] ELSE gate
    /\ Becomes(c, NoRequest)
    /\ UNCHANGED <<stored, settingsCache, generation, jobInterval, puts, crossedPuts, dropped>>

----------------------------------------------------------------------------
(* PUT /settings: the rows, the caches, the schedule. *)

ChangesInterval(c) == settingsCall[c].put /\ "interval" \in settingsCall[c].patch

\* A patch names the settings it changes and their values; to holds the values.
PutBegin(c) ==
    /\ settingsCall[c].pc = "idle"
    /\ puts < MaxPuts
    /\ puts' = puts + 1
    /\ \E patch \in SUBSET SettingKeys \ {{}}, to \in Values :
         /\ \A k \in SettingKeys \ patch : to[k] = FirstValues[k]
         /\ Becomes(c, [NoRequest EXCEPT !.pc = "write", !.put = TRUE, !.patch = patch,
                                         !.left = patch, !.to = to])
         /\ crossedPuts' = \/ crossedPuts
                           \/ /\ "interval" \in patch
                              /\ \E d \in SettingsCalls : ChangesInterval(d)
    /\ UNCHANGED <<stored, settingsCache, gate, generation, jobInterval, dropped>>

\* The rows are written side by side, each by an upsert of its own.
PutWrite(c) ==
    /\ settingsCall[c].pc = "write"
    /\ \E k \in settingsCall[c].left :
         LET left == settingsCall[c].left \ {k}
         IN  /\ stored' = [stored EXCEPT ![k] = settingsCall[c].to[k]]
             /\ settingsCall' = [settingsCall EXCEPT
                  ![c] = [settingsCall[c] EXCEPT !.left = left, !.to[k] = FirstValues[k],
                                                 !.pc = IF left = {} THEN "written" ELSE "write"]]
    /\ UNCHANGED <<settingsCache, gate, generation, jobInterval, puts, crossedPuts, dropped>>

\* What is under way of a PUT that has been answered with a failure: its other upserts,
\* which nobody waits for.
Abandoned(c, k) ==
    LET left == settingsCall[c].left \ {k}
    IN  IF left = {} THEN NoRequest
        ELSE [settingsCall[c] EXCEPT !.pc = "abandoned", !.patch = left, !.left = left,
                                     !.to[k] = FirstValues[k]]

\* An upsert fails, and with it the PUT: no cache is cleared and nobody is told.
WriteFails(c) ==
    /\ settingsCall[c].pc \in {"write", "abandoned"}
    /\ \E k \in settingsCall[c].left : Becomes(c, Abandoned(c, k))
    /\ dropped' = dropped \cup (settingsCall[c].patch \ settingsCall[c].left)
    /\ UNCHANGED <<stored, settingsCache, gate, generation, jobInterval, puts, crossedPuts>>

LateWrite(c) ==
    /\ settingsCall[c].pc = "abandoned"
    /\ \E k \in settingsCall[c].left :
         /\ stored' = [stored EXCEPT ![k] = settingsCall[c].to[k]]
         /\ Becomes(c, Abandoned(c, k))
         /\ dropped' = dropped \cup {k}
    /\ UNCHANGED <<settingsCache, gate, generation, jobInterval, puts, crossedPuts>>

ClearedSettings == NoSettings

\* clearSettingsCache, and getSettings in the same breath.
PutClear(c) ==
    /\ settingsCall[c].pc = "written"
    /\ settingsCache' = ClearedSettings
    /\ settingsCall' = [settingsCall EXCEPT
         ![c] = [settingsCall[c] EXCEPT
                   !.pc = IF FreshSettings(settingsCache') /\ ~settingsCache'.env
                          THEN "read" ELSE "ask",
                   !.seen = settingsCache'.value]]
    /\ UNCHANGED <<stored, gate, generation, jobInterval, puts, crossedPuts, dropped>>

\* updateSettings has returned: the gate is invalidated, and a changed interval goes
\* to the schedule with the value that was read back.
PutFill(c) ==
    /\ settingsCall[c].pc = "read" /\ settingsCall[c].put
    /\ settingsCache' = Filled(c)
    /\ IF "auth" \in settingsCall[c].patch
       THEN gate' = NoGate /\ generation' = generation + 1 /\ dropped' = dropped \ {"auth"}
       ELSE UNCHANGED <<gate, generation, dropped>>
    /\ IF ChangesInterval(c)
       THEN settingsCall' = [settingsCall EXCEPT ![c].pc = "jobs"]
       ELSE Becomes(c, NoRequest)
    /\ UNCHANGED <<stored, jobInterval, puts, crossedPuts>>

\* listJobs, and updateJob if the job's expression is another.
FindJob(c) ==
    /\ settingsCall[c].pc = "jobs"
    /\ IF jobInterval = settingsCall[c].seen.interval
       THEN Becomes(c, NoRequest) /\ dropped' = dropped \ {"interval"}
       ELSE settingsCall' = [settingsCall EXCEPT ![c].pc = "cron"] /\ UNCHANGED dropped
    /\ UNCHANGED <<stored, settingsCache, gate, generation, jobInterval, puts, crossedPuts>>

UpdateJob(c) ==
    /\ settingsCall[c].pc = "cron"
    /\ jobInterval' = settingsCall[c].seen.interval
    /\ Becomes(c, NoRequest)
    /\ dropped' = dropped \ {"interval"}
    /\ UNCHANGED <<stored, settingsCache, gate, generation, puts, crossedPuts>>

\* listJobs or updateJob fails when the rows are written: the old schedule stays.
JobFails(c) ==
    /\ settingsCall[c].pc \in {"jobs", "cron"}
    /\ Becomes(c, NoRequest)
    /\ dropped' = dropped \cup {"interval"}
    /\ UNCHANGED <<stored, settingsCache, gate, generation, jobInterval, puts, crossedPuts>>

\* A read of the table fails: also the one of a PUT whose rows are written.
ReadFails(c) ==
    /\ settingsCall[c].pc \in {"ask", "gate ask"}
    /\ Becomes(c, NoRequest)
    /\ dropped' = dropped \cup settingsCall[c].patch
    /\ UNCHANGED <<stored, settingsCache, gate, generation, jobInterval, puts, crossedPuts>>

----------------------------------------------------------------------------
(* Time, and the requests together. *)

OlderSettings(entry, none) ==
    IF entry.age + 1 >= SettingsTtl THEN none ELSE [entry EXCEPT !.age = @ + 1]

\* A switch of the login of which the gate was not told is caught up with when the gate's
\* answer has expired and no request holds an older one.
SettingsTick ==
    /\ settingsCache' = OlderSettings(settingsCache, NoSettings)
    /\ gate' = OlderSettings(gate, NoGate)
    /\ dropped' = IF \/ FreshSettings(gate')
                     \/ \E c \in SettingsCalls : settingsCall[c].pc = "gate read"
                  THEN dropped ELSE dropped \ {"auth"}
    /\ UNCHANGED <<stored, generation, jobInterval, settingsCall, puts, crossedPuts>>

Serve(c) ==
    \/ TableRead(c) \/ GetFill(c) \/ GateRead(c) \/ GateFill(c)
    \/ PutWrite(c) \/ PutClear(c) \/ PutFill(c) \/ FindJob(c) \/ UpdateJob(c)
    \/ WriteFails(c) \/ LateWrite(c) \/ ReadFails(c) \/ JobFails(c)

SettingsNext ==
    \/ \E c \in SettingsCalls : GetMiss(c) \/ GateMiss(c) \/ PutBegin(c) \/ Serve(c)
    \/ SettingsTick

SettingsSpec == SettingsInit /\ [][SettingsNext]_settingsVars

----------------------------------------------------------------------------
\* Rows, caches and calls have their types (settings.service.ts:62, auth-gate.ts:11).
SettingsTypeOK ==
    /\ stored \in Values
    /\ settingsCache \in [value : Values, env : BOOLEAN, age : 0 .. SettingsTtl]
    /\ gate \in [value : BOOLEAN, age : 0 .. SettingsTtl]
    /\ generation \in 0 .. MaxPuts /\ jobInterval \in Intervals
    /\ settingsCall \in
         [SettingsCalls ->
            [pc : {"idle", "ask", "read", "gate ask", "gate read", "write", "written",
                   "abandoned", "jobs", "cron"},
             put : BOOLEAN, patch : SUBSET SettingKeys, left : SUBSET SettingKeys, to : Values,
             seen : Values, gen : Nat]]
    /\ puts \in 0 .. MaxPuts /\ crossedPuts \in BOOLEAN /\ dropped \subseteq SettingKeys

\* The setting is in its row and the PUT that wrote it has not yet told of it.
Untold(c, k) == settingsCall[c].put /\ k \in settingsCall[c].patch \ settingsCall[c].left

\* Once every toggle that has been written has also reached its invalidation, the gate's
\* cache agrees with the table: no answer read before the toggle is kept after it. A toggle
\* whose PUT failed before the invalidation is the exception, until the answer expires.
GateNeverStale ==
    "auth" \notin dropped
    /\ (\A c \in SettingsCalls : Untold(c, "auth") => settingsCall[c].pc \in {"jobs", "cron"})
      => (FreshSettings(gate) => gate.value = stored.auth)

\* Once every interval that has been written has also reached the schedule, the update check
\* runs at the interval that is stored, unless two changes of the interval have crossed or a
\* PUT failed between the row and the schedule and none has succeeded since.
ScheduleFollows ==
    ~crossedPuts /\ "interval" \notin dropped
    /\ (\A c \in SettingsCalls : ~Untold(c, "interval"))
      => jobInterval = stored.interval

\* A setting that has been changed takes effect: for the authentication gate at once, for
\* the update check's schedule when the change ends (settings/index.ts:63). Changes that fail
\* half way are told apart: what they have written takes effect late (settings.service.ts:167).
SettingsTakeEffect == GateNeverStale /\ ScheduleFollows
================================================================================
