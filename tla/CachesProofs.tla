-------------------------------- MODULE CachesProofs --------------------------------
(***************************************************************************)
(* What the API keeps for a while of what others may change: the settings    *)
(* with the authentication gate and the schedule derived from them, and the  *)
(* answers of Docker with the event stream that clears them.                 *)
(***************************************************************************)
EXTENDS SettingsStore, DockerClient, SequenceTheorems, FiniteSetTheorems, TLAPS

--------------------------------------------------------------------------------
\* Settings

RequestStates ==
    [pc : {"idle", "ask", "read", "gate ask", "gate read", "write", "written", "abandoned",
           "jobs", "cron"},
     put : BOOLEAN, patch : SUBSET SettingKeys, left : SUBSET SettingKeys, to : Values,
     seen : Values, gen : Nat]

SettingsTypes ==
    /\ stored \in Values
    /\ settingsCache \in [value : Values, env : BOOLEAN, age : Nat]
    /\ gate \in [value : BOOLEAN, age : Nat] /\ generation \in Nat
    /\ jobInterval \in Intervals
    /\ settingsCall \in [SettingsCalls -> RequestStates]
    /\ crossedPuts \in BOOLEAN /\ dropped \subseteq SettingKeys

\* Only a change writes rows, and those of its patch; it reads back when it has written all.
RequestsStand ==
    \A c \in SettingsCalls :
      /\ settingsCall[c].pc \in {"idle", "gate ask", "gate read"} => ~settingsCall[c].put
      /\ settingsCall[c].pc \in {"write", "written", "jobs", "cron"} => settingsCall[c].put
      /\ settingsCall[c].pc \in {"jobs", "cron"} => "interval" \in settingsCall[c].patch
      /\ settingsCall[c].pc = "abandoned"
           => settingsCall[c].put /\ settingsCall[c].left = settingsCall[c].patch
      /\ settingsCall[c].left \subseteq settingsCall[c].patch
      /\ settingsCall[c].pc \in {"read", "ask", "written", "jobs", "cron"}
           => settingsCall[c].left = {}

\* The login switch is in its row and the gate has not been told.
GateToldLater(c) ==
    /\ settingsCall[c].put /\ "auth" \in settingsCall[c].patch
    /\ "auth" \notin settingsCall[c].left /\ settingsCall[c].pc \notin {"jobs", "cron"}

\* While the gate knows of every switch, and none of a failed PUT is left, what it holds is the
\* row, and so is what a request that may fill it has read.
GateInv ==
    /\ \A c \in SettingsCalls : settingsCall[c].pc \in {"gate ask", "gate read"}
                                  => settingsCall[c].gen <= generation
    /\ "auth" \notin dropped /\ (\A c \in SettingsCalls : ~GateToldLater(c)) =>
         /\ FreshSettings(gate) => gate.value = stored.auth
         /\ \A c \in SettingsCalls :
              settingsCall[c].pc = "gate read" /\ settingsCall[c].gen = generation
                => settingsCall[c].seen.auth = stored.auth

\* Unless changes of the interval have crossed, there is one at most; until its row is written
\* the job has the stored interval, if no PUT has failed in between, and once it has read back
\* its row it has read the stored interval.
ScheduleInv ==
    ~crossedPuts =>
      /\ \A c, d \in SettingsCalls : ChangesInterval(c) /\ ChangesInterval(d) => c = d
      /\ "interval" \notin dropped /\ (\A c \in SettingsCalls : ~Untold(c, "interval"))
           => jobInterval = stored.interval
      /\ \A c \in SettingsCalls :
           ChangesInterval(c) /\ settingsCall[c].pc \in {"read", "jobs", "cron"}
             => settingsCall[c].seen.interval = stored.interval

SettingsIInv == SettingsTypes /\ RequestsStand /\ GateInv /\ ScheduleInv

LEMMA FirstSettings ==
    /\ FirstInterval \in Intervals /\ FirstValues \in Values
    /\ NoRequest \in RequestStates /\ NoRequest.pc = "idle" /\ ~NoRequest.put
    /\ NoRequest.patch = {} /\ NoRequest.left = {}
    /\ NoSettings \in [value : Values, env : BOOLEAN, age : Nat] /\ ~FreshSettings(NoSettings)
    /\ NoGate \in [value : BOOLEAN, age : Nat] /\ ~FreshSettings(NoGate)
<1>1. FirstInterval \in Intervals
  BY SettingsAssumption DEF FirstInterval
<1>2. FirstValues \in Values
  BY <1>1 DEF FirstValues, Values
<1> QED
  BY <1>1, <1>2, SettingsAssumption
     DEF NoRequest, RequestStates, NoSettings, NoGate, FreshSettings

LEMMA SettingsStart == SettingsInit => SettingsIInv
<1> SUFFICES ASSUME SettingsInit PROVE SettingsIInv
  OBVIOUS
<1>1. SettingsTypes
  BY FirstSettings DEF SettingsInit, SettingsTypes
<1>2. RequestsStand /\ GateInv
  BY FirstSettings DEF SettingsInit, RequestsStand, GateInv
<1>3. ScheduleInv
  BY FirstSettings DEF SettingsInit, ScheduleInv, ChangesInterval, Untold, FirstValues
<1> QED
  BY <1>1, <1>2, <1>3 DEF SettingsIInv

LEMMA Moves ==
    ASSUME SettingsTypes, NEW c \in SettingsCalls, NEW request \in RequestStates,
           settingsCall' = [settingsCall EXCEPT ![c] = request]
    PROVE  /\ settingsCall' \in [SettingsCalls -> RequestStates] /\ settingsCall'[c] = request
           /\ \A d \in SettingsCalls \ {c} : settingsCall'[d] = settingsCall[d]
BY DEF SettingsTypes

\* A call moves that neither writes a row nor tells the gate or the schedule.
LEMMA QuietKeeps ==
    ASSUME SettingsIInv, NEW c \in SettingsCalls, NEW request \in RequestStates,
           settingsCall' = [settingsCall EXCEPT ![c] = request],
           UNCHANGED <<stored, gate, generation, jobInterval, crossedPuts, dropped>>,
           settingsCache' \in [value : Values, env : BOOLEAN, age : Nat],
           request.put = settingsCall[c].put, request.patch = settingsCall[c].patch \/ ~request.put,
           request.left = settingsCall[c].left \/ (~request.put /\ request.left = {}),
           request.left \subseteq request.patch, request.pc # "abandoned",
           settingsCall[c].pc \notin {"jobs", "cron"}, request.pc \notin {"jobs", "cron"},
           request.pc \in {"idle", "gate ask", "gate read"} => ~request.put,
           request.pc \in {"write", "written"} => request.put,
           request.pc \in {"read", "ask", "written"} => request.left = {},
           request.pc \in {"gate ask", "gate read"} => request.gen <= generation,
           request.pc = "gate read" => request.seen = stored,
           request.put /\ request.pc = "read" => request.seen = stored
    PROVE  SettingsIInv'
<1> USE DEF SettingsIInv
<1>1. /\ settingsCall' \in [SettingsCalls -> RequestStates] /\ settingsCall'[c] = request
      /\ \A d \in SettingsCalls \ {c} : settingsCall'[d] = settingsCall[d]
  BY Moves
<1>2. SettingsTypes'
  BY <1>1 DEF SettingsTypes
<1>3. RequestsStand'
  BY <1>1 DEF RequestsStand
<1>4. GateInv'
  <2>1. \A d \in SettingsCalls : GateToldLater(d)' <=> GateToldLater(d)
    BY <1>1 DEF GateToldLater
  <2>2. FreshSettings(gate)' <=> FreshSettings(gate)
    BY DEF FreshSettings
  <2> QED
    BY <1>1, <2>1, <2>2 DEF GateInv
<1>5. ScheduleInv'
  <2>1. \A d \in SettingsCalls : ChangesInterval(d)' <=> ChangesInterval(d)
    BY <1>1 DEF ChangesInterval
  <2>2. ChangesInterval(c) => request.put
    BY DEF ChangesInterval
  <2>3. \A d \in SettingsCalls : Untold(d, "interval")' <=> Untold(d, "interval")
    BY <1>1 DEF Untold
  <2> QED
    BY <1>1, <2>1, <2>2, <2>3 DEF ScheduleInv
<1> QED
  BY <1>2, <1>3, <1>4, <1>5

LEMMA GetStep ==
    ASSUME SettingsIInv, NEW c \in SettingsCalls, GetMiss(c) \/ TableRead(c) \/ GetFill(c)
    PROVE  SettingsIInv'
<1> USE DEF SettingsIInv
<1>0. settingsCall[c] \in RequestStates /\ stored \in Values
  BY DEF SettingsTypes
<1>1. CASE GetMiss(c)
  <2> DEFINE request == [NoRequest EXCEPT !.pc = "ask"]
  <2>1. /\ request \in RequestStates /\ request.pc = "ask" /\ ~request.put
        /\ request.put = FALSE /\ request.left = {} /\ request.patch = {}
    BY FirstSettings DEF RequestStates, NoRequest
  <2>2. /\ settingsCall' = [settingsCall EXCEPT ![c] = request] /\ settingsCall[c].pc = "idle"
        /\ UNCHANGED <<stored, settingsCache, gate, generation, jobInterval, crossedPuts,
                        dropped>>
    BY <1>1 DEF GetMiss, Becomes
  <2>3. settingsCall[c].put = FALSE
    BY <1>0, <2>2 DEF RequestsStand, RequestStates
  <2>4. settingsCache' \in [value : Values, env : BOOLEAN, age : Nat]
    BY <2>2 DEF SettingsTypes
  <2> HIDE DEF request
  <2> QED
    BY <2>1, <2>2, <2>3, <2>4, QuietKeeps
<1>2. CASE TableRead(c)
  <2> DEFINE request == [settingsCall[c] EXCEPT !.pc = "read", !.seen = stored]
  <2>1. /\ request \in RequestStates /\ request.pc = "read" /\ request.seen = stored
        /\ request.put = settingsCall[c].put /\ request.left = settingsCall[c].left
        /\ request.patch = settingsCall[c].patch
    BY <1>0 DEF RequestStates
  <2>2. /\ settingsCall' = [settingsCall EXCEPT ![c] = request] /\ settingsCall[c].pc = "ask"
        /\ UNCHANGED <<stored, settingsCache, gate, generation, jobInterval, crossedPuts,
                        dropped>>
    BY <1>2 DEF TableRead, SettingsTypes
  <2>3. settingsCall[c].left = {} /\ settingsCall[c].left \subseteq settingsCall[c].patch
    BY <2>2 DEF RequestsStand
  <2>4. settingsCache' \in [value : Values, env : BOOLEAN, age : Nat]
    BY <2>2 DEF SettingsTypes
  <2> HIDE DEF request
  <2> QED
    BY <2>1, <2>2, <2>3, <2>4, QuietKeeps
<1>3. CASE GetFill(c)
  <2>1. /\ settingsCall' = [settingsCall EXCEPT ![c] = NoRequest] /\ settingsCall[c].pc = "read"
        /\ settingsCall[c].put = FALSE
        /\ UNCHANGED <<stored, gate, generation, jobInterval, crossedPuts, dropped>>
    BY <1>0, <1>3 DEF GetFill, Becomes, RequestStates
  <2>2. NoRequest.put = FALSE
    BY DEF NoRequest
  <2>3. settingsCache' \in [value : Values, env : BOOLEAN, age : Nat]
    BY <1>0, <1>3 DEF GetFill, Filled, RequestStates
  <2> QED
    BY <2>1, <2>2, <2>3, FirstSettings, QuietKeeps
<1> QED
  BY <1>1, <1>2, <1>3

LEMMA GateStep ==
    ASSUME SettingsIInv, NEW c \in SettingsCalls, GateMiss(c) \/ GateRead(c) \/ GateFill(c)
    PROVE  SettingsIInv'
<1> USE DEF SettingsIInv
<1>0. settingsCall[c] \in RequestStates /\ stored \in Values /\ generation \in Nat
  BY DEF SettingsTypes
<1>1. CASE GateMiss(c)
  <2> DEFINE request == [NoRequest EXCEPT !.pc = "gate ask", !.gen = generation]
  <2>1. /\ request \in RequestStates /\ request.pc = "gate ask" /\ request.gen = generation
        /\ request.put = FALSE /\ request.left = {} /\ request.patch = {}
    BY <1>0, FirstSettings DEF RequestStates, NoRequest
  <2>2. /\ settingsCall' = [settingsCall EXCEPT ![c] = request] /\ settingsCall[c].pc = "idle"
        /\ UNCHANGED <<stored, settingsCache, gate, generation, jobInterval, crossedPuts,
                        dropped>>
    BY <1>1 DEF GateMiss, Becomes
  <2>3. settingsCall[c].put = FALSE
    BY <1>0, <2>2 DEF RequestsStand, RequestStates
  <2>4. settingsCache' \in [value : Values, env : BOOLEAN, age : Nat] /\ generation <= generation
    BY <1>0, <2>2 DEF SettingsTypes
  <2> HIDE DEF request
  <2> QED
    BY <2>1, <2>2, <2>3, <2>4, QuietKeeps
<1>2. CASE GateRead(c)
  <2> DEFINE request == [settingsCall[c] EXCEPT !.pc = "gate read", !.seen = stored]
  <2>1. /\ request \in RequestStates /\ request.pc = "gate read" /\ request.seen = stored
        /\ request.put = settingsCall[c].put /\ request.left = settingsCall[c].left
        /\ request.patch = settingsCall[c].patch /\ request.gen = settingsCall[c].gen
    BY <1>0 DEF RequestStates
  <2>2. /\ settingsCall' = [settingsCall EXCEPT ![c] = request] /\ settingsCall[c].pc = "gate ask"
        /\ UNCHANGED <<stored, settingsCache, gate, generation, jobInterval, crossedPuts,
                        dropped>>
    BY <1>2 DEF GateRead, SettingsTypes
  <2>3. /\ ~settingsCall[c].put /\ settingsCall[c].left \subseteq settingsCall[c].patch
        /\ settingsCall[c].gen <= generation
    BY <2>2 DEF RequestsStand, GateInv
  <2>4. settingsCache' \in [value : Values, env : BOOLEAN, age : Nat]
    BY <2>2 DEF SettingsTypes
  <2> HIDE DEF request
  <2> QED
    BY <2>1, <2>2, <2>3, <2>4, QuietKeeps
<1>3. CASE GateFill(c)
  <2>1. /\ settingsCall' = [settingsCall EXCEPT ![c] = NoRequest]
        /\ settingsCall[c].pc = "gate read" /\ ~settingsCall[c].put
        /\ UNCHANGED <<stored, settingsCache, generation, jobInterval, crossedPuts, dropped>>
    BY <1>3 DEF GateFill, Becomes, RequestsStand
  <2>2. /\ settingsCall' \in [SettingsCalls -> RequestStates] /\ settingsCall'[c] = NoRequest
        /\ \A d \in SettingsCalls \ {c} : settingsCall'[d] = settingsCall[d]
    BY <2>1, FirstSettings, Moves
  <2>3. gate' \in [value : BOOLEAN, age : Nat]
    BY <1>0, <1>3 DEF GateFill, RequestStates, Values, SettingsTypes
  <2>4. SettingsTypes'
    BY <2>1, <2>2, <2>3 DEF SettingsTypes
  <2>5. RequestsStand'
    BY <2>2, FirstSettings DEF RequestsStand
  <2>6. GateInv'
    <3>1. \A d \in SettingsCalls : GateToldLater(d)' <=> GateToldLater(d)
      BY <2>1, <2>2, FirstSettings DEF GateToldLater
    <3>2. \/ gate' = gate
          \/ gate'.value = settingsCall[c].seen.auth /\ settingsCall[c].gen = generation
      BY <1>3 DEF GateFill, MayCache
    <3>3. "auth" \notin dropped /\ (\A d \in SettingsCalls : ~GateToldLater(d))
            /\ FreshSettings(gate') => gate'.value = stored.auth
      BY <2>1, <3>2 DEF GateInv
    <3> QED
      BY <2>1, <2>2, <3>1, <3>3, FirstSettings DEF GateInv
  <2>7. ScheduleInv'
    <3>1. \A d \in SettingsCalls : ChangesInterval(d)' <=> ChangesInterval(d)
      BY <2>1, <2>2, FirstSettings DEF ChangesInterval
    <3>2. ~ChangesInterval(c)
      BY <2>1 DEF ChangesInterval
    <3>3. \A d \in SettingsCalls : Untold(d, "interval")' <=> Untold(d, "interval")
      BY <2>1, <2>2, FirstSettings DEF Untold
    <3> QED
      BY <2>1, <2>2, <3>1, <3>2, <3>3 DEF ScheduleInv
  <2> QED
    BY <2>4, <2>5, <2>6, <2>7
<1> QED
  BY <1>1, <1>2, <1>3

LEMMA PutBeginStep ==
    ASSUME SettingsIInv, NEW c \in SettingsCalls, PutBegin(c)
    PROVE  SettingsIInv'
<1> USE DEF SettingsIInv
<1>1. PICK patch \in SUBSET SettingKeys \ {{}}, to \in Values :
         /\ settingsCall' = [settingsCall EXCEPT ![c] =
               [NoRequest EXCEPT !.pc = "write", !.put = TRUE, !.patch = patch,
                                 !.left = patch, !.to = to]]
         /\ crossedPuts' = \/ crossedPuts
                           \/ /\ "interval" \in patch
                              /\ \E d \in SettingsCalls : ChangesInterval(d)
  BY DEF PutBegin, Becomes
<1> DEFINE request == [NoRequest EXCEPT !.pc = "write", !.put = TRUE, !.patch = patch,
                                        !.left = patch, !.to = to]
<1>2. /\ request \in RequestStates /\ request.pc = "write" /\ request.put = TRUE
      /\ request.patch = patch /\ request.left = patch
  BY FirstSettings DEF RequestStates, NoRequest
<1>3. UNCHANGED <<stored, settingsCache, gate, generation, jobInterval, dropped>>
      /\ settingsCall[c].pc = "idle" /\ ~settingsCall[c].put
  BY DEF PutBegin, RequestsStand
<1> HIDE DEF request
<1>4. /\ settingsCall' \in [SettingsCalls -> RequestStates] /\ settingsCall'[c] = request
      /\ \A d \in SettingsCalls \ {c} : settingsCall'[d] = settingsCall[d]
  BY <1>1, <1>2, Moves DEF request
<1>5. SettingsTypes'
  <2>1. crossedPuts' \in BOOLEAN
    BY <1>1 DEF SettingsTypes
  <2> QED
    BY <1>3, <1>4, <2>1 DEF SettingsTypes
<1>6. RequestsStand'
  BY <1>2, <1>4 DEF RequestsStand
<1>7. GateInv'
  <2>1. \A d \in SettingsCalls : GateToldLater(d)' <=> GateToldLater(d)
    BY <1>2, <1>3, <1>4 DEF GateToldLater
  <2> QED
    BY <1>2, <1>3, <1>4, <2>1 DEF GateInv, FreshSettings
<1>8. ScheduleInv'
  <2>1. ~ChangesInterval(c) /\ (ChangesInterval(c)' <=> "interval" \in patch)
    BY <1>2, <1>3, <1>4 DEF ChangesInterval
  <2>2. \A d \in SettingsCalls \ {c} : ChangesInterval(d)' <=> ChangesInterval(d)
    BY <1>4 DEF ChangesInterval
  <2>3. ~crossedPuts' => /\ ~crossedPuts
                         /\ ChangesInterval(c)' => \A d \in SettingsCalls : ~ChangesInterval(d)
    BY <1>1, <2>1
  <2>4. \A d \in SettingsCalls : Untold(d, "interval")' <=> Untold(d, "interval")
    BY <1>2, <1>3, <1>4 DEF Untold
  <2> QED
    BY <1>2, <1>3, <1>4, <2>1, <2>2, <2>3, <2>4 DEF ScheduleInv
<1> QED
  BY <1>5, <1>6, <1>7, <1>8

LEMMA PutWriteStep ==
    ASSUME SettingsIInv, NEW c \in SettingsCalls, PutWrite(c)
    PROVE  SettingsIInv'
<1> USE DEF SettingsIInv
<1>0. settingsCall[c] \in RequestStates /\ stored \in Values
  BY DEF SettingsTypes
<1>1. PICK k \in settingsCall[c].left :
         LET left == settingsCall[c].left \ {k}
         IN  /\ stored' = [stored EXCEPT ![k] = settingsCall[c].to[k]]
             /\ settingsCall' = [settingsCall EXCEPT
                  ![c] = [settingsCall[c] EXCEPT !.left = left, !.to[k] = FirstValues[k],
                                                 !.pc = IF left = {} THEN "written" ELSE "write"]]
  BY DEF PutWrite
<1> DEFINE left == settingsCall[c].left \ {k}
           request == [settingsCall[c] EXCEPT
                        !.left = left, !.to = [settingsCall[c].to EXCEPT ![k] = FirstValues[k]],
                        !.pc = IF left = {} THEN "written" ELSE "write"]
<1>2. k \in SettingKeys /\ left \in SUBSET SettingKeys
  BY <1>0 DEF RequestStates
<1>3. /\ stored' \in Values
      /\ k = "auth" \/ stored'.auth = stored.auth
      /\ k = "interval" \/ stored'.interval = stored.interval
  BY <1>0, <1>1, <1>2 DEF Values, SettingKeys, RequestStates
<1>4. [settingsCall[c].to EXCEPT ![k] = FirstValues[k]] \in Values
  BY <1>0, <1>2, FirstSettings DEF Values, SettingKeys, RequestStates
<1>5. /\ request \in RequestStates /\ request.left = left
      /\ request.pc = (IF left = {} THEN "written" ELSE "write")
      /\ request.put = settingsCall[c].put /\ request.patch = settingsCall[c].patch
      /\ request.seen = settingsCall[c].seen
  BY <1>0, <1>2, <1>4 DEF RequestStates
<1>6. settingsCall' = [settingsCall EXCEPT ![c] = request]
  BY <1>0, <1>1 DEF SettingsTypes, RequestStates
<1>7. /\ UNCHANGED <<settingsCache, gate, generation, jobInterval, crossedPuts, dropped>>
      /\ settingsCall[c].pc = "write" /\ settingsCall[c].put
      /\ settingsCall[c].left \subseteq settingsCall[c].patch /\ k \in settingsCall[c].patch
  BY <1>1 DEF PutWrite, RequestsStand
<1> HIDE DEF request
<1>8. /\ settingsCall' \in [SettingsCalls -> RequestStates] /\ settingsCall'[c] = request
      /\ \A d \in SettingsCalls \ {c} : settingsCall'[d] = settingsCall[d]
  BY <1>5, <1>6, Moves
<1>9. SettingsTypes'
  BY <1>3, <1>7, <1>8 DEF SettingsTypes
<1>10. RequestsStand'
  BY ZenonT(30), <1>5, <1>7, <1>8 DEF RequestsStand
<1>11. GateInv'
  <2>1. \A d \in SettingsCalls \ {c} : GateToldLater(d)' <=> GateToldLater(d)
    BY <1>8 DEF GateToldLater
  <2>2. IF k = "auth" THEN GateToldLater(c)' ELSE GateToldLater(c)' <=> GateToldLater(c)
    BY <1>5, <1>7, <1>8 DEF GateToldLater
  <2>3. (\A d \in SettingsCalls : ~GateToldLater(d)') =>
          (\A d \in SettingsCalls : ~GateToldLater(d)) /\ stored'.auth = stored.auth
    BY <1>3, <2>1, <2>2
  <2> QED
    BY ZenonT(30), <1>5, <1>7, <1>8, <2>3 DEF GateInv, FreshSettings
<1>12. ScheduleInv'
  <2>1. \A d \in SettingsCalls : ChangesInterval(d)' <=> ChangesInterval(d)
    BY <1>5, <1>8 DEF ChangesInterval
  <2>2. k = "interval" => ChangesInterval(c)
    BY <1>7 DEF ChangesInterval
  <2>3. CASE k = "interval"
    <3>1. Untold(c, "interval")'
      BY <1>5, <1>7, <1>8, <2>3 DEF Untold
    <3>2. settingsCall'[c].pc \notin {"read", "jobs", "cron"}
      BY <1>5, <1>8
    <3> QED
      BY <1>7, <1>8, <2>1, <2>2, <2>3, <3>1, <3>2 DEF ScheduleInv
  <2>4. CASE k # "interval"
    <3>1. \A d \in SettingsCalls : Untold(d, "interval")' <=> Untold(d, "interval")
      BY <1>5, <1>7, <1>8, <2>4 DEF Untold
    <3> QED
      BY <1>3, <1>5, <1>7, <1>8, <2>1, <2>4, <3>1 DEF ScheduleInv
  <2> QED
    BY <2>3, <2>4
<1> QED
  BY <1>9, <1>10, <1>11, <1>12

LEMMA PutClearStep ==
    ASSUME SettingsIInv, NEW c \in SettingsCalls, PutClear(c)
    PROVE  SettingsIInv'
<1> USE DEF SettingsIInv
<1> DEFINE request == [settingsCall[c] EXCEPT !.pc = "ask", !.seen = NoSettings.value]
<1>0. settingsCall[c] \in RequestStates
  BY DEF SettingsTypes
<1>1. settingsCache' = NoSettings /\ NoSettings.value \in Values
  BY FirstSettings DEF PutClear, ClearedSettings
<1>2. /\ settingsCall' = [settingsCall EXCEPT ![c] = request]
      /\ settingsCall[c].pc = "written" /\ settingsCall[c].put = TRUE
      /\ settingsCall[c].left = {} /\ settingsCall[c].left \subseteq settingsCall[c].patch
      /\ UNCHANGED <<stored, gate, generation, jobInterval, crossedPuts, dropped>>
  BY <1>0, <1>1, FirstSettings DEF PutClear, SettingsTypes, RequestsStand, RequestStates
<1>3. /\ request \in RequestStates /\ request.pc = "ask" /\ request.left = settingsCall[c].left
      /\ request.put = settingsCall[c].put /\ request.patch = settingsCall[c].patch
  BY <1>0, <1>1 DEF RequestStates
<1> HIDE DEF request
<1> QED
  BY <1>1, <1>2, <1>3, FirstSettings, QuietKeeps

LEMMA PutFillStep ==
    ASSUME SettingsIInv, NEW c \in SettingsCalls, PutFill(c)
    PROVE  SettingsIInv'
<1> USE DEF SettingsIInv
<1>0. /\ settingsCall[c] \in RequestStates /\ generation \in Nat
      /\ gate \in [value : BOOLEAN, age : Nat]
  BY DEF SettingsTypes
<1> DEFINE jobs == [settingsCall[c] EXCEPT !.pc = "jobs"]
           request == IF ChangesInterval(c) THEN jobs ELSE NoRequest
<1>1. /\ jobs \in RequestStates /\ jobs.pc = "jobs" /\ jobs.left = settingsCall[c].left
      /\ jobs.put = settingsCall[c].put /\ jobs.patch = settingsCall[c].patch
      /\ jobs.seen = settingsCall[c].seen
  BY <1>0 DEF RequestStates
<1>2. /\ settingsCall' = [settingsCall EXCEPT ![c] = request]
      /\ settingsCall[c].pc = "read" /\ settingsCall[c].put /\ settingsCall[c].left = {}
      /\ UNCHANGED <<stored, jobInterval, crossedPuts>>
      /\ dropped' \subseteq dropped /\ dropped \ {"auth"} \subseteq dropped'
  BY <1>0 DEF PutFill, SettingsTypes, RequestsStand, Becomes
<1>3. /\ request \in RequestStates
      /\ IF ChangesInterval(c)
         THEN /\ request.pc = "jobs" /\ request.left = settingsCall[c].left /\ request.put
              /\ request.patch = settingsCall[c].patch /\ request.seen = settingsCall[c].seen
         ELSE /\ request.pc = "idle" /\ ~request.put /\ request.left = {} /\ request.patch = {}
  BY <1>1, <1>2, FirstSettings
<1>4. IF "auth" \in settingsCall[c].patch
      THEN gate' = NoGate /\ generation' = generation + 1
      ELSE UNCHANGED <<gate, generation, dropped>>
  BY DEF PutFill
<1> HIDE DEF request, jobs
<1>5. /\ settingsCall' \in [SettingsCalls -> RequestStates] /\ settingsCall'[c] = request
      /\ \A d \in SettingsCalls \ {c} : settingsCall'[d] = settingsCall[d]
  BY <1>2, <1>3, Moves
<1>6. SettingsTypes'
  <2>1. settingsCache' \in [value : Values, env : BOOLEAN, age : Nat]
    BY <1>0 DEF PutFill, Filled, RequestStates
  <2> QED
    BY <1>0, <1>2, <1>4, <1>5, <2>1, FirstSettings DEF SettingsTypes
<1>7. RequestsStand'
  <2>1. ChangesInterval(c) => "interval" \in settingsCall[c].patch
    BY DEF ChangesInterval
  <2> QED
    BY <1>2, <1>3, <1>5, <2>1 DEF RequestsStand
<1>8. GateInv'
  <2>1. \A d \in SettingsCalls \ {c} : settingsCall[d].gen \in Nat
    BY DEF SettingsTypes, RequestStates
  <2>2. CASE "auth" \in settingsCall[c].patch
    <3>1. gate' = NoGate /\ generation' = generation + 1
      BY <1>4, <2>2
    <3>2. ASSUME NEW d \in SettingsCalls, settingsCall'[d].pc \in {"gate ask", "gate read"}
          PROVE  settingsCall'[d].gen <= generation' /\ settingsCall'[d].gen # generation'
      <4>1. d # c
        BY <1>3, <1>5, <3>2
      <4>2. settingsCall'[d] = settingsCall[d] /\ settingsCall[d].gen \in Nat
        BY <1>5, <2>1, <4>1
      <4>3. settingsCall[d].gen <= generation
        BY <3>2, <4>2 DEF GateInv
      <4> QED
        BY <1>0, <3>1, <4>2, <4>3
    <3> QED
      BY <3>1, <3>2, FirstSettings DEF GateInv, FreshSettings
  <2>3. CASE "auth" \notin settingsCall[c].patch
    <3>1. \A d \in SettingsCalls : GateToldLater(d)' <=> GateToldLater(d)
      BY <1>3, <1>5, <2>3 DEF GateToldLater
    <3> QED
      BY <1>2, <1>3, <1>4, <1>5, <2>3, <3>1 DEF GateInv, FreshSettings
  <2> QED
    BY <2>2, <2>3
<1>9. ScheduleInv'
  <2>1. \A d \in SettingsCalls : ChangesInterval(d)' <=> ChangesInterval(d)
    BY <1>2, <1>3, <1>5 DEF ChangesInterval
  <2>2. \A d \in SettingsCalls : Untold(d, "interval")' <=> Untold(d, "interval")
    BY <1>2, <1>3, <1>5 DEF ChangesInterval, Untold
  <2> QED
    BY <1>2, <1>3, <1>5, <2>1, <2>2 DEF ScheduleInv
<1> QED
  BY <1>6, <1>7, <1>8, <1>9

LEMMA ScheduleStep ==
    ASSUME SettingsIInv, NEW c \in SettingsCalls, FindJob(c) \/ UpdateJob(c)
    PROVE  SettingsIInv'
<1> USE DEF SettingsIInv
<1>0. settingsCall[c] \in RequestStates
  BY DEF SettingsTypes
<1>1. /\ settingsCall[c].pc \in {"jobs", "cron"} /\ settingsCall[c].put
      /\ "interval" \in settingsCall[c].patch
      /\ UNCHANGED <<stored, settingsCache, gate, generation, crossedPuts>>
  BY DEF FindJob, UpdateJob, RequestsStand
<1>2. CASE FindJob(c) /\ jobInterval # settingsCall[c].seen.interval
  <2> DEFINE request == [settingsCall[c] EXCEPT !.pc = "cron"]
  <2>1. /\ request \in RequestStates /\ request.pc = "cron" /\ request.left = settingsCall[c].left
        /\ request.put = settingsCall[c].put /\ request.patch = settingsCall[c].patch
        /\ request.seen = settingsCall[c].seen
    BY <1>0 DEF RequestStates
  <2>2. settingsCall' = [settingsCall EXCEPT ![c] = request]
        /\ UNCHANGED <<jobInterval, dropped>>
    BY <1>0, <1>2 DEF FindJob, SettingsTypes
  <2> HIDE DEF request
  <2>3. /\ settingsCall' \in [SettingsCalls -> RequestStates] /\ settingsCall'[c] = request
        /\ \A d \in SettingsCalls \ {c} : settingsCall'[d] = settingsCall[d]
    BY <2>1, <2>2, Moves
  <2>4. SettingsTypes' /\ RequestsStand'
    BY <1>1, <2>1, <2>2, <2>3 DEF SettingsTypes, RequestsStand
  <2>5. GateInv'
    <3>1. \A d \in SettingsCalls : GateToldLater(d)' <=> GateToldLater(d)
      BY <1>1, <2>1, <2>3 DEF GateToldLater
    <3> QED
      BY ZenonT(30), <1>1, <2>1, <2>2, <2>3, <3>1 DEF GateInv, FreshSettings
  <2>6. ScheduleInv'
    <3>1. \A d \in SettingsCalls : ChangesInterval(d)' <=> ChangesInterval(d)
      BY <2>1, <2>3 DEF ChangesInterval
    <3>2. \A d \in SettingsCalls : Untold(d, "interval")' <=> Untold(d, "interval")
      BY <2>1, <2>3 DEF Untold
    <3> QED
      BY <1>1, <2>1, <2>2, <2>3, <3>1, <3>2 DEF ScheduleInv
  <2> QED
    BY <2>4, <2>5, <2>6
<1>3. CASE UpdateJob(c) \/ (FindJob(c) /\ jobInterval = settingsCall[c].seen.interval)
  <2>1. /\ settingsCall' = [settingsCall EXCEPT ![c] = NoRequest]
        /\ jobInterval' = settingsCall[c].seen.interval /\ dropped' = dropped \ {"interval"}
    BY <1>3 DEF FindJob, UpdateJob, Becomes
  <2>2. jobInterval' \in Intervals
    BY <1>0, <2>1 DEF RequestStates, Values
  <2>3. /\ settingsCall' \in [SettingsCalls -> RequestStates] /\ settingsCall'[c] = NoRequest
        /\ \A d \in SettingsCalls \ {c} : settingsCall'[d] = settingsCall[d]
    BY <2>1, FirstSettings, Moves
  <2>4. SettingsTypes' /\ RequestsStand'
    BY <1>1, <2>1, <2>2, <2>3, FirstSettings DEF SettingsTypes, RequestsStand
  <2>5. GateInv'
    <3>1. \A d \in SettingsCalls : GateToldLater(d)' <=> GateToldLater(d)
      BY <1>1, <2>3, FirstSettings DEF GateToldLater
    <3>2. "auth" \notin dropped' => "auth" \notin dropped
      BY <2>1
    <3> QED
      BY ZenonT(30), <1>1, <2>3, <3>1, <3>2, FirstSettings DEF GateInv, FreshSettings
  <2>6. ScheduleInv'
    <3>1. /\ ~ChangesInterval(c)'
          /\ \A d \in SettingsCalls \ {c} : ChangesInterval(d)' <=> ChangesInterval(d)
      BY <2>3, FirstSettings DEF ChangesInterval
    <3>2. ChangesInterval(c)
      BY <1>1 DEF ChangesInterval
    <3> QED
      BY <1>1, <2>1, <2>3, <3>1, <3>2 DEF ScheduleInv
  <2> QED
    BY <2>4, <2>5, <2>6
<1> QED
  BY <1>2, <1>3

\* What a failing upsert leaves of a PUT, or an upsert that lands after the failure.
LEMMA AbandonedHas ==
    ASSUME SettingsTypes, RequestsStand, NEW c \in SettingsCalls, NEW k \in settingsCall[c].left,
           settingsCall[c].pc \in {"write", "abandoned"}
    PROVE  /\ Abandoned(c, k) \in RequestStates
           /\ Abandoned(c, k).pc \in {"idle", "abandoned"}
           /\ Abandoned(c, k).patch = Abandoned(c, k).left
           /\ Abandoned(c, k).left \subseteq settingsCall[c].left
           /\ Abandoned(c, k).put <=> Abandoned(c, k).pc = "abandoned"
<1> DEFINE left == settingsCall[c].left \ {k}
           to == [settingsCall[c].to EXCEPT ![k] = FirstValues[k]]
<1>0. settingsCall[c] \in RequestStates /\ settingsCall[c].put
  BY DEF SettingsTypes, RequestsStand
<1>1. CASE left = {}
  <2>1. Abandoned(c, k) = NoRequest
    BY <1>1 DEF Abandoned
  <2> QED
    BY <2>1, FirstSettings
<1>2. CASE left # {}
  <2>1. to \in Values /\ left \in SUBSET SettingKeys
    BY <1>0, FirstSettings DEF Values, SettingKeys, RequestStates
  <2> DEFINE request == [settingsCall[c] EXCEPT !.pc = "abandoned", !.patch = left,
                                                !.left = left, !.to = to]
  <2>2. /\ request \in RequestStates /\ request.pc = "abandoned"
        /\ request.patch = left /\ request.left = left /\ request.put = settingsCall[c].put
    BY <1>0, <2>1 DEF RequestStates
  <2>3. Abandoned(c, k) = request
    BY <1>0, <1>2 DEF Abandoned, RequestStates
  <2> HIDE DEF request
  <2> QED
    BY <1>0, <2>2, <2>3
<1> QED
  BY <1>1, <1>2

\* A step that fails: what the change has written counts as dropped.
LEMMA FailingStep ==
    ASSUME SettingsIInv, NEW c \in SettingsCalls,
           WriteFails(c) \/ LateWrite(c) \/ JobFails(c) \/ ReadFails(c)
    PROVE  SettingsIInv'
<1> USE DEF SettingsIInv
<1>0. /\ settingsCall[c] \in RequestStates /\ stored \in Values
      /\ settingsCall[c].left \subseteq settingsCall[c].patch
      /\ settingsCall[c].patch \subseteq SettingKeys
  BY DEF SettingsTypes, RequestsStand, RequestStates
<1>1. /\ UNCHANGED <<settingsCache, gate, generation, jobInterval, crossedPuts>>
      /\ dropped \subseteq dropped' /\ dropped' \subseteq SettingKeys
  BY <1>0 DEF WriteFails, LateWrite, JobFails, ReadFails, SettingsTypes, SettingKeys
\* The call ends or is abandoned; what it writes, or has written and not told, is dropped.
<1>2. PICK request \in RequestStates :
        /\ settingsCall' = [settingsCall EXCEPT ![c] = request]
        /\ request.pc \in {"idle", "abandoned"} /\ request.patch = request.left
        /\ request.left \subseteq settingsCall[c].left
        /\ request.put <=> request.pc = "abandoned"
        /\ request.put => settingsCall[c].put
  <2>1. CASE WriteFails(c) \/ LateWrite(c)
    <3>1. settingsCall[c].pc \in {"write", "abandoned"} /\ settingsCall[c].put
      BY <2>1 DEF WriteFails, LateWrite, RequestsStand
    <3> QED
      BY <2>1, <3>1, AbandonedHas DEF WriteFails, LateWrite, Becomes
  <2>2. CASE JobFails(c) \/ ReadFails(c)
    BY <2>2, FirstSettings DEF JobFails, ReadFails, Becomes
  <2> QED
    BY <2>1, <2>2
<1>3. /\ stored' \in Values
      /\ "auth" \notin dropped' => stored'.auth = stored.auth
      /\ "interval" \notin dropped' => stored'.interval = stored.interval
      /\ stored' # stored => settingsCall[c].pc = "abandoned"
      /\ stored'.interval # stored.interval => "interval" \in settingsCall[c].left
  <2>1. CASE LateWrite(c)
    <3>1. PICK k \in settingsCall[c].left :
            stored' = [stored EXCEPT ![k] = settingsCall[c].to[k]] /\ dropped' = dropped \cup {k}
      BY <2>1 DEF LateWrite
    <3>2. k \in SettingKeys /\ settingsCall[c].pc = "abandoned"
      BY <1>0, <2>1 DEF LateWrite
    <3> QED
      BY <1>0, <3>1, <3>2 DEF Values, SettingKeys, RequestStates
  <2>2. CASE ~LateWrite(c)
    BY <1>0, <2>2 DEF WriteFails, JobFails, ReadFails
  <2> QED
    BY <2>1, <2>2
<1>4. ASSUME NEW k \in SettingKeys, k \notin dropped', settingsCall[c].put,
             k \in settingsCall[c].patch \ settingsCall[c].left
      PROVE  k # "interval" /\ settingsCall[c].pc \in {"jobs", "cron"}
  BY <1>4 DEF WriteFails, LateWrite, JobFails, ReadFails, RequestsStand
<1>5. /\ settingsCall' \in [SettingsCalls -> RequestStates] /\ settingsCall'[c] = request
      /\ \A d \in SettingsCalls \ {c} : settingsCall'[d] = settingsCall[d]
  BY <1>2, Moves
<1>6. SettingsTypes'
  BY <1>1, <1>3, <1>5 DEF SettingsTypes
<1>7. RequestsStand'
  BY <1>2, <1>5 DEF RequestsStand
<1>8. GateInv'
  <2>1. \A d \in SettingsCalls \ {c} : GateToldLater(d)' <=> GateToldLater(d)
    BY <1>5 DEF GateToldLater
  <2>2. "auth" \notin dropped' => ~GateToldLater(c)
    BY <1>4 DEF GateToldLater, SettingKeys
  <2>3. "auth" \notin dropped' /\ (\A d \in SettingsCalls : ~GateToldLater(d)')
          => /\ "auth" \notin dropped /\ \A d \in SettingsCalls : ~GateToldLater(d)
             /\ stored'.auth = stored.auth
    BY <1>1, <1>3, <2>1, <2>2
  <2>4. settingsCall'[c].pc \notin {"gate ask", "gate read"}
    BY <1>2, <1>5
  <2> QED
    BY <1>1, <1>5, <2>3, <2>4 DEF GateInv, FreshSettings
<1>9. ScheduleInv'
  <2>1. \A d \in SettingsCalls : ChangesInterval(d)' => ChangesInterval(d)
    <3>1. ChangesInterval(c)' => ChangesInterval(c)
      BY <1>0, <1>2, <1>5 DEF ChangesInterval
    <3> QED
      BY <1>5, <3>1 DEF ChangesInterval
  <2>2. \A d \in SettingsCalls \ {c} : Untold(d, "interval")' <=> Untold(d, "interval")
    BY <1>5 DEF Untold
  <2>3. "interval" \notin dropped' => ~Untold(c, "interval")
    BY <1>4 DEF Untold, SettingKeys
  <2>4. settingsCall'[c].pc \notin {"read", "jobs", "cron"}
    BY <1>2, <1>5
  <2>5. stored'.interval # stored.interval => ChangesInterval(c)
    BY <1>0, <1>3 DEF RequestsStand, ChangesInterval
  <2> QED
    BY <1>1, <1>3, <1>5, <2>1, <2>2, <2>3, <2>4, <2>5 DEF ScheduleInv
<1> QED
  BY <1>6, <1>7, <1>8, <1>9

LEMMA SettingsTickStep ==
    ASSUME SettingsIInv, SettingsTick
    PROVE  SettingsIInv'
<1> USE DEF SettingsIInv
<1>1. /\ settingsCache' \in [value : Values, env : BOOLEAN, age : Nat]
      /\ gate' \in [value : BOOLEAN, age : Nat]
  <2>1. /\ settingsCache' = OlderSettings(settingsCache, NoSettings)
        /\ gate' = OlderSettings(gate, NoGate)
    BY DEF SettingsTick
  <2> QED
    BY <2>1, FirstSettings DEF OlderSettings, SettingsTypes
<1>2. FreshSettings(gate)' => FreshSettings(gate) /\ gate'.value = gate.value
  <2>1. gate' = OlderSettings(gate, NoGate) /\ gate \in [value : BOOLEAN, age : Nat]
    BY DEF SettingsTick, SettingsTypes
  <2> QED
    BY <2>1, FirstSettings, SettingsAssumption DEF OlderSettings, FreshSettings
<1>3. /\ UNCHANGED <<stored, generation, jobInterval, settingsCall, crossedPuts>>
      /\ dropped' \subseteq dropped /\ dropped \ {"auth"} \subseteq dropped'
      /\ "auth" \in dropped /\ "auth" \notin dropped' =>
           ~FreshSettings(gate') /\ \A c \in SettingsCalls : settingsCall[c].pc # "gate read"
  BY DEF SettingsTick
<1>4. SettingsTypes' /\ RequestsStand'
  BY <1>1, <1>3 DEF SettingsTypes, RequestsStand
<1>5. GateInv'
  <2>1. CASE "auth" \in dropped /\ "auth" \notin dropped'
    BY <1>3, <2>1 DEF GateInv, FreshSettings
  <2>2. CASE ~("auth" \in dropped /\ "auth" \notin dropped')
    BY <1>2, <1>3, <2>2 DEF GateInv, GateToldLater
  <2> QED
    BY <2>1, <2>2
<1>6. ScheduleInv'
  BY <1>3 DEF ScheduleInv, ChangesInterval, Untold
<1> QED
  BY <1>4, <1>5, <1>6

LEMMA SettingsStep == SettingsIInv /\ [SettingsNext]_settingsVars => SettingsIInv'
<1> SUFFICES ASSUME SettingsIInv, [SettingsNext]_settingsVars PROVE SettingsIInv'
  OBVIOUS
<1>1. CASE UNCHANGED settingsVars
  BY <1>1 DEF settingsVars, SettingsIInv, SettingsTypes, RequestsStand, GateInv, GateToldLater,
              FreshSettings, ScheduleInv, ChangesInterval, Untold
<1>2. CASE SettingsTick
  BY <1>2, SettingsTickStep
<1>3. ASSUME NEW c \in SettingsCalls, GetMiss(c) \/ GateMiss(c) \/ PutBegin(c) \/ Serve(c)
      PROVE  SettingsIInv'
  BY <1>3, GetStep, GateStep, PutBeginStep, PutWriteStep, PutClearStep, PutFillStep, ScheduleStep,
     FailingStep DEF Serve
<1> QED
  BY <1>1, <1>2, <1>3 DEF SettingsNext

\* A changed setting takes effect, for any number of calls that read and change settings at
\* the same time, whichever queries fail: the gate's cache never outlives a switch of the login,
\* but for one whose PUT failed before the gate was told, until the answer expires; and the
\* update check has the stored interval unless a PUT is between the row and the schedule, has
\* failed there, or two have crossed (PUT /settings, modules/settings/index.ts:63, updateSettings,
\* settings.service.ts:167, and the generation of auth-gate.ts:18).
THEOREM SettingsApply == SettingsSpec => []SettingsTakeEffect
<1>1. SettingsIInv => SettingsTakeEffect
  <2> SUFFICES ASSUME SettingsIInv PROVE SettingsTakeEffect
    OBVIOUS
  <2>1. GateNeverStale
    BY DEF SettingsIInv, GateInv, GateToldLater, GateNeverStale, Untold
  <2>2. ScheduleFollows
    BY DEF SettingsIInv, ScheduleInv, ChangesInterval, ScheduleFollows
  <2> QED
    BY <2>1, <2>2 DEF SettingsTakeEffect
<1> QED
  BY <1>1, SettingsStart, SettingsStep, PTL DEF SettingsSpec

\* Types: settings

\* The changes whose rows are being written or read back: the gate's generation can still
\* rise by one for each of them.
Pending == {c \in SettingsCalls : /\ settingsCall[c].put
                                  /\ settingsCall[c].pc \in {"write", "written", "ask", "read"}}

SettingsBounds ==
    /\ settingsCache.age \in 0 .. SettingsTtl /\ gate.age \in 0 .. SettingsTtl
    /\ puts \in 0 .. MaxPuts
    /\ IsFiniteSet(Pending) /\ generation + Cardinality(Pending) <= puts

\* Nothing that is counted moves.
LEMMA SettingsBoundsKeep ==
    ASSUME SettingsBounds, Pending' = Pending, UNCHANGED <<generation, puts>>,
           settingsCache'.age \in 0 .. SettingsTtl, gate'.age \in 0 .. SettingsTtl
    PROVE  SettingsBounds'
BY DEF SettingsBounds

\* What the steps that count nothing make of a call.
LEMMA CallMovesOn ==
    ASSUME SettingsTypes, RequestsStand, NEW c \in SettingsCalls,
           \/ GetMiss(c) \/ TableRead(c) \/ GetFill(c) \/ GateMiss(c) \/ GateRead(c)
           \/ GateFill(c) \/ PutWrite(c) \/ PutClear(c) \/ FindJob(c) \/ UpdateJob(c)
           \/ JobFails(c)
    PROVE  /\ \A d \in SettingsCalls \ {c} : settingsCall'[d] = settingsCall[d]
           /\ c \in Pending' <=> c \in Pending
<1> DEFINE Open == {"write", "written", "ask", "read"}
<1>0. /\ settingsCall[c] \in RequestStates /\ settingsCall \in [SettingsCalls -> RequestStates]
      /\ ~NoRequest.put
  BY FirstSettings DEF SettingsTypes
\* The call is answered, or begins to read.
<1>1. ASSUME NEW request, ~request.put, settingsCall' = [settingsCall EXCEPT ![c] = request],
             ~settingsCall[c].put \/ settingsCall[c].pc \notin Open
      PROVE  /\ \A d \in SettingsCalls \ {c} : settingsCall'[d] = settingsCall[d]
             /\ c \in Pending' <=> c \in Pending
  BY <1>0, <1>1 DEF Pending
<1>2. CASE GetMiss(c)
  <2>1. ~[NoRequest EXCEPT !.pc = "ask"].put
    BY <1>0 DEF NoRequest
  <2> QED
    BY <1>1, <1>2, <2>1 DEF GetMiss, Becomes
<1>3. CASE GateMiss(c)
  <2>1. ~[NoRequest EXCEPT !.pc = "gate ask", !.gen = generation].put
    BY <1>0 DEF NoRequest
  <2> QED
    BY <1>1, <1>3, <2>1 DEF GateMiss, Becomes
<1>4. CASE GetFill(c) \/ GateFill(c) \/ UpdateJob(c) \/ JobFails(c)
  BY <1>0, <1>1, <1>4 DEF GetFill, GateFill, UpdateJob, JobFails, Becomes
<1>5. CASE GateRead(c)
  <2>1. /\ settingsCall'[c].pc = "gate read"
        /\ \A d \in SettingsCalls \ {c} : settingsCall'[d] = settingsCall[d]
    BY <1>0, <1>5 DEF GateRead, RequestStates
  <2> QED
    BY <1>5, <2>1 DEF GateRead, Pending
<1>6. CASE FindJob(c)
  <2>1. CASE Becomes(c, NoRequest)
    BY <1>0, <1>1, <1>6, <2>1 DEF FindJob, Becomes
  <2>2. CASE settingsCall' = [settingsCall EXCEPT ![c].pc = "cron"]
    <3>1. /\ settingsCall'[c].pc = "cron"
          /\ \A d \in SettingsCalls \ {c} : settingsCall'[d] = settingsCall[d]
      BY <1>0, <2>2 DEF RequestStates
    <3> QED
      BY <1>6, <3>1 DEF FindJob, Pending
  <2> QED
    BY <1>6, <2>1, <2>2 DEF FindJob
\* The call stays open, as the change or the reading it is.
<1>7. ASSUME settingsCall[c].pc \in Open, settingsCall'[c].pc \in Open,
             settingsCall'[c].put = settingsCall[c].put
      PROVE  c \in Pending' <=> c \in Pending
  BY <1>7 DEF Pending
<1>8. CASE TableRead(c)
  <2>1. /\ settingsCall'[c].pc = "read" /\ settingsCall'[c].put = settingsCall[c].put
        /\ \A d \in SettingsCalls \ {c} : settingsCall'[d] = settingsCall[d]
    BY <1>0, <1>8 DEF TableRead, RequestStates
  <2> QED
    BY <1>7, <1>8, <2>1 DEF TableRead
<1>9. CASE PutWrite(c)
  <2>1. PICK k \in settingsCall[c].left :
          LET left == settingsCall[c].left \ {k}
          IN  settingsCall' = [settingsCall EXCEPT
                 ![c] = [settingsCall[c] EXCEPT !.left = left, !.to[k] = FirstValues[k],
                                                !.pc = IF left = {} THEN "written" ELSE "write"]]
    BY <1>9 DEF PutWrite
  <2>2. /\ settingsCall'[c].pc \in {"write", "written"}
        /\ settingsCall'[c].put = settingsCall[c].put
        /\ \A d \in SettingsCalls \ {c} : settingsCall'[d] = settingsCall[d]
    BY <1>0, <2>1 DEF RequestStates
  <2> QED
    BY ZenonT(30), <1>7, <1>9, <2>2 DEF PutWrite
<1>10. CASE PutClear(c)
  <2>1. /\ settingsCall'[c].pc \in {"read", "ask"}
        /\ settingsCall'[c].put = settingsCall[c].put
        /\ \A d \in SettingsCalls \ {c} : settingsCall'[d] = settingsCall[d]
    BY <1>0, <1>10 DEF PutClear, RequestStates
  <2> QED
    BY <1>7, <1>10, <2>1 DEF PutClear
<1> QED
  BY <1>2, <1>3, <1>4, <1>5, <1>6, <1>8, <1>9, <1>10

LEMMA OthersBounded ==
    ASSUME SettingsTypes, RequestsStand, SettingsBounds, NEW c \in SettingsCalls,
           \/ GetMiss(c) \/ TableRead(c) \/ GetFill(c) \/ GateMiss(c) \/ GateRead(c)
           \/ GateFill(c) \/ PutWrite(c) \/ PutClear(c) \/ FindJob(c) \/ UpdateJob(c)
           \/ JobFails(c)
    PROVE  SettingsBounds'
<1>0. /\ 0 \in 0 .. SettingsTtl /\ SettingsTtl \in 0 .. SettingsTtl
      /\ settingsCache.age \in 0 .. SettingsTtl /\ gate.age \in 0 .. SettingsTtl
  BY SMTT(30), SettingsAssumption DEF SettingsBounds
<1>1. /\ UNCHANGED <<generation, puts>>
      /\ settingsCache' \in {settingsCache, NoSettings, Filled(c)}
      /\ gate' \in {gate, [value |-> settingsCall[c].seen.auth, age |-> 0]}
  BY DEF GetMiss, TableRead, GetFill, GateMiss, GateRead, GateFill, PutWrite, PutClear, FindJob,
         UpdateJob, JobFails, ClearedSettings
<1>2. settingsCache'.age \in 0 .. SettingsTtl /\ gate'.age \in 0 .. SettingsTtl
  BY <1>0, <1>1 DEF NoSettings, Filled
<1>3. Pending' = Pending
  BY CallMovesOn DEF Pending
<1> QED
  BY <1>1, <1>2, <1>3, SettingsBoundsKeep

LEMMA PutBounded ==
    ASSUME SettingsTypes, RequestsStand, SettingsBounds, NEW c \in SettingsCalls,
           PutBegin(c) \/ PutFill(c)
    PROVE  SettingsBounds'
<1>0. /\ settingsCall[c] \in RequestStates /\ 0 \in 0 .. SettingsTtl
      /\ SettingsTtl \in 0 .. SettingsTtl /\ generation \in Nat
      /\ settingsCall \in [SettingsCalls -> RequestStates]
      /\ IsFiniteSet(Pending) /\ Cardinality(Pending) \in Nat /\ puts \in Nat
  BY SettingsAssumption, FS_CardinalityType DEF SettingsTypes, SettingsBounds
<1>1. CASE PutBegin(c)
  <2>1. c \notin Pending
    BY <1>1 DEF PutBegin, Pending
  <2>2. PICK patch, to :
          settingsCall' = [settingsCall EXCEPT ![c] =
            [NoRequest EXCEPT !.pc = "write", !.put = TRUE, !.patch = patch, !.left = patch,
                              !.to = to]]
    BY <1>1 DEF PutBegin, Becomes
  <2>3. /\ settingsCall'[c].put /\ settingsCall'[c].pc = "write"
        /\ \A d \in SettingsCalls \ {c} : settingsCall'[d] = settingsCall[d]
    BY <1>0, <2>2 DEF NoRequest
  <2>4. Pending' = Pending \cup {c}
    BY <2>3 DEF Pending
  <2>5. IsFiniteSet(Pending \cup {c}) /\ Cardinality(Pending \cup {c}) = Cardinality(Pending) + 1
    BY <1>0, <2>1, FS_AddElement
  <2>6. /\ puts' = puts + 1 /\ puts < MaxPuts /\ UNCHANGED <<settingsCache, gate, generation>>
    BY <1>1 DEF PutBegin
  <2>7. IsFiniteSet(Pending') /\ Cardinality(Pending') = Cardinality(Pending) + 1
    BY <2>4, <2>5
  <2> QED
    BY <1>0, <2>6, <2>7, SettingsAssumption DEF SettingsBounds
<1>2. CASE PutFill(c)
  <2>1. c \in Pending
    BY <1>2 DEF PutFill, Pending
  <2>2. \A d \in SettingsCalls \ {c} : settingsCall'[d] = settingsCall[d]
    BY <1>0, <1>2 DEF PutFill, Becomes
  <2>3. settingsCall'[c].pc = "jobs" \/ ~settingsCall'[c].put
    <3>1. CASE settingsCall' = [settingsCall EXCEPT ![c].pc = "jobs"]
      BY <1>0, <3>1 DEF RequestStates
    <3>2. CASE Becomes(c, NoRequest)
      BY <1>0, <3>2, FirstSettings DEF Becomes
    <3> QED
      BY <1>2, <3>1, <3>2 DEF PutFill
  <2>4. Pending' = Pending \ {c}
    BY <2>2, <2>3 DEF Pending
  <2>5. IsFiniteSet(Pending \ {c}) /\ Cardinality(Pending \ {c}) = Cardinality(Pending) - 1
    BY <1>0, <2>1, FS_RemoveElement
  <2>6. /\ puts' = puts /\ generation' \in {generation, generation + 1}
        /\ settingsCache' = Filled(c) /\ gate' \in {gate, NoGate}
    BY <1>2 DEF PutFill
  <2>7. settingsCache'.age \in 0 .. SettingsTtl /\ gate'.age \in 0 .. SettingsTtl
    BY <1>0, <2>6 DEF SettingsBounds, Filled, NoGate
  <2>8. IsFiniteSet(Pending') /\ Cardinality(Pending') = Cardinality(Pending) - 1
    BY <2>4, <2>5
  <2>9. generation' + Cardinality(Pending') <= puts'
    BY <1>0, <2>6, <2>8 DEF SettingsBounds
  <2> QED
    BY <2>6, <2>7, <2>8, <2>9 DEF SettingsBounds
<1> QED
  BY <1>1, <1>2

\* A change that fails does not reach its invalidation any more.
LEMMA FailedChangesBounded ==
    ASSUME SettingsIInv, SettingsBounds, NEW c \in SettingsCalls,
           WriteFails(c) \/ LateWrite(c) \/ ReadFails(c)
    PROVE  SettingsBounds'
<1>0. /\ SettingsTypes /\ RequestsStand /\ generation \in Nat /\ puts \in Nat
      /\ IsFiniteSet(Pending) /\ Cardinality(Pending) \in Nat
  BY FS_CardinalityType, SettingsAssumption DEF SettingsIInv, SettingsTypes, SettingsBounds
<1>1. UNCHANGED <<generation, puts, settingsCache, gate>>
  BY DEF WriteFails, LateWrite, ReadFails
<1>2. PICK request \in RequestStates :
        /\ settingsCall' = [settingsCall EXCEPT ![c] = request]
        /\ request.pc \in {"idle", "abandoned"}
  <2>1. CASE WriteFails(c) \/ LateWrite(c)
    BY <1>0, <2>1, AbandonedHas DEF WriteFails, LateWrite, Becomes
  <2>2. CASE ReadFails(c)
    BY <2>2, FirstSettings DEF ReadFails, Becomes
  <2> QED
    BY <2>1, <2>2
<1>3. /\ settingsCall'[c] = request
      /\ \A d \in SettingsCalls \ {c} : settingsCall'[d] = settingsCall[d]
  BY <1>0, <1>2, Moves
<1>4. Pending' = Pending \ {c}
  BY <1>2, <1>3 DEF Pending
<1>5. CASE c \in Pending
  <2>1. IsFiniteSet(Pending \ {c}) /\ Cardinality(Pending \ {c}) = Cardinality(Pending) - 1
    BY <1>0, <1>5, FS_RemoveElement
  <2>2. IsFiniteSet(Pending') /\ Cardinality(Pending') = Cardinality(Pending) - 1
    BY <1>4, <2>1
  <2> QED
    BY <1>0, <1>1, <2>2 DEF SettingsBounds
<1>6. CASE c \notin Pending
  <2>1. Pending' = Pending
    BY <1>4, <1>6
  <2> QED
    BY <1>1, <2>1, SettingsBoundsKeep DEF SettingsBounds
<1> QED
  BY <1>5, <1>6

LEMMA SettingsBoundsStep ==
    SettingsIInv /\ SettingsBounds /\ [SettingsNext]_settingsVars => SettingsBounds'
<1> SUFFICES ASSUME SettingsIInv, SettingsBounds, [SettingsNext]_settingsVars
             PROVE  SettingsBounds'
  OBVIOUS
<1> USE DEF SettingsIInv
<1>1. ASSUME NEW c \in SettingsCalls, GetMiss(c) \/ GateMiss(c) \/ Serve(c) \/ PutBegin(c)
      PROVE  SettingsBounds'
  BY <1>1, OthersBounded, PutBounded, FailedChangesBounded DEF Serve
<1>2. CASE SettingsTick
  <2>1. Pending' = Pending /\ UNCHANGED <<generation, puts>>
    BY <1>2 DEF SettingsTick, Pending
  <2>2. /\ NoSettings.age \in 0 .. SettingsTtl /\ NoGate.age \in 0 .. SettingsTtl
        /\ settingsCache.age \in 0 .. SettingsTtl /\ gate.age \in 0 .. SettingsTtl
    BY SettingsAssumption DEF NoSettings, NoGate, SettingsBounds
  <2>3. \A n \in 0 .. SettingsTtl : n + 1 >= SettingsTtl \/ n + 1 \in 0 .. SettingsTtl
    BY SettingsAssumption
  <2>4. settingsCache'.age \in 0 .. SettingsTtl /\ gate'.age \in 0 .. SettingsTtl
    BY <1>2, <2>2, <2>3 DEF SettingsTick, OlderSettings, SettingsTypes
  <2> QED
    BY <2>1, <2>4, SettingsBoundsKeep
<1>3. CASE UNCHANGED settingsVars
  BY <1>3 DEF settingsVars, SettingsBounds, Pending
<1> QED
  BY <1>1, <1>2, <1>3 DEF SettingsNext

\* Rows, caches and calls have their types for any number of calls: the gate's generation
\* rises at most once for a change (settings.service.ts:61, auth-gate.ts:11).
THEOREM SettingsTypesStay == SettingsSpec => []SettingsTypeOK
<1>1. SettingsInit => SettingsBounds
  <2> SUFFICES ASSUME SettingsInit PROVE SettingsBounds
    OBVIOUS
  <2>1. Pending = {}
    BY FirstSettings DEF SettingsInit, Pending
  <2>2. IsFiniteSet(Pending) /\ Cardinality(Pending) = 0
    BY <2>1, FS_EmptySet
  <2>3. SettingsTtl \in 0 .. SettingsTtl /\ 0 \in 0 .. MaxPuts
    BY SettingsAssumption
  <2> QED
    BY <2>2, <2>3 DEF SettingsInit, SettingsBounds, NoSettings, NoGate
<1>2. SettingsIInv /\ SettingsBounds => SettingsTypeOK
  <2> SUFFICES ASSUME SettingsTypes, SettingsBounds PROVE SettingsTypeOK
    BY DEF SettingsIInv
  <2>1. Cardinality(Pending) \in Nat /\ generation \in Nat
    BY FS_CardinalityType DEF SettingsBounds, SettingsTypes
  <2>2. generation \in 0 .. MaxPuts
    BY <2>1, SettingsAssumption DEF SettingsBounds
  <2>3. /\ settingsCache \in [value : Values, env : BOOLEAN, age : 0 .. SettingsTtl]
        /\ gate \in [value : BOOLEAN, age : 0 .. SettingsTtl]
    BY DEF SettingsBounds, SettingsTypes
  <2> QED
    BY <2>2, <2>3 DEF SettingsTypes, SettingsTypeOK, SettingsBounds, RequestStates
<1> QED
  BY <1>1, <1>2, SettingsStart, SettingsStep, SettingsBoundsStep, PTL DEF SettingsSpec

--------------------------------------------------------------------------------
\* The client that follows Docker

\* An event stream is being attached only while there is none.
StreamInv == NeverDeaf /\ (attaching => ~stream) /\ attached \in Nat

CacheEntries == [held : BOOLEAN, value : Nat, age : Nat, by : SUBSET Readers, overtaken : BOOLEAN]
Fetches == [pc : {"none", "sent", "read"}, key : DockerKeys, value : Nat, age : Nat,
            overtaken : BOOLEAN]
ReaderStates == [pc : {"idle", "waits"} \cup DockerKinds, key : DockerKeys, on : SUBSET Readers,
                 floor : Nat]
EventRecords == [kind : DockerKinds, about : Nat]

DockerTypes ==
    /\ version \in Nat
    /\ cache \in [DockerKeys -> CacheEntries]
    /\ fetch \in [Readers -> Fetches]
    /\ reader \in [Readers -> ReaderStates]
    /\ promised \in [DockerKeys -> Nat]
    /\ events \in Seq(EventRecords)

\* Nothing is promised that Docker does not have yet; what clears the list of all containers
\* clears that of the running ones.
PromisesInv ==
    /\ promised["all"] = promised["running"]
    /\ \A k \in DockerKeys : promised[k] <= version
    /\ \A r \in Readers : reader[r].floor <= version
    /\ \A i \in 1 .. Len(events) : events[i].about <= version

\* Who has sent a request waits for it, and an entry that is being filled names the request
\* that is to fill it.
RequestsInv ==
    /\ \A r \in Readers : fetch[r].pc # "none" => reader[r].pc = "waits" /\ reader[r].on = {r}
    /\ \A k \in DockerKeys : cache[k].by # {} =>
         \E r \in Readers : cache[k].by = {r} /\ fetch[r].pc # "none" /\ fetch[r].key = k

\* An answer that no invalidation has overtaken has what is promised: in the cache, on its
\* way, and for all who wait for it.
KeptInv ==
    /\ \A k \in DockerKeys : cache[k].held /\ ~cache[k].overtaken => cache[k].value >= promised[k]
    /\ \A r \in Readers : fetch[r].pc = "read" /\ ~fetch[r].overtaken =>
         /\ fetch[r].value >= promised[fetch[r].key]
         /\ \A w \in Readers : reader[w].pc = "waits" /\ reader[w].on = {r}
                                 => fetch[r].value >= reader[w].floor
    /\ OwnChangesAreSeen

DockerIInv == DockerTypes /\ PromisesInv /\ RequestsInv /\ KeptInv

LEMMA StreamInit == DockerInit => StreamInv
BY DEF DockerInit, StreamInv, NeverDeaf

LEMMA StreamStep == StreamInv /\ [DockerNext]_dockerVars => StreamInv'
<1> SUFFICES ASSUME StreamInv, [DockerNext]_dockerVars PROVE StreamInv'
  OBVIOUS
<1> USE DEF StreamInv, NeverDeaf
<1>1. ASSUME UNCHANGED <<stream, attached, attaching, timer>> PROVE StreamInv'
  BY <1>1
<1>2. ASSUME NEW r \in Readers, NEW k \in DockerKeys,
             AskHit(r, k) \/ AskShared(r, k) \/ AskDocker(r, k)
      PROVE  StreamInv'
  BY <1>1, <1>2 DEF AskHit, AskShared, AskDocker, streamVars
<1>3. ASSUME NEW r \in Readers, DockerReads(r) \/ FetchDone(r) \/ FetchFails(r) \/ ActDone(r)
      PROVE  StreamInv'
  BY <1>1, <1>3 DEF DockerReads, FetchDone, FetchFails, ActDone, streamVars
<1>4. ASSUME NEW kind \in DockerKinds, OthersChange(kind) \/ \E r \in Readers : Act(r, kind)
      PROVE  StreamInv'
  BY <1>1, <1>4 DEF OthersChange, Act
<1>5. CASE HandleEvent \/ DockerTick \/ UNCHANGED dockerVars
  BY <1>1, <1>5 DEF HandleEvent, DockerTick, streamVars, dockerVars
<1>6. CASE Attach
  BY <1>6 DEF Attach
<1>7. CASE AttachFails
  BY <1>7 DEF AttachFails, ScheduleReconnect
<1>8. CASE StreamEnds
  BY <1>8 DEF StreamEnds, ScheduleReconnect
<1>9. CASE ReconnectFires
  BY <1>9 DEF ReconnectFires
<1> QED
  BY <1>2, <1>3, <1>4, <1>5, <1>6, <1>7, <1>8, <1>9 DEF DockerNext

LEMMA ClientInit == DockerInit => DockerIInv
<1>1. NoAnswer \in CacheEntries /\ NoAnswer.held = FALSE /\ NoAnswer.by = {}
  BY DEF NoAnswer, CacheEntries
<1>2. NoFetch \in Fetches /\ NoFetch.pc = "none"
  BY DEF NoFetch, Fetches, DockerKeys
<1>3. AtRest \in ReaderStates /\ AtRest.pc = "idle" /\ AtRest.floor = 0
  BY DEF AtRest, ReaderStates, DockerKeys
<1>4. << >> \in Seq(EventRecords) /\ Len(<< >>) = 0
  OBVIOUS
<1> QED
  BY <1>1, <1>2, <1>3, <1>4
     DEF DockerInit, DockerIInv, DockerTypes, PromisesInv, RequestsInv, KeptInv,
         OwnChangesAreSeen, DockerKeys

LEMMA Unkept ==
    ASSUME NEW v \in Nat, NEW floor \in Nat, NEW cleared \in BOOLEAN,
           "unkept" \in Verdict(v, cleared, floor)
    PROVE  v < floor /\ ~cleared
BY DEF Verdict

LEMMA ServedKeeps ==
    ASSUME DockerIInv, NEW k \in DockerKeys
    PROVE  Served(k) \in DockerKeys /\ promised[Served(k)] = promised[k]
BY DEF DockerIInv, PromisesInv, Served, DockerKeys

\* An invalidation of keys, about a version Docker has.
LEMMA InvalidateKeeps ==
    ASSUME DockerIInv, NEW keys \in SUBSET DockerKeys, "all" \in keys <=> "running" \in keys,
           NEW about \in Nat, about <= version, Invalidate(keys, about),
           UNCHANGED <<version, faults>>,
           reader' \in [Readers -> ReaderStates], events' \in Seq(EventRecords),
           \A i \in 1 .. Len(events') : events'[i].about <= version,
           \A r \in Readers : \/ reader'[r] = reader[r]
                              \/ reader'[r].pc = "idle" /\ reader[r].pc # "waits"
                                 /\ reader'[r].floor = 0
    PROVE  DockerIInv'
<1> USE DEF DockerIInv
<1>1. \A k \in DockerKeys :
        /\ cache'[k] \in CacheEntries
        /\ cache'[k].by = {} \/ cache'[k].by = cache[k].by
        /\ k \notin keys => cache'[k] = cache[k]
        /\ k \in keys => cache'[k].held = FALSE
  BY DEF Invalidate, CacheWithout, NoAnswer, CacheEntries, DockerTypes
<1>2. \A r \in Readers :
        /\ fetch'[r] \in Fetches /\ fetch'[r].pc = fetch[r].pc /\ fetch'[r].key = fetch[r].key
        /\ fetch'[r].value = fetch[r].value
        /\ ~fetch'[r].overtaken =>
             ~fetch[r].overtaken /\ (fetch[r].pc = "none" \/ fetch[r].key \notin keys)
  BY DEF Invalidate, Fetches, DockerTypes
<1>3. promised' \in [DockerKeys -> Nat]
      /\ \A k \in DockerKeys : promised'[k] = IF k \in keys THEN about ELSE promised[k]
  BY DEF Invalidate, DockerTypes
<1>4. DockerTypes'
  <2>1. cache' \in [DockerKeys -> CacheEntries] /\ fetch' \in [Readers -> Fetches]
    BY <1>1, <1>2 DEF Invalidate, CacheWithout
  <2> QED
    BY <1>3, <2>1 DEF DockerTypes
<1>5. PromisesInv'
  <2>1. "all" \in DockerKeys /\ "running" \in DockerKeys
    BY DEF DockerKeys
  <2>2. promised'["all"] = promised'["running"]
    BY <1>3, <2>1 DEF PromisesInv
  <2>3. \A k \in DockerKeys : promised'[k] <= version
    BY <1>3 DEF PromisesInv
  <2>4. \A r \in Readers : reader'[r].floor <= version
    BY DEF PromisesInv, DockerTypes
  <2> QED
    BY <2>2, <2>3, <2>4 DEF PromisesInv
<1>6. \A r \in Readers : fetch[r].pc # "none" => reader'[r] = reader[r]
  BY DEF RequestsInv
<1>7. RequestsInv'
  BY <1>1, <1>2, <1>6 DEF RequestsInv
<1>8. KeptInv'
  <2>1. \A k \in DockerKeys : cache'[k].held /\ ~cache'[k].overtaken
                                => cache'[k].value >= promised'[k]
    BY <1>1, <1>3 DEF KeptInv
  <2>2. ASSUME NEW r \in Readers, fetch'[r].pc = "read", ~fetch'[r].overtaken
        PROVE  /\ fetch'[r].value >= promised'[fetch'[r].key]
               /\ \A w \in Readers : reader'[w].pc = "waits" /\ reader'[w].on = {r}
                                       => fetch'[r].value >= reader'[w].floor
    <3>1. fetch[r].key \in DockerKeys
      BY DEF DockerTypes, Fetches
    <3> QED
      BY <1>2, <1>3, <2>2, <3>1 DEF KeptInv
  <2> QED
    BY <2>1, <2>2 DEF KeptInv, OwnChangesAreSeen
<1> QED
  BY <1>4, <1>5, <1>7, <1>8

LEMMA AskStep ==
    ASSUME DockerIInv, NEW r \in Readers, NEW k \in DockerKeys,
           AskHit(r, k) \/ AskShared(r, k) \/ AskDocker(r, k)
    PROVE  DockerIInv'
<1> USE DEF DockerIInv
<1>0. Served(k) \in DockerKeys /\ promised[Served(k)] = promised[k] /\ promised[k] \in Nat
      /\ promised[k] <= version
  BY ServedKeeps DEF DockerTypes, PromisesInv
<1>1. CASE AskHit(r, k)
  <2>1. UNCHANGED <<version, cache, fetch, reader, promised, events>>
    BY <1>1 DEF AskHit, streamVars
  <2>2. "unkept" \notin Verdict(cache[Served(k)].value, cache[Served(k)].overtaken, promised[k])
    <3>1. cache[Served(k)].held /\ cache[Served(k)].value \in Nat
          /\ cache[Served(k)].overtaken \in BOOLEAN
      BY <1>0, <1>1 DEF AskHit, FreshAnswer, DockerTypes, CacheEntries
    <3> QED
      BY <1>0, <3>1, Unkept DEF KeptInv
  <2>3. OwnChangesAreSeen'
    BY <1>1, <2>2 DEF AskHit, KeptInv, OwnChangesAreSeen
  <2> QED
    BY <2>1, <2>3 DEF DockerTypes, PromisesInv, RequestsInv, KeptInv
<1>2. CASE AskShared(r, k)
  <2> DEFINE waits == [pc |-> "waits", key |-> k, on |-> cache[Served(k)].by,
                       floor |-> promised[k]]
  <2>1. /\ UNCHANGED <<version, cache, fetch, promised, events, faults>>
        /\ reader' = [reader EXCEPT ![r] = waits] /\ reader[r].pc = "idle"
        /\ cache[Served(k)].by # {}
    BY <1>2 DEF AskShared, Fetching, streamVars
  <2>2. PICK q \in Readers : /\ cache[Served(k)].by = {q} /\ fetch[q].pc # "none"
                             /\ fetch[q].key = Served(k)
    BY <1>0, <2>1 DEF RequestsInv
  <2>3. waits \in ReaderStates /\ waits.pc = "waits" /\ waits.on = {q} /\ waits.floor = promised[k]
    BY <1>0, <2>2 DEF ReaderStates
  <2> HIDE DEF waits
  <2>4. reader' \in [Readers -> ReaderStates] /\ reader'[r] = waits
        /\ \A w \in Readers \ {r} : reader'[w] = reader[w]
    BY <2>1, <2>3 DEF DockerTypes
  <2>5. fetch[r].pc = "none"
    BY <2>1 DEF RequestsInv
  <2>6. DockerTypes' /\ PromisesInv'
    BY <1>0, <2>1, <2>3, <2>4 DEF DockerTypes, PromisesInv
  <2>7. RequestsInv'
    BY <2>1, <2>4, <2>5 DEF RequestsInv
  <2>8. KeptInv'
    <3>1. ASSUME NEW f \in Readers, fetch[f].pc = "read", ~fetch[f].overtaken,
                 NEW w \in Readers, reader'[w].pc = "waits", reader'[w].on = {f}
          PROVE  fetch[f].value >= reader'[w].floor
      <4>1. CASE w = r
        <5>1. f = q
          BY <2>3, <2>4, <3>1, <4>1
        <5> QED
          BY <1>0, <2>2, <2>3, <2>4, <3>1, <4>1, <5>1 DEF KeptInv
      <4>2. CASE w # r
        BY <2>4, <3>1, <4>2 DEF KeptInv
      <4> QED
        BY <4>1, <4>2
    <3> QED
      BY <2>1, <3>1 DEF KeptInv, OwnChangesAreSeen
  <2> QED
    BY <2>6, <2>7, <2>8
<1>3. CASE AskDocker(r, k)
  <2> DEFINE waits == [pc |-> "waits", key |-> k, on |-> {r}, floor |-> promised[k]]
             sent == [NoFetch EXCEPT !.pc = "sent", !.key = k]
  <2>1. /\ UNCHANGED <<version, promised, events, faults>> /\ reader[r].pc = "idle"
        /\ cache' = [cache EXCEPT ![k] = Placeholder(k, r)]
        /\ fetch' = [fetch EXCEPT ![r] = sent]
        /\ reader' = [reader EXCEPT ![r] = waits]
    BY <1>3 DEF AskDocker, streamVars
  <2>2. /\ waits \in ReaderStates /\ waits.pc = "waits" /\ waits.on = {r}
        /\ waits.floor = promised[k]
        /\ sent \in Fetches /\ sent.pc = "sent" /\ sent.key = k
    BY <1>0 DEF ReaderStates, Fetches, NoFetch
  <2> HIDE DEF waits, sent
  <2>3. /\ Placeholder(k, r) \in CacheEntries /\ Placeholder(k, r).by = {r}
        /\ Placeholder(k, r).held = cache[k].held
        /\ Placeholder(k, r).overtaken = cache[k].overtaken
        /\ Placeholder(k, r).value = cache[k].value
    BY DEF Placeholder, DockerTypes, CacheEntries
  <2>4. /\ reader' \in [Readers -> ReaderStates] /\ reader'[r] = waits
        /\ \A w \in Readers \ {r} : reader'[w] = reader[w] /\ fetch'[w] = fetch[w]
        /\ fetch' \in [Readers -> Fetches] /\ fetch'[r] = sent
        /\ cache' \in [DockerKeys -> CacheEntries] /\ cache'[k] = Placeholder(k, r)
        /\ \A j \in DockerKeys \ {k} : cache'[j] = cache[j]
    BY <2>1, <2>2, <2>3 DEF DockerTypes
  <2>5. fetch[r].pc = "none"
    BY <2>1 DEF RequestsInv
  <2>6. DockerTypes' /\ PromisesInv'
    BY <1>0, <2>1, <2>2, <2>4 DEF DockerTypes, PromisesInv
  <2>7. RequestsInv'
    BY <2>2, <2>3, <2>4, <2>5 DEF RequestsInv
  <2>8. KeptInv'
    <3>1. ASSUME NEW f \in Readers, fetch'[f].pc = "read", ~fetch'[f].overtaken
          PROVE  /\ f # r /\ fetch'[f].value >= promised'[fetch'[f].key]
                 /\ \A w \in Readers : reader'[w].pc = "waits" /\ reader'[w].on = {f}
                                         => fetch'[f].value >= reader'[w].floor
      <4>1. f # r
        BY <2>2, <2>4, <3>1
      <4>2. fetch'[f] = fetch[f]
        BY <2>4, <4>1
      <4>3. \A w \in Readers : reader'[w].on = {f} => w # r
        BY <2>2, <2>4, <4>1
      <4> QED
        BY <2>1, <2>4, <3>1, <4>1, <4>2, <4>3 DEF KeptInv
    <3>2. \A j \in DockerKeys : cache'[j].held /\ ~cache'[j].overtaken
                                  => cache'[j].value >= promised'[j]
      BY <2>1, <2>3, <2>4 DEF KeptInv
    <3> QED
      BY <2>1, <3>1, <3>2 DEF KeptInv, OwnChangesAreSeen
  <2> QED
    BY <2>6, <2>7, <2>8
<1> QED
  BY <1>1, <1>2, <1>3

LEMMA DockerReadsStep ==
    ASSUME DockerIInv, NEW r \in Readers, DockerReads(r)
    PROVE  DockerIInv'
<1> USE DEF DockerIInv
<1> DEFINE read == [fetch[r] EXCEPT !.pc = "read", !.value = version]
<1>1. /\ UNCHANGED <<version, cache, reader, promised, events, faults>> /\ fetch[r].pc = "sent"
      /\ fetch' = [fetch EXCEPT ![r] = read]
  BY DEF DockerReads, streamVars, DockerTypes
<1>2. /\ read \in Fetches /\ read.pc = "read" /\ read.value = version /\ read.key = fetch[r].key
      /\ read.overtaken = fetch[r].overtaken
  BY DEF DockerTypes, Fetches
<1> HIDE DEF read
<1>3. /\ fetch' \in [Readers -> Fetches] /\ fetch'[r] = read
      /\ \A w \in Readers \ {r} : fetch'[w] = fetch[w]
  BY <1>1, <1>2 DEF DockerTypes
<1>4. DockerTypes' /\ PromisesInv'
  BY <1>1, <1>3 DEF DockerTypes, PromisesInv
<1>5. RequestsInv'
  BY <1>1, <1>2, <1>3 DEF RequestsInv
<1>6. KeptInv'
  <2>1. version \in Nat /\ fetch[r].key \in DockerKeys /\ promised[fetch[r].key] <= version
        /\ promised[fetch[r].key] \in Nat
    BY DEF DockerTypes, Fetches, PromisesInv
  <2>2. \A w \in Readers : reader[w].floor <= version /\ reader[w].floor \in Nat
    BY DEF DockerTypes, ReaderStates, PromisesInv
  <2> QED
    BY <1>1, <1>2, <1>3, <2>1, <2>2 DEF KeptInv, OwnChangesAreSeen
<1> QED
  BY <1>4, <1>5, <1>6

\* A request ends: its waiters are answered, its entry is filled or emptied.
LEMMA FetchEnds ==
    ASSUME DockerIInv, NEW r \in Readers, fetch[r].pc # "none",
           fetch' = [fetch EXCEPT ![r] = NoFetch], reader' = ReaderAnswered(r),
           UNCHANGED <<version, promised, events>>, "unkept" \notin faults',
           cache' \in [DockerKeys -> CacheEntries],
           \A k \in DockerKeys :
             /\ cache'[k].by = {} \/ (cache'[k].by = cache[k].by /\ k # fetch[r].key)
             /\ cache'[k].held /\ ~cache'[k].overtaken => cache'[k].value >= promised[k]
    PROVE  DockerIInv'
<1> USE DEF DockerIInv
<1>1. NoFetch \in Fetches /\ NoFetch.pc = "none"
  BY DEF NoFetch, Fetches, DockerKeys
<1>2. AtRest \in ReaderStates /\ AtRest.pc = "idle" /\ AtRest.floor = 0
  BY DEF AtRest, ReaderStates, DockerKeys
<1>3. /\ fetch' \in [Readers -> Fetches] /\ fetch'[r].pc = "none"
      /\ \A w \in Readers \ {r} : fetch'[w] = fetch[w]
  BY <1>1 DEF DockerTypes
<1>4. /\ reader' \in [Readers -> ReaderStates]
      /\ \A w \in Readers : IF reader[w].pc = "waits" /\ reader[w].on = {r}
                            THEN reader'[w] = AtRest ELSE reader'[w] = reader[w]
  BY <1>2 DEF ReaderAnswered, WaitersOf, DockerTypes
<1>5. DockerTypes'
  BY <1>3, <1>4 DEF DockerTypes
<1>6. PromisesInv'
  <2>1. ASSUME NEW w \in Readers PROVE reader'[w].floor <= version
    <3>1. version \in Nat /\ reader[w].floor <= version
      BY DEF PromisesInv, DockerTypes
    <3>2. reader'[w] = AtRest \/ reader'[w] = reader[w]
      BY <1>4
    <3> QED
      BY <1>2, <3>1, <3>2
  <2>2. promised' = promised /\ version' = version /\ events' = events
    OBVIOUS
  <2> QED
    BY <2>1, <2>2 DEF PromisesInv
<1>7. RequestsInv'
  <2>1. ASSUME NEW w \in Readers, fetch'[w].pc # "none" PROVE reader'[w] = reader[w]
    <3>1. w # r /\ fetch'[w] = fetch[w]
      BY <1>3, <2>1
    <3>2. reader[w].on = {w}
      BY <2>1, <3>1 DEF RequestsInv
    <3>3. {w} # {r}
      BY <3>1
    <3> QED
      BY <1>4, <3>2, <3>3
  <2>2. \A k \in DockerKeys : cache'[k].by # {} =>
          \E w \in Readers : cache'[k].by = {w} /\ fetch'[w].pc # "none" /\ fetch'[w].key = k
    BY <1>3 DEF RequestsInv
  <2> QED
    BY <1>3, <2>1, <2>2 DEF RequestsInv
<1>8. KeptInv'
  <2>1. ASSUME NEW f \in Readers, fetch'[f].pc = "read", ~fetch'[f].overtaken
        PROVE  /\ fetch'[f].value >= promised'[fetch'[f].key]
               /\ \A w \in Readers : reader'[w].pc = "waits" /\ reader'[w].on = {f}
                                       => fetch'[f].value >= reader'[w].floor
    <3>1. fetch'[f] = fetch[f]
      BY <1>3, <2>1
    <3>2. \A w \in Readers : reader'[w].pc = "waits" => reader'[w] = reader[w]
      BY <1>2, <1>4
    <3> QED
      BY <2>1, <3>1, <3>2 DEF KeptInv
  <2> QED
    BY <2>1 DEF KeptInv, OwnChangesAreSeen
<1> QED
  BY <1>5, <1>6, <1>7, <1>8

LEMMA FetchDoneStep ==
    ASSUME DockerIInv, NEW r \in Readers, FetchDone(r)
    PROVE  DockerIInv'
<1> USE DEF DockerIInv
<1> DEFINE f == fetch[r]
           filled == [held |-> TRUE, value |-> f.value, age |-> 0, by |-> {},
                      overtaken |-> f.overtaken]
<1>1. f \in Fetches /\ f.pc = "read" /\ f.key \in DockerKeys /\ f.value \in Nat
      /\ f.overtaken \in BOOLEAN
  BY DEF FetchDone, DockerTypes, Fetches
<1>2. /\ UNCHANGED <<version, promised, events>>
      /\ fetch' = [fetch EXCEPT ![r] = NoFetch] /\ reader' = ReaderAnswered(r)
      /\ cache' = [k \in DockerKeys |-> IF k = f.key \/ (k = "running" /\ f.key = "all")
                                        THEN filled ELSE cache[k]]
  BY DEF FetchDone, streamVars
<1>3. filled \in CacheEntries /\ filled.by = {} /\ filled.value = f.value
      /\ filled.overtaken = f.overtaken
  BY <1>1 DEF CacheEntries
<1>4. ~f.overtaken => /\ f.value >= promised[f.key]
                      /\ \A w \in WaitersOf(r) : f.value >= reader[w].floor
  BY <1>1 DEF KeptInv, WaitersOf
<1>5. "unkept" \notin faults'
  <2>1. ASSUME NEW w \in WaitersOf(r), "unkept" \in Verdict(f.value, f.overtaken, reader[w].floor)
        PROVE  FALSE
    <3>1. reader[w].floor \in Nat
      BY DEF WaitersOf, DockerTypes, ReaderStates
    <3>2. f.value < reader[w].floor /\ ~f.overtaken
      BY <1>1, <2>1, <3>1, Unkept
    <3> QED
      BY <1>1, <1>4, <3>1, <3>2
  <2>2. faults' = faults \cup UNION {Verdict(f.value, f.overtaken, reader[w].floor) :
                                       w \in WaitersOf(r)}
    BY DEF FetchDone
  <2> QED
    BY <2>1, <2>2 DEF KeptInv, OwnChangesAreSeen
<1> HIDE DEF filled
<1>6. /\ cache' \in [DockerKeys -> CacheEntries]
      /\ \A k \in DockerKeys :
           \/ cache'[k] = filled /\ promised[k] = promised[f.key]
           \/ cache'[k] = cache[k] /\ k # f.key
  BY <1>1, <1>2, <1>3 DEF DockerTypes, PromisesInv
<1>7. \A k \in DockerKeys :
        /\ cache'[k].by = {} \/ (cache'[k].by = cache[k].by /\ k # f.key)
        /\ cache'[k].held /\ ~cache'[k].overtaken => cache'[k].value >= promised[k]
  BY <1>3, <1>4, <1>6 DEF KeptInv
<1> QED
  BY <1>1, <1>2, <1>5, <1>6, <1>7, FetchEnds

LEMMA FetchFailsStep ==
    ASSUME DockerIInv, NEW r \in Readers, FetchFails(r)
    PROVE  DockerIInv'
<1> USE DEF DockerIInv
<1> DEFINE key == fetch[r].key
           left == IF key = "df" THEN [cache[key] EXCEPT !.by = {}] ELSE NoAnswer
<1>1. key \in DockerKeys /\ cache[key] \in CacheEntries
  BY DEF DockerTypes, Fetches
<1>2. /\ UNCHANGED <<version, promised, events, faults>> /\ fetch[r].pc # "none"
      /\ fetch' = [fetch EXCEPT ![r] = NoFetch] /\ reader' = ReaderAnswered(r)
      /\ cache' = [cache EXCEPT ![key] = left]
  BY DEF FetchFails, streamVars
<1>3. /\ left \in CacheEntries /\ left.by = {}
      /\ left.held => /\ left.held = cache[key].held /\ left.value = cache[key].value
                      /\ left.overtaken = cache[key].overtaken
  BY <1>1 DEF NoAnswer, CacheEntries
<1> HIDE DEF left, key
<1>4. /\ cache' \in [DockerKeys -> CacheEntries] /\ cache'[key] = left
      /\ \A k \in DockerKeys \ {key} : cache'[k] = cache[k]
  BY <1>1, <1>2, <1>3 DEF DockerTypes
<1>5. \A k \in DockerKeys :
        /\ cache'[k].by = {} \/ (cache'[k].by = cache[k].by /\ k # key)
        /\ cache'[k].held /\ ~cache'[k].overtaken => cache'[k].value >= promised[k]
  BY <1>1, <1>3, <1>4 DEF KeptInv
<1>6. "unkept" \notin faults'
  BY <1>2 DEF KeptInv, OwnChangesAreSeen
<1> QED
  BY <1>2, <1>4, <1>5, <1>6, FetchEnds DEF key

LEMMA ActDoneStep ==
    ASSUME DockerIInv, NEW r \in Readers, ActDone(r)
    PROVE  DockerIInv'
<1> USE DEF DockerIInv
<1> DEFINE keys == ClearsAfterAction(reader[r].pc)
<1>1. keys \in SUBSET DockerKeys /\ ("all" \in keys <=> "running" \in keys)
  BY DEF ClearsAfterAction, DockerKeys
<1>2. AtRest \in ReaderStates /\ AtRest.pc = "idle" /\ AtRest.floor = 0
  BY DEF AtRest, ReaderStates, DockerKeys
<1>3. reader[r].pc # "waits" /\ reader[r].floor \in Nat /\ reader[r].floor <= version
  BY DEF ActDone, DockerKinds, DockerTypes, ReaderStates, PromisesInv
<1>4. /\ UNCHANGED <<version, faults, events>> /\ Invalidate(keys, reader[r].floor)
      /\ reader' = [reader EXCEPT ![r] = AtRest]
  BY DEF ActDone, streamVars
<1>5. /\ reader' \in [Readers -> ReaderStates] /\ reader'[r] = AtRest
      /\ \A w \in Readers \ {r} : reader'[w] = reader[w]
  BY <1>2, <1>4 DEF DockerTypes
<1> HIDE DEF keys
<1>6. /\ events' \in Seq(EventRecords)
      /\ \A i \in 1 .. Len(events') : events'[i].about <= version
  BY <1>4 DEF DockerTypes, PromisesInv
<1>7. ASSUME NEW w \in Readers
      PROVE  \/ reader'[w] = reader[w]
             \/ reader'[w].pc = "idle" /\ reader[w].pc # "waits" /\ reader'[w].floor = 0
  <2>1. CASE w = r
    BY <1>2, <1>3, <1>5, <2>1
  <2>2. CASE w # r
    BY <1>5, <2>2
  <2> QED
    BY <2>1, <2>2
<1> QED
  BY <1>1, <1>3, <1>4, <1>5, <1>6, <1>7, InvalidateKeeps

LEMMA HandleEventStep ==
    ASSUME DockerIInv, HandleEvent
    PROVE  DockerIInv'
<1> USE DEF DockerIInv
<1> DEFINE keys == Clears(Head(events).kind)
<1>1. /\ events \in Seq(EventRecords) /\ events # << >> /\ Head(events) \in EventRecords
      /\ Head(events) = events[1] /\ 1 \in 1 .. Len(events)
  BY DEF HandleEvent, DockerTypes
<1>2. keys \in SUBSET DockerKeys /\ ("all" \in keys <=> "running" \in keys)
  BY <1>1 DEF Clears, DockerKeys, EventRecords, DockerKinds
<1>3. Head(events).about \in Nat /\ Head(events).about <= version
  BY <1>1 DEF EventRecords, PromisesInv
<1>4. /\ UNCHANGED <<version, faults, reader>> /\ events' = Tail(events)
      /\ Invalidate(keys, Head(events).about)
  BY DEF HandleEvent
<1>5. /\ events' \in Seq(EventRecords) /\ Len(events') = Len(events) - 1
      /\ \A i \in 1 .. Len(events') : events'[i] = events[i + 1] /\ i + 1 \in 1 .. Len(events)
  BY <1>1, <1>4
<1>6. \A i \in 1 .. Len(events') : events'[i].about <= version
  BY <1>5 DEF PromisesInv
<1>7. reader' \in [Readers -> ReaderStates]
  BY <1>4 DEF DockerTypes
<1> HIDE DEF keys
<1> QED
  BY <1>2, <1>3, <1>4, <1>5, <1>6, <1>7, InvalidateKeeps

\* A version more, with its event on the stream.
LEMMA ChangeKeeps ==
    ASSUME DockerIInv, NEW kind \in DockerKinds, DockerChanges(kind),
           UNCHANGED <<cache, fetch, promised, faults>>,
           reader' \in [Readers -> ReaderStates],
           \A r \in Readers : \/ reader'[r] = reader[r]
                              \/ reader[r].pc = "idle" /\ reader'[r].pc # "waits"
                                 /\ reader'[r].floor = version'
    PROVE  DockerIInv'
<1> USE DEF DockerIInv
<1>1. version \in Nat /\ version' = version + 1 /\ version' \in Nat
  BY DEF DockerTypes, DockerChanges
<1>2. /\ events' \in Seq(EventRecords)
      /\ \A i \in 1 .. Len(events') : events'[i].about <= version'
  <2> DEFINE new == [kind |-> kind, about |-> version']
  <2>1. new \in EventRecords /\ new.about = version'
    BY <1>1 DEF EventRecords
  <2>2. events \in Seq(EventRecords)
        /\ \A i \in 1 .. Len(events) : events[i].about <= version'
    <3>1. \A i \in 1 .. Len(events) : events[i] \in EventRecords
      BY DEF DockerTypes
    <3> QED
      BY <1>1, <3>1 DEF DockerTypes, PromisesInv, EventRecords
  <2>3. events' = Append(events, new) \/ events' = events
    BY DEF DockerChanges
  <2> HIDE DEF new
  <2>4. CASE events' = Append(events, new)
    <3>1. Len(events') = Len(events) + 1 /\ events' \in Seq(EventRecords)
          /\ events'[Len(events) + 1] = new
          /\ \A i \in 1 .. Len(events) : events'[i] = events[i]
      BY <2>1, <2>2, <2>4
    <3>2. \A i \in 1 .. Len(events') : i \in 1 .. Len(events) \/ i = Len(events) + 1
      BY <2>2, <3>1
    <3> QED
      BY <1>1, <2>1, <2>2, <3>1, <3>2
  <2> QED
    BY <2>2, <2>3, <2>4
<1>3. DockerTypes'
  BY <1>1, <1>2 DEF DockerTypes
<1>4. PromisesInv'
  <2>1. \A k \in DockerKeys : promised'[k] <= version'
    BY <1>1 DEF PromisesInv, DockerTypes
  <2>2. ASSUME NEW r \in Readers PROVE reader'[r].floor <= version'
    <3>1. reader[r].floor \in Nat /\ reader[r].floor <= version
      BY DEF PromisesInv, DockerTypes, ReaderStates
    <3>2. reader'[r].floor = reader[r].floor \/ reader'[r].floor = version'
      OBVIOUS
    <3> QED
      BY <1>1, <3>1, <3>2
  <2> QED
    BY <1>2, <2>1, <2>2 DEF PromisesInv
<1>5. \A r \in Readers : fetch[r].pc # "none" => reader'[r] = reader[r]
  BY DEF RequestsInv
<1>6. RequestsInv'
  BY <1>5 DEF RequestsInv
<1>7. KeptInv'
  <2>1. \A w \in Readers : reader'[w].pc = "waits" => reader'[w] = reader[w]
    OBVIOUS
  <2> QED
    BY <2>1 DEF KeptInv, OwnChangesAreSeen
<1> QED
  BY <1>3, <1>4, <1>6, <1>7

LEMMA ChangeStep ==
    ASSUME DockerIInv, NEW kind \in DockerKinds,
           OthersChange(kind) \/ \E r \in Readers : Act(r, kind)
    PROVE  DockerIInv'
<1>1. CASE OthersChange(kind)
  BY <1>1, ChangeKeeps DEF OthersChange, cacheVars, DockerIInv, DockerTypes
<1>2. ASSUME NEW r \in Readers, Act(r, kind) PROVE DockerIInv'
  <2> DEFINE acts == [AtRest EXCEPT !.pc = kind, !.floor = version']
  <2>1. version' \in Nat
    BY <1>2 DEF Act, DockerChanges, DockerIInv, DockerTypes
  <2>2. acts \in ReaderStates /\ acts.pc = kind /\ acts.floor = version' /\ acts.pc # "waits"
    BY <2>1 DEF AtRest, ReaderStates, DockerKeys, DockerKinds
  <2> HIDE DEF acts
  <2>3. /\ DockerChanges(kind) /\ UNCHANGED <<cache, fetch, promised, faults>>
        /\ reader[r].pc = "idle" /\ reader' = [reader EXCEPT ![r] = acts]
    BY <1>2 DEF Act, acts
  <2>4. /\ reader' \in [Readers -> ReaderStates] /\ reader'[r] = acts
        /\ \A w \in Readers \ {r} : reader'[w] = reader[w]
    BY <2>2, <2>3 DEF DockerIInv, DockerTypes
  <2>5. ASSUME NEW w \in Readers
        PROVE  \/ reader'[w] = reader[w]
               \/ reader[w].pc = "idle" /\ reader'[w].pc # "waits" /\ reader'[w].floor = version'
    <3>1. CASE w = r
      BY <2>2, <2>3, <2>4, <3>1
    <3>2. CASE w # r
      BY <2>4, <3>2
    <3> QED
      BY <3>1, <3>2
  <2> QED
    BY <2>3, <2>4, <2>5, ChangeKeeps
<1> QED
  BY <1>1, <1>2

LEMMA StreamEventsKeep ==
    ASSUME DockerIInv, Attach \/ AttachFails \/ StreamEnds \/ ReconnectFires
    PROVE  DockerIInv'
<1>1. UNCHANGED <<version, cache, fetch, reader, promised, faults>>
      /\ (events' = events \/ events' = << >>)
  BY DEF Attach, AttachFails, StreamEnds, ReconnectFires, cacheVars
<1>2. << >> \in Seq(EventRecords) /\ Len(<< >>) = 0
  OBVIOUS
<1>3. /\ events' \in Seq(EventRecords)
      /\ \A i \in 1 .. Len(events') : events'[i].about <= version
  <2>1. events \in Seq(EventRecords) /\ \A i \in 1 .. Len(events) : events[i].about <= version
    BY DEF DockerIInv, DockerTypes, PromisesInv
  <2>2. CASE events' = events
    BY <2>1, <2>2
  <2>3. CASE events' = << >>
    <3>1. Len(events') = 0 /\ 1 .. 0 = {}
      BY <1>2, <2>3
    <3> QED
      BY <1>2, <2>3, <3>1
  <2> QED
    BY <1>1, <2>2, <2>3
<1> QED
  BY <1>1, <1>3
     DEF DockerIInv, DockerTypes, PromisesInv, RequestsInv, KeptInv, OwnChangesAreSeen

LEMMA TickStep ==
    ASSUME DockerIInv, DockerTick
    PROVE  DockerIInv'
<1> USE DEF DockerIInv
<1>1. UNCHANGED <<version, reader, promised, faults, events>>
  BY DEF DockerTick, streamVars
<1>2. \A k \in DockerKeys :
        /\ cache'[k] \in CacheEntries /\ cache'[k].held = cache[k].held
        /\ cache'[k].value = cache[k].value /\ cache'[k].by = cache[k].by
        /\ cache'[k].overtaken = cache[k].overtaken
  <2> SUFFICES ASSUME NEW k \in DockerKeys
               PROVE  /\ cache'[k] \in CacheEntries /\ cache'[k].held = cache[k].held
                      /\ cache'[k].value = cache[k].value /\ cache'[k].by = cache[k].by
                      /\ cache'[k].overtaken = cache[k].overtaken
    OBVIOUS
  <2>1. cache[k] \in CacheEntries
    BY DEF DockerTypes
  <2>2. Older(cache[k].age, DockerTtl) \in Nat
    BY <2>1 DEF Older, CacheEntries
  <2>3. cache'[k] = cache[k] \/ cache'[k] = [cache[k] EXCEPT !.age = Older(cache[k].age, DockerTtl)]
    BY DEF DockerTick
  <2> QED
    BY <2>1, <2>2, <2>3 DEF CacheEntries
<1>3. \A r \in Readers :
        /\ fetch'[r] \in Fetches /\ fetch'[r].pc = fetch[r].pc /\ fetch'[r].key = fetch[r].key
        /\ fetch'[r].value = fetch[r].value /\ fetch'[r].overtaken = fetch[r].overtaken
  <2> SUFFICES ASSUME NEW r \in Readers
               PROVE  /\ fetch'[r] \in Fetches /\ fetch'[r].pc = fetch[r].pc
                      /\ fetch'[r].key = fetch[r].key /\ fetch'[r].value = fetch[r].value
                      /\ fetch'[r].overtaken = fetch[r].overtaken
    OBVIOUS
  <2>1. fetch[r] \in Fetches /\ fetch[r].age + 1 \in Nat
    BY DEF DockerTypes, Fetches
  <2>2. fetch'[r] = fetch[r] \/ fetch'[r] = [fetch[r] EXCEPT !.age = fetch[r].age + 1]
    BY DEF DockerTick
  <2> QED
    BY <2>1, <2>2 DEF Fetches
<1>4. DockerTypes'
  <2>1. cache' \in [DockerKeys -> CacheEntries] /\ fetch' \in [Readers -> Fetches]
    BY <1>2, <1>3 DEF DockerTick
  <2> QED
    BY <1>1, <2>1 DEF DockerTypes
<1>5. PromisesInv'
  BY <1>1 DEF PromisesInv
<1>6. RequestsInv'
  BY <1>1, <1>2, <1>3 DEF RequestsInv
<1>7. KeptInv'
  BY <1>1, <1>2, <1>3 DEF KeptInv, OwnChangesAreSeen
<1> QED
  BY <1>4, <1>5, <1>6, <1>7

LEMMA ClientStep == DockerIInv /\ [DockerNext]_dockerVars => DockerIInv'
<1> SUFFICES ASSUME DockerIInv, [DockerNext]_dockerVars PROVE DockerIInv'
  OBVIOUS
<1>1. CASE UNCHANGED dockerVars
  BY <1>1 DEF dockerVars, DockerIInv, DockerTypes, PromisesInv, RequestsInv, KeptInv,
              OwnChangesAreSeen
<1>2. ASSUME NEW r \in Readers, NEW k \in DockerKeys,
             AskHit(r, k) \/ AskShared(r, k) \/ AskDocker(r, k)
      PROVE  DockerIInv'
  BY <1>2, AskStep
<1>3. ASSUME NEW r \in Readers, DockerReads(r) \/ FetchDone(r) \/ FetchFails(r) \/ ActDone(r)
      PROVE  DockerIInv'
  BY <1>3, DockerReadsStep, FetchDoneStep, FetchFailsStep, ActDoneStep
<1>4. ASSUME NEW kind \in DockerKinds, OthersChange(kind) \/ \E r \in Readers : Act(r, kind)
      PROVE  DockerIInv'
  BY <1>4, ChangeStep
<1>5. CASE HandleEvent \/ DockerTick
  BY <1>5, HandleEventStep, TickStep
<1>6. CASE Attach \/ AttachFails \/ StreamEnds \/ ReconnectFires
  BY <1>6, StreamEventsKeep
<1> QED
  BY <1>1, <1>2, <1>3, <1>4, <1>5, <1>6 DEF DockerNext

\* Types: the client of Docker

\* Nothing is held or on its way for longer than its time, or newer than what Docker has.
HeldInRange(entry) == entry.age <= DockerTtl /\ entry.value <= version
SentInRange(f) == f.age <= DockerTimeout /\ f.value <= version

ClientBounds ==
    /\ version <= MaxChanges /\ asks \in 0 .. MaxAsks /\ faults \subseteq {"old", "unkept"}
    /\ superseded \in [Versions -> 0 .. Overdue]
    /\ stream \in BOOLEAN /\ attaching \in BOOLEAN /\ timer \in BOOLEAN
    /\ \A k \in DockerKeys : HeldInRange(cache[k])
    /\ \A r \in Readers : SentInRange(fetch[r])

LEMMA EmptyInRange ==
    version \in Nat => HeldInRange(NoAnswer) /\ SentInRange(NoFetch)
BY DockerClientAssumption DEF HeldInRange, SentInRange, NoAnswer, NoFetch

LEMMA ClientBoundsInit == DockerInit => ClientBounds
<1> SUFFICES ASSUME DockerInit PROVE ClientBounds
  OBVIOUS
<1>1. 0 \in 0 .. Overdue /\ 0 \in 0 .. MaxAsks /\ 0 <= MaxChanges
  BY DockerClientAssumption DEF Overdue
<1> QED
  BY <1>1, EmptyInRange DEF DockerInit, ClientBounds

\* What is held and on its way as Docker goes on: the same, cleared, or not newer.
LEMMA InvalidateBounds ==
    ASSUME DockerTypes, ClientBounds, NEW keys, NEW about, Invalidate(keys, about)
    PROVE  /\ \A k \in DockerKeys : HeldInRange(cache'[k])
           /\ \A r \in Readers : SentInRange(fetch'[r])
<1>1. ASSUME NEW k \in DockerKeys PROVE HeldInRange(cache'[k])
  <2>1. cache[k] \in CacheEntries /\ HeldInRange(cache[k])
    BY DEF DockerTypes, ClientBounds
  <2>2. /\ [cache[k] EXCEPT !.held = FALSE].age = cache[k].age
        /\ [cache[k] EXCEPT !.held = FALSE].value = cache[k].value
    BY <2>1 DEF CacheEntries
  <2>3. cache'[k] \in {cache[k], [cache[k] EXCEPT !.held = FALSE], NoAnswer}
    BY DEF Invalidate, CacheWithout
  <2> QED
    BY <2>1, <2>2, <2>3, EmptyInRange DEF DockerTypes, HeldInRange
<1>2. ASSUME NEW r \in Readers PROVE SentInRange(fetch'[r])
  <2>1. fetch[r] \in Fetches /\ SentInRange(fetch[r])
    BY DEF DockerTypes, ClientBounds
  <2>2. /\ [fetch[r] EXCEPT !.overtaken = TRUE].age = fetch[r].age
        /\ [fetch[r] EXCEPT !.overtaken = TRUE].value = fetch[r].value
    BY <2>1 DEF Fetches
  <2>3. fetch'[r] \in {fetch[r], [fetch[r] EXCEPT !.overtaken = TRUE]}
    BY DEF Invalidate
  <2> QED
    BY <2>1, <2>2, <2>3 DEF SentInRange
<1> QED
  BY <1>1, <1>2

LEMMA AskBounds ==
    ASSUME DockerTypes, ClientBounds, NEW r \in Readers, NEW k \in DockerKeys,
           AskHit(r, k) \/ AskShared(r, k) \/ AskDocker(r, k)
    PROVE  ClientBounds'
<1>0. UNCHANGED <<version, superseded, stream, attaching, timer>>
  BY DEF AskHit, AskShared, AskDocker, streamVars
<1>1. asks' \in 0 .. MaxAsks
  BY DockerClientAssumption DEF AskHit, AskShared, AskDocker, ClientBounds
<1>2. faults' \subseteq {"old", "unkept"}
  BY DEF AskHit, AskShared, AskDocker, ClientBounds, Verdict
<1>3. (\A q \in DockerKeys : HeldInRange(cache[q])) /\ (\A q \in Readers : SentInRange(fetch[q]))
  BY DEF ClientBounds
<1>4. CASE AskHit(r, k) \/ AskShared(r, k)
  <2>1. cache' = cache /\ fetch' = fetch
    BY <1>4 DEF AskHit, AskShared
  <2> QED
    BY <1>0, <1>1, <1>2, <1>3, <2>1 DEF ClientBounds, HeldInRange, SentInRange
<1>5. CASE AskDocker(r, k)
  <2>1. /\ cache' = [cache EXCEPT ![k] = [cache[k] EXCEPT !.by = {r}]]
        /\ fetch' = [fetch EXCEPT ![r] = [NoFetch EXCEPT !.pc = "sent", !.key = k]]
    BY <1>5 DEF AskDocker, Placeholder
  <2>2. /\ [cache[k] EXCEPT !.by = {r}].age = cache[k].age
        /\ [cache[k] EXCEPT !.by = {r}].value = cache[k].value
    BY DEF DockerTypes, CacheEntries
  <2>3. /\ [NoFetch EXCEPT !.pc = "sent", !.key = k].age = NoFetch.age
        /\ [NoFetch EXCEPT !.pc = "sent", !.key = k].value = NoFetch.value
    BY DEF NoFetch
  <2>4. \A q \in DockerKeys : HeldInRange(cache'[q])
    BY <1>3, <2>1, <2>2 DEF HeldInRange, DockerTypes
  <2>5. \A q \in Readers : SentInRange(fetch'[q])
    BY <1>3, <2>1, <2>3, EmptyInRange DEF SentInRange, DockerTypes
  <2> QED
    BY <1>0, <1>1, <1>2, <2>4, <2>5 DEF ClientBounds, HeldInRange, SentInRange
<1> QED
  BY <1>4, <1>5

\* A request is answered by Docker, done, or has failed.
LEMMA FetchBounds ==
    ASSUME DockerTypes, ClientBounds, NEW r \in Readers,
           DockerReads(r) \/ FetchDone(r) \/ FetchFails(r)
    PROVE  ClientBounds'
<1>0. /\ UNCHANGED <<version, superseded, asks, stream, attaching, timer>>
      /\ version \in Nat /\ cache \in [DockerKeys -> CacheEntries] /\ fetch \in [Readers -> Fetches]
  BY DEF DockerReads, FetchDone, FetchFails, streamVars, DockerTypes
<1>1. (\A q \in DockerKeys : HeldInRange(cache[q])) /\ (\A q \in Readers : SentInRange(fetch[q]))
      /\ faults \subseteq {"old", "unkept"}
  BY DEF ClientBounds
<1>2. ASSUME faults' \subseteq {"old", "unkept"}, \A q \in DockerKeys : HeldInRange(cache'[q]),
             \A q \in Readers : SentInRange(fetch'[q])
      PROVE  ClientBounds'
  BY <1>0, <1>2 DEF ClientBounds, HeldInRange, SentInRange
<1>3. CASE DockerReads(r)
  <2>1. /\ fetch' = [fetch EXCEPT ![r] = [fetch[r] EXCEPT !.pc = "read", !.value = version]]
        /\ cache' = cache /\ faults' = faults
    BY <1>3 DEF DockerReads
  <2>2. ASSUME NEW q \in Readers PROVE SentInRange(fetch'[q])
    <3>1. fetch[q] \in Fetches /\ SentInRange(fetch[q])
      BY <1>0, <1>1
    <3>2. /\ fetch'[q].age = fetch[q].age
          /\ fetch'[q].value = fetch[q].value \/ fetch'[q].value = version
      BY <1>0, <2>1 DEF Fetches
    <3> QED
      BY <1>0, <3>1, <3>2 DEF SentInRange
  <2> QED
    BY <1>1, <1>2, <2>1, <2>2
<1>4. CASE FetchDone(r)
  <2> DEFINE filled == [held |-> TRUE, value |-> fetch[r].value, age |-> 0, by |-> {},
                        overtaken |-> fetch[r].overtaken]
  <2>1. /\ \A q \in DockerKeys : cache'[q] \in {cache[q], filled}
        /\ fetch' = [fetch EXCEPT ![r] = NoFetch]
        /\ faults' = faults \cup UNION {Verdict(fetch[r].value, fetch[r].overtaken,
                                                reader[w].floor) : w \in WaitersOf(r)}
    BY <1>4 DEF FetchDone
  <2>2. HeldInRange(filled)
    BY <1>1, DockerClientAssumption DEF HeldInRange, SentInRange
  <2> HIDE DEF filled
  <2>3. \A q \in DockerKeys : HeldInRange(cache'[q])
    BY <1>1, <2>1, <2>2
  <2>4. \A q \in Readers : SentInRange(fetch'[q])
    BY <1>0, <1>1, <2>1, EmptyInRange
  <2>5. faults' \subseteq {"old", "unkept"}
    BY <1>1, <2>1 DEF Verdict
  <2> QED
    BY <1>2, <2>3, <2>4, <2>5
<1>5. CASE FetchFails(r)
  <2> DEFINE k == fetch[r].key
  <2>1. /\ cache' = [cache EXCEPT ![k] = IF k = "df" THEN [cache[k] EXCEPT !.by = {}]
                                         ELSE NoAnswer]
        /\ fetch' = [fetch EXCEPT ![r] = NoFetch] /\ faults' = faults /\ k \in DockerKeys
    BY <1>0, <1>5 DEF FetchFails, Fetches
  <2>2. /\ [cache[k] EXCEPT !.by = {}].age = cache[k].age
        /\ [cache[k] EXCEPT !.by = {}].value = cache[k].value
    BY <1>0, <2>1 DEF CacheEntries
  <2> HIDE DEF k
  <2>3. HeldInRange([cache[k] EXCEPT !.by = {}])
    BY <1>1, <2>1, <2>2 DEF HeldInRange
  <2>4. \A q \in DockerKeys : HeldInRange(cache'[q])
    BY <1>0, <1>1, <2>1, <2>3, EmptyInRange
  <2>5. \A q \in Readers : SentInRange(fetch'[q])
    BY <1>0, <1>1, <2>1, EmptyInRange
  <2> QED
    BY <1>1, <1>2, <2>1, <2>4, <2>5
<1> QED
  BY <1>3, <1>4, <1>5

\* An action of this client ends, or an event is handled: the caches are cleared.
LEMMA ClearBounds ==
    ASSUME DockerTypes, ClientBounds, HandleEvent \/ \E r \in Readers : ActDone(r)
    PROVE  ClientBounds'
<1>1. UNCHANGED <<version, superseded, faults, asks, stream, attaching, timer>>
  BY DEF HandleEvent, ActDone, streamVars
<1>2. \E keys, about : Invalidate(keys, about)
  BY DEF HandleEvent, ActDone
<1>3. /\ \A k \in DockerKeys : HeldInRange(cache'[k])
      /\ \A r \in Readers : SentInRange(fetch'[r])
  BY <1>2, InvalidateBounds
<1> QED
  BY <1>1, <1>3 DEF ClientBounds, HeldInRange, SentInRange

\* Docker changes, or the stream does.
LEMMA WorldBounds ==
    ASSUME DockerTypes, ClientBounds,
           \/ \E kind \in DockerKinds : OthersChange(kind) \/ \E r \in Readers : Act(r, kind)
           \/ Attach \/ AttachFails \/ StreamEnds \/ ReconnectFires
    PROVE  ClientBounds'
<1>0. /\ \A k \in DockerKeys : cache[k] \in CacheEntries /\ HeldInRange(cache[k])
      /\ \A r \in Readers : fetch[r] \in Fetches /\ SentInRange(fetch[r])
      /\ version \in Nat /\ version <= MaxChanges
  BY DEF DockerTypes, ClientBounds
<1>1. /\ UNCHANGED <<superseded, cache, fetch, faults, asks>>
      /\ version' = version \/ (version' = version + 1 /\ version < MaxChanges)
      /\ stream' \in BOOLEAN /\ attaching' \in BOOLEAN /\ timer' \in BOOLEAN
  BY DEF ClientBounds, OthersChange, Act, Attach, AttachFails, StreamEnds, ReconnectFires,
         DockerChanges, ScheduleReconnect, cacheVars
<1>2. version <= version' /\ version' <= MaxChanges /\ version' \in Nat
  BY <1>0, <1>1, DockerClientAssumption
<1>3. (\A k \in DockerKeys : HeldInRange(cache[k]))'
  <2> TAKE k \in DockerKeys
  <2>1. cache[k].value \in Nat /\ cache[k].value <= version
    BY <1>0 DEF CacheEntries, HeldInRange
  <2> QED
    BY <1>0, <1>1, <1>2, <2>1 DEF HeldInRange
<1>4. (\A r \in Readers : SentInRange(fetch[r]))'
  <2> TAKE r \in Readers
  <2>1. fetch[r].value \in Nat /\ fetch[r].value <= version
    BY <1>0 DEF Fetches, SentInRange
  <2> QED
    BY <1>0, <1>1, <1>2, <2>1 DEF SentInRange
<1> QED
  BY <1>1, <1>2, <1>3, <1>4 DEF ClientBounds

LEMMA TickBounds ==
    ASSUME DockerTypes, ClientBounds, DockerTick
    PROVE  ClientBounds'
<1>1. UNCHANGED <<version, faults, asks, stream, attaching, timer>>
  BY DEF DockerTick, streamVars
<1>2. \A n \in Nat, limit \in Nat : /\ n <= limit => Older(n, limit) <= limit
                                    /\ Older(n, limit) \in Nat
  BY DEF Older
<1>3. superseded' \in [Versions -> 0 .. Overdue]
  <2>1. \A v \in Versions : (IF v < version THEN Older(superseded[v], Overdue) ELSE 0)
                              \in 0 .. Overdue
    <3> TAKE v \in Versions
    <3>1. superseded[v] \in 0 .. Overdue /\ Overdue \in Nat
      BY DockerClientAssumption DEF ClientBounds, Overdue
    <3>2. superseded[v] \in Nat /\ superseded[v] <= Overdue
      BY <3>1
    <3>3. Older(superseded[v], Overdue) \in Nat /\ Older(superseded[v], Overdue) <= Overdue
      BY <1>2, <3>1, <3>2
    <3> HIDE DEF Versions
    <3> QED
      BY <3>1, <3>3
  <2> QED
    BY <2>1 DEF DockerTick
<1>4. ASSUME NEW k \in DockerKeys PROVE HeldInRange(cache'[k])
  <2> DEFINE age == Older(cache[k].age, DockerTtl)
  <2>1. cache[k] \in CacheEntries /\ HeldInRange(cache[k])
    BY DEF DockerTypes, ClientBounds
  <2>2. age <= DockerTtl
    BY <1>2, <2>1, DockerClientAssumption DEF CacheEntries, HeldInRange
  <2>3. cache'[k] \in {cache[k], [cache[k] EXCEPT !.age = age]}
    BY DEF DockerTick
  <2> HIDE DEF age
  <2>4. /\ [cache[k] EXCEPT !.age = age].age = age
        /\ [cache[k] EXCEPT !.age = age].value = cache[k].value
    BY <2>1 DEF CacheEntries
  <2> QED
    BY <2>1, <2>2, <2>3, <2>4 DEF HeldInRange
<1>5. ASSUME NEW r \in Readers PROVE SentInRange(fetch'[r])
  <2> DEFINE age == fetch[r].age + 1
  <2>1. fetch[r] \in Fetches /\ SentInRange(fetch[r])
    BY DEF DockerTypes, ClientBounds
  <2>2. fetch[r].pc # "none" => age <= DockerTimeout
    BY <2>1, DockerClientAssumption DEF DockerTick, Fetches
  <2>3. fetch'[r] = IF fetch[r].pc # "none" THEN [fetch[r] EXCEPT !.age = age] ELSE fetch[r]
    BY DEF DockerTick
  <2> HIDE DEF age
  <2>4. /\ [fetch[r] EXCEPT !.age = age].age = age
        /\ [fetch[r] EXCEPT !.age = age].value = fetch[r].value
    BY <2>1 DEF Fetches
  <2> QED
    BY <2>1, <2>2, <2>3, <2>4 DEF SentInRange
<1> QED
  BY <1>1, <1>3, <1>4, <1>5 DEF ClientBounds, HeldInRange, SentInRange

LEMMA ClientBoundsStep ==
    DockerIInv /\ ClientBounds /\ [DockerNext]_dockerVars => ClientBounds'
<1> SUFFICES ASSUME DockerTypes, ClientBounds, [DockerNext]_dockerVars PROVE ClientBounds'
  BY DEF DockerIInv
<1>1. CASE UNCHANGED dockerVars
  BY <1>1 DEF dockerVars, ClientBounds, HeldInRange, SentInRange
<1>2. ASSUME NEW r \in Readers, NEW k \in DockerKeys,
             AskHit(r, k) \/ AskShared(r, k) \/ AskDocker(r, k)
      PROVE  ClientBounds'
  BY <1>2, AskBounds
<1>3. ASSUME NEW r \in Readers, DockerReads(r) \/ FetchDone(r) \/ FetchFails(r)
      PROVE  ClientBounds'
  BY <1>3, FetchBounds
<1>4. CASE HandleEvent \/ \E r \in Readers : ActDone(r)
  BY <1>4, ClearBounds
<1>5. CASE \/ \E kind \in DockerKinds : OthersChange(kind) \/ \E r \in Readers : Act(r, kind)
           \/ Attach \/ AttachFails \/ StreamEnds \/ ReconnectFires
  BY <1>5, WorldBounds
<1>6. CASE DockerTick
  BY <1>6, TickBounds
<1> QED
  BY <1>1, <1>2, <1>3, <1>4, <1>5, <1>6 DEF DockerNext

\* What is promised, and what events are about, is a version Docker has.
LEMMA ClientTypes == StreamInv /\ DockerIInv /\ ClientBounds => DockerTypeOK
<1> SUFFICES ASSUME StreamInv, DockerTypes, PromisesInv, ClientBounds PROVE DockerTypeOK
  BY DEF DockerIInv
<1>1. \A n \in Nat : n <= version => n \in Versions
  BY DockerClientAssumption DEF DockerTypes, ClientBounds, Versions
<1>2. \A n \in Nat : /\ n <= DockerTtl => n \in 0 .. DockerTtl
                     /\ n <= DockerTimeout => n \in 0 .. DockerTimeout
  BY DockerClientAssumption
<1>3. version \in Versions
  BY <1>1 DEF DockerTypes
<1>4. cache \in [DockerKeys -> [held : BOOLEAN, value : Versions, age : 0 .. DockerTtl,
                                by : SUBSET Readers, overtaken : BOOLEAN]]
  <2>1. \A k \in DockerKeys : cache[k] \in CacheEntries /\ HeldInRange(cache[k])
    BY DEF DockerTypes, ClientBounds
  <2>2. \A k \in DockerKeys : cache[k].value \in Versions /\ cache[k].age \in 0 .. DockerTtl
    BY <1>1, <1>2, <2>1 DEF HeldInRange, CacheEntries
  <2> QED
    BY <2>1, <2>2 DEF DockerTypes, CacheEntries
<1>5. fetch \in [Readers -> [pc : {"none", "sent", "read"}, key : DockerKeys, value : Versions,
                             age : 0 .. DockerTimeout, overtaken : BOOLEAN]]
  <2>1. \A r \in Readers : fetch[r] \in Fetches /\ SentInRange(fetch[r])
    BY DEF DockerTypes, ClientBounds
  <2>2. \A r \in Readers : fetch[r].value \in Versions /\ fetch[r].age \in 0 .. DockerTimeout
    BY <1>1, <1>2, <2>1 DEF SentInRange, Fetches
  <2> QED
    BY <2>1, <2>2 DEF DockerTypes, Fetches
<1>6. reader \in [Readers -> [pc : {"idle", "waits"} \cup DockerKinds, key : DockerKeys,
                              on : SUBSET Readers, floor : Versions]]
  <2>1. \A r \in Readers : reader[r] \in ReaderStates /\ reader[r].floor \in Versions
    BY <1>1 DEF DockerTypes, PromisesInv, ReaderStates
  <2> QED
    BY <2>1 DEF DockerTypes, ReaderStates
<1>7. promised \in [DockerKeys -> Versions]
  BY <1>1 DEF DockerTypes, PromisesInv
<1>8. events \in Seq([kind : DockerKinds, about : Versions])
  <2>1. /\ Len(events) \in Nat /\ events \in [1 .. Len(events) -> EventRecords]
    BY LenProperties DEF DockerTypes
  <2>2. \A i \in 1 .. Len(events) : events[i] \in [kind : DockerKinds, about : Versions]
    BY <1>1, <2>1 DEF PromisesInv, EventRecords
  <2> DEFINE R == [kind : DockerKinds, about : Versions]
  <2>3. events \in [1 .. Len(events) -> R]
    BY <2>1, <2>2
  <2> HIDE DEF R
  <2>4. events \in Seq(R)
    BY <2>1, <2>3, SeqDef
  <2> QED
    BY <2>4 DEF R
<1> QED
  BY <1>3, <1>4, <1>5, <1>6, <1>7, <1>8 DEF DockerTypeOK, ClientBounds, StreamInv

\* Caches, requests and the stream have their types for any number of requests and changes: no
\* answer is newer than what Docker has, and none is kept or awaited for longer than its time
\* (dockerode-client.ts:55).
THEOREM DockerTypesStay == DockerSpec => []DockerTypeOK
BY StreamInit, StreamStep, ClientInit, ClientStep, ClientBoundsInit, ClientBoundsStep, ClientTypes,
   PTL DEF DockerSpec

\* Recent answers: what Docker replaced while a request was on its way was replaced no longer ago
\* than the request is old, and what is held, no longer ago than that and the time it has been held.
HeldRecently(entry) ==
    entry.held /\ entry.age < DockerTtl => superseded[entry.value] <= entry.age + DockerTimeout
SentRecently(f) == f.pc = "read" => superseded[f.value] <= f.age

RecentInv ==
    /\ \A v \in Versions : v >= version => superseded[v] = 0
    /\ \A k \in DockerKeys : HeldRecently(cache[k])
    /\ \A r \in Readers : SentRecently(fetch[r])
    /\ AnswersAreRecent

LEMMA RecentInit == DockerInit => RecentInv
BY DEF DockerInit, RecentInv, HeldRecently, SentRecently, AnswersAreRecent, NoAnswer, NoFetch

\* The ranges that the next lemmas need.
ClientRanges ==
    /\ version \in Versions /\ superseded \in [Versions -> 0 .. Overdue]
    /\ \A k \in DockerKeys : cache[k] \in CacheEntries /\ cache[k].value \in Versions
    /\ \A r \in Readers : /\ fetch[r] \in Fetches /\ fetch[r].value \in Versions
                          /\ fetch[r].age <= DockerTimeout
    /\ cache \in [DockerKeys -> CacheEntries] /\ fetch \in [Readers -> Fetches]

LEMMA ClientInRange == DockerIInv /\ ClientBounds => ClientRanges
<1> SUFFICES ASSUME DockerIInv, ClientBounds PROVE ClientRanges
  OBVIOUS
<1>1. DockerTypes
  BY DEF DockerIInv
<1>2. \A n \in Nat : n <= version => n \in Versions
  BY <1>1, DockerClientAssumption DEF DockerTypes, ClientBounds, Versions
<1>3. ASSUME NEW k \in DockerKeys PROVE cache[k] \in CacheEntries /\ cache[k].value \in Versions
  BY <1>1, <1>2 DEF DockerTypes, ClientBounds, HeldInRange, CacheEntries
<1>4. ASSUME NEW r \in Readers
      PROVE  /\ fetch[r] \in Fetches /\ fetch[r].value \in Versions
             /\ fetch[r].age <= DockerTimeout
  BY <1>1, <1>2 DEF DockerTypes, ClientBounds, SentInRange, Fetches
<1>5. version \in Versions
  BY <1>1, <1>2 DEF DockerTypes
<1> QED
  BY <1>1, <1>3, <1>4, <1>5 DEF ClientRanges, DockerTypes, ClientBounds

\* An answer as old as a cache and a request may make it is not too old.
LEMMA NotOld ==
    ASSUME NEW v \in Versions, superseded \in [Versions -> 0 .. Overdue],
           superseded[v] < Overdue, NEW cleared, NEW floor
    PROVE  "old" \notin Verdict(v, cleared, floor)
<1>1. ~(superseded[v] >= Overdue)
  BY DockerClientAssumption DEF Overdue
<1> QED
  BY <1>1 DEF Verdict

LEMMA AskRecent ==
    ASSUME ClientRanges, RecentInv, NEW r \in Readers, NEW k \in DockerKeys,
           AskHit(r, k) \/ AskShared(r, k) \/ AskDocker(r, k)
    PROVE  RecentInv'
<1>0. UNCHANGED <<version, superseded>>
  BY DEF AskHit, AskShared, AskDocker
<1>1. CASE AskHit(r, k)
  <2>1. Served(k) \in DockerKeys
    BY DEF Served, DockerKeys
  <2>2. superseded[cache[Served(k)].value] < Overdue
    BY <1>1, <2>1, DockerClientAssumption
       DEF AskHit, FreshAnswer, RecentInv, HeldRecently, ClientRanges, CacheEntries, Overdue
  <2>3. "old" \notin Verdict(cache[Served(k)].value, cache[Served(k)].overtaken, promised[k])
    BY <2>1, <2>2, NotOld DEF ClientRanges
  <2> QED
    BY <1>0, <1>1, <2>3 DEF AskHit, RecentInv, HeldRecently, SentRecently, AnswersAreRecent
<1>2. CASE AskShared(r, k)
  BY <1>0, <1>2 DEF AskShared, RecentInv, HeldRecently, SentRecently, AnswersAreRecent
<1>3. CASE AskDocker(r, k)
  <2>1. /\ cache' = [cache EXCEPT ![k] = [cache[k] EXCEPT !.by = {r}]]
        /\ fetch' = [fetch EXCEPT ![r] = [NoFetch EXCEPT !.pc = "sent", !.key = k]]
        /\ faults' = faults
    BY <1>3 DEF AskDocker, Placeholder
  <2>2. \A q \in DockerKeys : /\ cache'[q].held = cache[q].held /\ cache'[q].age = cache[q].age
                              /\ cache'[q].value = cache[q].value
    BY <2>1 DEF ClientRanges, CacheEntries
  <2>3. \A q \in Readers : fetch'[q] = fetch[q] \/ fetch'[q].pc = "sent"
    BY <2>1 DEF NoFetch, ClientRanges
  <2> QED
    BY <1>0, <2>1, <2>2, <2>3 DEF RecentInv, HeldRecently, SentRecently, AnswersAreRecent
<1> QED
  BY <1>1, <1>2, <1>3

LEMMA FetchRecent ==
    ASSUME ClientRanges, RecentInv, NEW r \in Readers,
           DockerReads(r) \/ FetchDone(r) \/ FetchFails(r)
    PROVE  RecentInv'
<1>0. UNCHANGED <<version, superseded>>
  BY DEF DockerReads, FetchDone, FetchFails
<1>1. CASE DockerReads(r)
  <2>1. fetch' = [fetch EXCEPT ![r] = [fetch[r] EXCEPT !.pc = "read", !.value = version]]
        /\ cache' = cache /\ faults' = faults
    BY <1>1 DEF DockerReads
  <2>2. SentRecently(fetch'[r])
    <3>1. fetch'[r].value = version /\ fetch'[r].age = fetch[r].age /\ fetch[r].age \in Nat
      BY <2>1 DEF ClientRanges, Fetches
    <3>2. version \in Versions /\ version >= version
      BY DEF ClientRanges, Versions
    <3>3. superseded[version] = 0
      BY <3>2 DEF RecentInv
    <3> QED
      BY <3>1, <3>3 DEF SentRecently
  <2>3. \A q \in Readers \ {r} : fetch'[q] = fetch[q]
    BY <2>1 DEF ClientRanges
  <2> QED
    BY <1>0, <2>1, <2>2, <2>3 DEF RecentInv, HeldRecently, SentRecently, AnswersAreRecent
<1>2. CASE FetchDone(r)
  <2> DEFINE filled == [held |-> TRUE, value |-> fetch[r].value, age |-> 0, by |-> {},
                        overtaken |-> fetch[r].overtaken]
  <2>1. /\ \A q \in DockerKeys : cache'[q] \in {cache[q], filled}
        /\ fetch' = [fetch EXCEPT ![r] = NoFetch] /\ fetch[r].pc = "read"
        /\ faults' = faults \cup UNION {Verdict(fetch[r].value, fetch[r].overtaken,
                                                reader[w].floor) : w \in WaitersOf(r)}
    BY <1>2 DEF FetchDone
  <2>2. superseded[fetch[r].value] <= DockerTimeout /\ superseded[fetch[r].value] < Overdue
    BY <2>1, DockerClientAssumption DEF RecentInv, SentRecently, ClientRanges, Fetches, Overdue
  <2>3. \A w \in WaitersOf(r) :
          "old" \notin Verdict(fetch[r].value, fetch[r].overtaken, reader[w].floor)
    BY <2>2, NotOld DEF ClientRanges
  <2>4. HeldRecently(filled)
    BY <2>2, DockerClientAssumption DEF HeldRecently
  <2> HIDE DEF filled
  <2>5. \A q \in DockerKeys : HeldRecently(cache'[q])
    BY <2>1, <2>4 DEF RecentInv
  <2>6. \A q \in Readers : fetch'[q] = fetch[q] \/ fetch'[q].pc = "none"
    BY <2>1 DEF NoFetch, ClientRanges
  <2>7. "old" \notin faults'
    BY <2>1, <2>3 DEF RecentInv, AnswersAreRecent
  <2> QED
    BY <1>0, <2>5, <2>6, <2>7 DEF RecentInv, HeldRecently, SentRecently, AnswersAreRecent
<1>3. CASE FetchFails(r)
  <2> DEFINE k == fetch[r].key
  <2>1. /\ cache' = [cache EXCEPT ![k] = IF k = "df" THEN [cache[k] EXCEPT !.by = {}]
                                         ELSE NoAnswer]
        /\ fetch' = [fetch EXCEPT ![r] = NoFetch] /\ faults' = faults
    BY <1>3 DEF FetchFails
  <2>2. \A q \in DockerKeys : HeldRecently(cache'[q])
    BY <2>1 DEF RecentInv, HeldRecently, ClientRanges, CacheEntries, NoAnswer
  <2>3. \A q \in Readers : fetch'[q] = fetch[q] \/ fetch'[q].pc = "none"
    BY <2>1 DEF NoFetch, ClientRanges
  <2> QED
    BY <1>0, <2>1, <2>2, <2>3 DEF RecentInv, HeldRecently, SentRecently, AnswersAreRecent
<1> QED
  BY <1>1, <1>2, <1>3

LEMMA ClearRecent ==
    ASSUME ClientRanges, RecentInv, HandleEvent \/ \E r \in Readers : ActDone(r)
    PROVE  RecentInv'
<1>1. UNCHANGED <<version, superseded, faults>> /\ \E keys, about : Invalidate(keys, about)
  BY DEF HandleEvent, ActDone
<1>2. \A k \in DockerKeys : cache'[k] = cache[k] \/ ~cache'[k].held
  BY <1>1 DEF Invalidate, CacheWithout, NoAnswer, ClientRanges, CacheEntries
<1>3. \A r \in Readers : /\ fetch'[r].pc = fetch[r].pc /\ fetch'[r].value = fetch[r].value
                         /\ fetch'[r].age = fetch[r].age
  BY <1>1 DEF Invalidate, ClientRanges, Fetches
<1> QED
  BY <1>1, <1>2, <1>3 DEF RecentInv, HeldRecently, SentRecently, AnswersAreRecent

LEMMA WorldRecent ==
    ASSUME ClientRanges, RecentInv,
           \/ \E kind \in DockerKinds : OthersChange(kind) \/ \E r \in Readers : Act(r, kind)
           \/ Attach \/ AttachFails \/ StreamEnds \/ ReconnectFires
    PROVE  RecentInv'
<1>1. /\ UNCHANGED <<superseded, cache, fetch, faults>>
      /\ version' = version \/ version' = version + 1
  BY DEF OthersChange, Act, Attach, AttachFails, StreamEnds, ReconnectFires, DockerChanges,
         cacheVars
<1>2. \A v \in Versions : v >= version' => v >= version
  BY <1>1 DEF ClientRanges, Versions
<1> QED
  BY <1>1, <1>2 DEF RecentInv, HeldRecently, SentRecently, AnswersAreRecent

LEMMA TickRecent ==
    ASSUME ClientRanges, RecentInv, DockerTick
    PROVE  RecentInv'
<1>1. /\ UNCHANGED <<version, faults>>
      /\ superseded' = [v \in Versions |-> IF v < version THEN Older(superseded[v], Overdue)
                                           ELSE 0]
  BY DEF DockerTick
<1>2. \A v \in Versions : /\ superseded'[v] \in Nat /\ superseded[v] \in Nat
                          /\ superseded'[v] <= superseded[v] + 1
                          /\ v >= version => superseded'[v] = 0
  <2> TAKE v \in Versions
  <2>1. v \in Nat /\ version \in Nat /\ superseded[v] \in Nat /\ Overdue \in Nat
    BY DockerClientAssumption DEF ClientRanges, Versions, Overdue
  <2>2. superseded'[v] = IF v < version THEN Older(superseded[v], Overdue) ELSE 0
    BY <1>1
  <2> QED
    BY <2>1, <2>2 DEF Older
<1>3. ASSUME NEW k \in DockerKeys PROVE HeldRecently(cache[k])'
  <2> DEFINE age == Older(cache[k].age, DockerTtl)
  <2>1. cache[k] \in CacheEntries /\ cache[k].value \in Versions /\ HeldRecently(cache[k])
    BY DEF ClientRanges, RecentInv
  <2>2. cache'[k] = IF cache[k].held THEN [cache[k] EXCEPT !.age = age] ELSE cache[k]
    BY DEF DockerTick
  <2>3. age = IF cache[k].age < DockerTtl THEN cache[k].age + 1 ELSE cache[k].age
    BY DEF Older
  <2> HIDE DEF age
  <2>4. /\ cache'[k].held = cache[k].held /\ cache'[k].value = cache[k].value
        /\ cache[k].held => cache'[k].age = age
    BY <2>1, <2>2 DEF CacheEntries
  <2>5. CASE cache[k].held /\ age < DockerTtl
    <3>1. cache[k].age \in Nat /\ age = cache[k].age + 1 /\ cache[k].age < DockerTtl
      BY <2>1, <2>3, <2>5, DockerClientAssumption DEF CacheEntries
    <3>2. superseded[cache[k].value] <= cache[k].age + DockerTimeout
      BY <2>1, <2>5, <3>1 DEF HeldRecently
    <3>3. superseded'[cache[k].value] <= age + DockerTimeout
      BY <1>2, <2>1, <3>1, <3>2, DockerClientAssumption
    <3> QED
      BY <2>4, <2>5, <3>3 DEF HeldRecently
  <2> QED
    BY <2>4, <2>5 DEF HeldRecently
<1>4. ASSUME NEW r \in Readers PROVE SentRecently(fetch[r])'
  <2> DEFINE age == fetch[r].age + 1
  <2>1. fetch[r] \in Fetches /\ fetch[r].value \in Versions /\ SentRecently(fetch[r])
    BY DEF ClientRanges, RecentInv
  <2>2. fetch'[r] = IF fetch[r].pc # "none" THEN [fetch[r] EXCEPT !.age = age] ELSE fetch[r]
    BY DEF DockerTick
  <2>3. /\ fetch'[r].pc = fetch[r].pc /\ fetch'[r].value = fetch[r].value
        /\ fetch[r].pc = "read" => fetch'[r].age = fetch[r].age + 1
    BY <2>1, <2>2 DEF Fetches
  <2> QED
    BY <1>2, <2>1, <2>3 DEF SentRecently, Fetches
<1> QED
  BY <1>1, <1>2, <1>3, <1>4 DEF RecentInv, AnswersAreRecent

LEMMA RecentStep ==
    DockerIInv /\ ClientBounds /\ RecentInv /\ [DockerNext]_dockerVars => RecentInv'
<1> SUFFICES ASSUME ClientRanges, RecentInv, [DockerNext]_dockerVars PROVE RecentInv'
  BY ClientInRange
<1>1. CASE UNCHANGED dockerVars
  BY <1>1 DEF dockerVars, cacheVars, RecentInv, HeldRecently, SentRecently, AnswersAreRecent
<1>2. ASSUME NEW r \in Readers, NEW k \in DockerKeys,
             AskHit(r, k) \/ AskShared(r, k) \/ AskDocker(r, k)
      PROVE  RecentInv'
  BY <1>2, AskRecent
<1>3. ASSUME NEW r \in Readers, DockerReads(r) \/ FetchDone(r) \/ FetchFails(r)
      PROVE  RecentInv'
  BY <1>3, FetchRecent
<1>4. CASE HandleEvent \/ \E r \in Readers : ActDone(r)
  BY <1>4, ClearRecent
<1>5. CASE \/ \E kind \in DockerKinds : OthersChange(kind) \/ \E r \in Readers : Act(r, kind)
           \/ Attach \/ AttachFails \/ StreamEnds \/ ReconnectFires
  BY <1>5, WorldRecent
<1>6. CASE DockerTick
  BY <1>6, TickRecent
<1> QED
  BY <1>1, <1>2, <1>3, <1>4, <1>5, <1>6 DEF DockerNext

\* The client of Docker follows it, for any number of requests, changes and times: it is never deaf
\* for good and never listens twice, no cache hides what an action of this client or a handled event
\* was about, and no answer is older than a cache's time and a request's timeout together, however
\* requests are shared, overtaken, late or failing (dockerode-client.ts:154, 583, 643).
THEOREM DockerFollowed == DockerSpec => []DockerIsFollowed
<1>1. StreamInv /\ DockerIInv /\ RecentInv => DockerIsFollowed
  BY DEF StreamInv, DockerIInv, KeptInv, RecentInv, DockerIsFollowed
<1> QED
  BY <1>1, StreamInit, StreamStep, ClientInit, ClientStep, ClientBoundsInit, ClientBoundsStep,
     RecentInit, RecentStep, PTL DEF DockerSpec
================================================================================
