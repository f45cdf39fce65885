------------------------------ MODULE HostUpdate ------------------------------
(***************************************************************************)
(* The update of Docker on the host (docker-host-update.service.ts): apply    *)
(* runs a script on the host by `docker exec` into the host agent, and shows  *)
(* the progress lines it prints.  The script and the client that listens to   *)
(* it end separately: a time limit kills the client only, an update of the    *)
(* engine may break its connection, and the API may be restarted.            *)
(*                                                                         *)
(* A progress line is its percentage; 100 is the last line, 0 the line        *)
(* before a script gives up.                                                *)
(***************************************************************************)
EXTENDS Naturals, Sequences

CONSTANTS
    MaxHostCalls,  \* bound on the calls of apply
    MaxApiStarts   \* bound on the restarts of the API

ASSUME HostUpdateAssumption == MaxApiStarts \in Nat

VARIABLES
    hostStatus,    \* DockerHostUpdateService.current
    script,        \* per call, the script on the host: its component, lines and state
    client,        \* per call, the child process `docker exec` and what it has delivered
    apiStarts,
    orphans        \* calls whose script has outlived its client

hostVars == <<hostStatus, script, client, apiStarts, orphans>>

Components == {"engine", "compose"}
HostCalls == 1 .. MaxHostCalls    \* in the order of the calls

\* The lines a script prints: the first, one for those in between (installing by apt or
\* dnf, downloading, verifying), the last; or the first and that it gives up.
ScriptLines == {<<6, 50, 100>>, <<6, 0>>}

NoScript == [state |-> "none", component |-> "engine", lines |-> << >>, printed |-> 0]
NoClient == [pc |-> "none", taken |-> 0, rest |-> << >>]
Over == [NoClient EXCEPT !.pc = "over"]
IdleStatus == [updating |-> FALSE, target |-> "none", percent |-> 0, step |-> "idle", ok |-> "none"]

HostUpdateInit ==
    /\ hostStatus = IdleStatus
    /\ script = [c \in HostCalls |-> NoScript]
    /\ client = [c \in HostCalls |-> NoClient]
    /\ apiStarts = 0 /\ orphans = {}

ScriptRuns(c) == script[c].state = "running"
ClientListens(c) == client[c].pc = "listening"

----------------------------------------------------------------------------
\* The variant that starts beside an update that it is said is running.
MayUpdateAnyway == TRUE

MayUpdate == ~hostStatus.updating

\* apply: refused while an update is under way; the status is set and the client started,
\* which finds the host agent, and starts the script, or does not.
ApplyStarts(c) ==
    /\ client[c].pc = "none" /\ \A d \in 1 .. c - 1 : client[d].pc # "none"
    /\ MayUpdate
    /\ \E component \in Components :
         /\ hostStatus' = [updating |-> TRUE, target |-> component, percent |-> 2,
                           step |-> "start", ok |-> "none"]
         /\ \/ \E lines \in ScriptLines :
                  script' = [script EXCEPT ![c] = [NoScript EXCEPT !.state = "running",
                                                                  !.component = component,
                                                                  !.lines = lines]]
            \/ UNCHANGED script
    /\ client' = [client EXCEPT ![c].pc = "listening"]
    /\ UNCHANGED <<apiStarts, orphans>>

ScriptPrints(c) ==
    /\ ScriptRuns(c) /\ script[c].printed < Len(script[c].lines)
    /\ script' = [script EXCEPT ![c].printed = @ + 1]
    /\ UNCHANGED <<hostStatus, client, apiStarts, orphans>>

\* `set -e`: a command fails after any line; after the last line the script is done, or
\* has given up. Nobody sees the end of an orphan.
ScriptEnds(c) ==
    /\ ScriptRuns(c) /\ script[c].printed > 0
    /\ LET all == script[c].printed = Len(script[c].lines)
           last == script[c].lines[script[c].printed]
       IN  script' = [script EXCEPT ![c] = IF c \in orphans THEN NoScript ELSE
                        [@ EXCEPT !.state = IF all /\ last = 100 THEN "ok" ELSE "failed"]]
    /\ UNCHANGED <<hostStatus, client, apiStarts, orphans>>

\* The variant that shows every line.
IngestedAll(status, percent) == [status EXCEPT !.percent = percent, !.step = "line"]

\* ingestLine: a line that would go back is not shown.
Ingested(status, percent) ==
    IF percent < status.percent THEN status
    ELSE [status EXCEPT !.percent = percent, !.step = "line"]

\* The client delivers a line, also one that it had read when it was killed.
LineArrives(c) ==
    /\ \/ /\ ClientListens(c) /\ client[c].taken < script[c].printed
          /\ hostStatus' = Ingested(hostStatus, script[c].lines[client[c].taken + 1])
          /\ client' = [client EXCEPT ![c].taken = @ + 1]
       \/ /\ client[c].rest # << >>
          /\ hostStatus' = Ingested(hostStatus, Head(client[c].rest))
          /\ client' = [client EXCEPT ![c].rest = Tail(@)]
    /\ UNCHANGED <<script, apiStarts, orphans>>

UpdateFailed == [hostStatus EXCEPT !.updating = FALSE, !.step = "error", !.ok = "no"]
UpdateSucceeded ==
    [hostStatus EXCEPT !.updating = FALSE, !.percent = 100, !.step = "done", !.ok = "yes"]

\* The variant that does not look at the exit code.
ReportAnyCode(code) == UpdateSucceeded

ReportOf(code) == IF code # 0 THEN UpdateFailed ELSE UpdateSucceeded

\* The client closes with the script's exit code, when its lines are delivered, or with
\* docker's own.
ClientCloses(c) ==
    /\ ClientListens(c) /\ ~ScriptRuns(c)
    /\ client[c].taken = script[c].printed
    /\ hostStatus' = ReportOf(IF script[c].state = "ok" THEN 0 ELSE 1)
    /\ client' = [client EXCEPT ![c] = Over]
    /\ UNCHANGED <<script, apiStarts, orphans>>

\* The engine is restarted by the update: the connection breaks, and the script may go on.
ConnectionBreaks(c) ==
    /\ ClientListens(c) /\ ScriptRuns(c)
    /\ hostStatus' = ReportOf(1)
    /\ client' = [client EXCEPT ![c] = Over]
    /\ \/ script' = [script EXCEPT ![c].state = "failed"] /\ UNCHANGED orphans
       \/ UNCHANGED script /\ orphans' = orphans \cup {c}
    /\ UNCHANGED apiStarts

\* APPLY_TIMEOUT_MS: the client is killed, and the script goes on.
ApplyTimesOut(c) ==
    /\ ClientListens(c) /\ ScriptRuns(c)
    /\ hostStatus' = UpdateFailed
    /\ client' = [client EXCEPT ![c] =
          [Over EXCEPT !.rest = SubSeq(script[c].lines, client[c].taken + 1, script[c].printed)]]
    /\ orphans' = orphans \cup {c}
    /\ UNCHANGED <<script, apiStarts>>

\* The API is restarted and knows of no update.
HostApiRestarts ==
    /\ apiStarts < MaxApiStarts /\ apiStarts' = apiStarts + 1
    /\ hostStatus' = IdleStatus
    /\ client' = [c \in HostCalls |-> IF client[c].pc = "none" THEN NoClient
                                      ELSE Over]
    /\ orphans' = orphans \cup {c \in HostCalls : ClientListens(c) /\ ScriptRuns(c)}
    /\ UNCHANGED script

HostUpdateNext ==
    \/ \E c \in HostCalls :
          \/ ApplyStarts(c) \/ ScriptPrints(c) \/ ScriptEnds(c)
          \/ LineArrives(c) \/ ClientCloses(c) \/ ConnectionBreaks(c) \/ ApplyTimesOut(c)
    \/ HostApiRestarts

HostUpdateSpec == HostUpdateInit /\ [][HostUpdateNext]_hostVars
----------------------------------------------------------------------------
\* The status, the scripts and their clients have their types
\* (docker-host-update.service.ts:125).
HostUpdateTypeOK ==
    /\ hostStatus \in [updating : BOOLEAN, target : Components \cup {"none"}, percent : 0 .. 100,
                       step : {"idle", "start", "line", "done", "error"},
                       ok : {"none", "yes", "no"}]
    /\ \A c \in HostCalls :
         /\ script[c].state \in {"none", "running", "ok", "failed"}
         /\ script[c].printed \in 0 .. Len(script[c].lines)
         /\ client[c].pc \in {"none", "listening", "over"}
         /\ client[c].taken \in 0 .. 3 /\ Len(client[c].rest) <= 3
    /\ apiStarts \in 0 .. MaxApiStarts /\ orphans \subseteq HostCalls

Reports(c, ok) == ClientListens(c) /\ ~ClientListens(c)' /\ hostStatus'.ok = ok

\* What an update says of the host is so: success is reported of the component asked for
\* when its script has run to its end, failure when the script has failed, has never been
\* started, or goes on with nobody listening.
ReportsTheScript(c) ==
    /\ Reports(c, "yes") => script[c].state = "ok" /\ script[c].component = hostStatus.target
    /\ Reports(c, "no") => script'[c].state \in {"failed", "none"} \/ c \in orphans'

\* No script is started beside a running one, unless that one has outlived its client.
StartsAlone(c) ==
    ~ScriptRuns(c) /\ ScriptRuns(c)' => \A d \in HostCalls \ {c} : ScriptRuns(d) => d \in orphans

\* The percentage shown of an update does not go back, and the report of one that has ended
\* stays until the next: but for a restart of the API and the last lines of a killed client.
ShownInOrder ==
    \/ apiStarts' # apiStarts
    \/ /\ hostStatus.updating => hostStatus'.percent >= hostStatus.percent
       /\ ~hostStatus.updating /\ ~hostStatus'.updating
            => \/ hostStatus' = hostStatus
               \/ \E c \in HostCalls : client'[c].rest # client[c].rest

\* Updates of Docker on the host are reported as they ended, one at a time and in order,
\* although scripts outlive the clients that follow them (DockerHostUpdateService.apply,
\* docker-host-update.service.ts:139).
HostUpdateIsTrue ==
    [][(\A c \in HostCalls : ReportsTheScript(c) /\ StartsAlone(c)) /\ ShownInOrder]_hostVars
================================================================================
