------------------------------- MODULE SelfUpdate -------------------------------
(***************************************************************************)
(* How Dockora updates itself in a Compose install: SelfUpdateService in   *)
(* the API, the script that runs in a container of its own, the updater,   *)
(* and the files they share.  The script rebuilds the stack, so it         *)
(* restarts the API that started it.                                       *)
(*                                                                         *)
(* A revision is a number; main only moves forward.  Revisions of the same *)
(* release carry the same version.                                         *)
(***************************************************************************)
EXTENDS Naturals, FiniteSets

CONSTANTS
    Clicks,         \* calls of apply()
    MaxRevision,    \* bound: commits on main
    VersionOf,      \* [1 .. MaxRevision -> Nat]: the version in package.json
    Installed,      \* the first .dockora-revision: 1, or 0 when there is none
    Watched         \* percentages that the compose log may stand for

ASSUME VersionsAssumption ==
    /\ MaxRevision \in Nat \ {0} /\ Installed \in {0, 1}
    /\ VersionOf \in [1 .. MaxRevision -> Nat]
    /\ \A r, s \in 1 .. MaxRevision : r <= s => VersionOf[r] <= VersionOf[s]
    /\ Watched \subseteq 29 .. 92

ASSUME ClicksAssumption == IsFiniteSet(Clicks)

VARIABLES
    remoteHead,     \* the head of main at GitHub
    source,         \* the revision of the files in the install directory
    image,          \* the revision the images were built from
    running,        \* the revision of the running API
    revision,       \* .dockora-revision, 0 when missing
    file,           \* .dockora-update-progress
    updater,        \* the container named dockora-self-updater
    lastUpdaterId,  \* the last container id given out
    updateInFlight,
    finalizers,     \* the updaters whose finalizeUpdater waits
    click           \* the local state of each apply()

selfUpdateVars == <<remoteHead, source, image, running, revision, file, updater,
                    lastUpdaterId, updateInFlight, finalizers, click>>
stackOnHost == <<remoteHead, source, image, running, revision>>

Revisions == 1 .. MaxRevision
UpdaterIds == 0 .. Cardinality(Clicks)
Percents == 0 .. 100
NoProgress == [percent |-> 0, step |-> "none"]
Progress == [percent : Percents, step : {"none", "work", "error", "done"}]
NoUpdater == [id |-> 0, state |-> "none", pc |-> "none", sha |-> 0, log |-> NoProgress]
Labels == {"none", "begin", "resolve", "sync", "rebuild", "build", "up", "built", "mark",
           "prune", "end", "hung", "left"}
Inspections == {"answers", "fails"}

SelfUpdateTypeOK ==
    /\ remoteHead \in Revisions /\ source \in Revisions
    /\ image \in Revisions /\ running \in Revisions
    /\ revision \in {0} \cup Revisions /\ file \in Progress /\ lastUpdaterId \in UpdaterIds
    /\ updater \in [id : UpdaterIds, state : {"none", "created", "running", "exited"}, pc : Labels,
                    sha : {0} \cup Revisions, log : Progress]
    /\ updateInFlight \in BOOLEAN /\ finalizers \subseteq UpdaterIds
    /\ click \in [Clicks -> [pc : {"idle", "inspect", "status", "pull", "remove", "create",
                                   "start", "ok", "failed", "refused", "lost"},
                             id : UpdaterIds, seen : UpdaterIds, inspection : Inspections]]

\* A finished install: the previous update, if any, has left its progress file.
SelfUpdateInit ==
    /\ remoteHead = 1 /\ source = 1 /\ image = 1 /\ running = 1 /\ revision = Installed
    /\ file \in {NoProgress, [percent |-> 100, step |-> "done"]}
    /\ updater = NoUpdater /\ lastUpdaterId = 0 /\ updateInFlight = FALSE /\ finalizers = {}
    /\ click = [c \in Clicks |-> [pc |-> "idle", id |-> 0, seen |-> 0,
                                 inspection |-> "answers"]]

Push ==
    /\ remoteHead < MaxRevision /\ remoteHead' = remoteHead + 1
    /\ UNCHANGED <<source, image, running, revision, file, updater, lastUpdaterId,
                   updateInFlight, finalizers, click>>

--------------------------------------------------------------------------------
\* status()

\* readLocalRevision: without a file the git HEAD of the install directory.
LocalRevision == IF revision # 0 THEN revision ELSE source

\* isSelfUpdateAvailable, when GitHub answers.
UpdateAvailable ==
    \/ LocalRevision # remoteHead
    \/ VersionOf[source] > VersionOf[running]
    \/ VersionOf[remoteHead] > VersionOf[running]

\* mergeProgress of the file and of the log of the container.
Shown ==
    IF \/ file.step = "done" /\ updater.log.percent \in 1 .. 99
       \/ updater.log.step # "none" /\ updater.log.percent >= file.percent
    THEN updater.log ELSE file

--------------------------------------------------------------------------------
\* apply(), up to the start of the updater

AtClick(c, label) == click[c].pc = label
ClickGoes(c, label) == click' = [click EXCEPT ![c].pc = label]
Answer(c, result) == ClickGoes(c, result) /\ updateInFlight' = FALSE

\* History: the last updater that has been started; the last one made may not have been.
LastStarted == IF updater.state = "created" THEN lastUpdaterId - 1 ELSE lastUpdaterId

ClickCall(c) ==
    /\ AtClick(c, "idle")
    /\ click' = [click EXCEPT ![c] =
                    [@ EXCEPT !.pc = IF updateInFlight THEN "refused" ELSE "inspect",
                              !.seen = LastStarted]]
    /\ UNCHANGED <<stackOnHost, file, updater, lastUpdaterId, updateInFlight, finalizers>>

\* Mutated form: only the flag of this process is looked at.
ClickInspectFlagOnly(c) ==
    /\ AtClick(c, "inspect") /\ ClickGoes(c, "status")
    /\ UNCHANGED <<stackOnHost, file, updater, lastUpdaterId, updateInFlight, finalizers>>

\* await isUpdaterRunning(): an inspection that fails is taken for no updater (history
\* component `inspection`).
ClickInspect(c) ==
    /\ AtClick(c, "inspect")
    /\ \/ ClickGoes(c, IF updater.state = "running" THEN "refused" ELSE "status")
       \/ /\ updater.state = "running"
          /\ click' = [click EXCEPT ![c] =
                         [click[c] EXCEPT !.pc = "status", !.inspection = "fails"]]
    /\ UNCHANGED <<stackOnHost, file, updater, lastUpdaterId, updateInFlight, finalizers>>

\* await status(); then applyCompose sets the flag.
ClickStatus(c) ==
    /\ AtClick(c, "status") /\ ClickGoes(c, "pull") /\ updateInFlight' = TRUE
    /\ UNCHANGED <<stackOnHost, file, updater, lastUpdaterId, finalizers>>

ClickPull(c) ==
    /\ AtClick(c, "pull")
    /\ Answer(c, "failed") \/ (ClickGoes(c, "remove") /\ UNCHANGED updateInFlight)
    /\ UNCHANGED <<stackOnHost, file, updater, lastUpdaterId, finalizers>>

\* Whatever has the updater's name is removed, running or not, or that fails unnoticed.
ClickRemove(c) ==
    /\ AtClick(c, "remove") /\ ClickGoes(c, "create")
    /\ updater' \in {NoUpdater, updater}
    /\ UNCHANGED <<stackOnHost, file, lastUpdaterId, updateInFlight, finalizers>>

ClickCreate(c) ==
    /\ AtClick(c, "create")
    /\ \/ /\ updater.state = "none"
          /\ lastUpdaterId' = lastUpdaterId + 1
          /\ updater' = [NoUpdater EXCEPT !.id = lastUpdaterId + 1, !.state = "created"]
          /\ click' = [click EXCEPT ![c] =
                         [click[c] EXCEPT !.pc = "start", !.id = lastUpdaterId + 1]]
          /\ UNCHANGED updateInFlight
       \/ Answer(c, "failed") /\ UNCHANGED <<lastUpdaterId, updater>>
    /\ UNCHANGED <<stackOnHost, file, finalizers>>

\* The updater starts, finalizeUpdater waits for it, and the caller is answered.
ClickStart(c) ==
    /\ AtClick(c, "start")
    /\ \/ /\ updater.id = click[c].id
          /\ updater' = [updater EXCEPT !.state = "running", !.pc = "begin"]
          /\ finalizers' = finalizers \cup {updater.id}
          /\ Answer(c, "ok")
       \/ Answer(c, "failed") /\ UNCHANGED <<updater, finalizers>>
    /\ UNCHANGED <<stackOnHost, file, lastUpdaterId>>

ClickStep(c) ==
    \/ ClickInspect(c) \/ ClickStatus(c) \/ ClickPull(c) \/ ClickRemove(c)
    \/ ClickCreate(c) \/ ClickStart(c)

\* Mutated form: the wait for the updater has no time limit.
FinalizeWithoutTimeout(i) ==
    /\ i \in finalizers /\ ~ (updater.id = i /\ updater.state = "running")
    /\ finalizers' = finalizers \ {i}
    /\ updater' = IF updater.id = i THEN NoUpdater ELSE updater
    /\ UNCHANGED <<stackOnHost, file, lastUpdaterId, updateInFlight, click>>

\* finalizeUpdater: the updater has ended, is gone, waiting for it fails, or 20 minutes have
\* passed; its container, and no other of the same name, is removed. If that fails an updater
\* that hangs is left as it is ("left"), and nothing waits for it any more.
Finalize(i) ==
    /\ i \in finalizers
    /\ finalizers' = finalizers \ {i}
    /\ \/ updater' = IF updater.id = i THEN NoUpdater ELSE updater
       \/ /\ updater.id = i
          /\ updater' = [updater EXCEPT !.pc = IF @ = "hung" THEN "left" ELSE @]
    /\ UNCHANGED <<stackOnHost, file, lastUpdaterId, updateInFlight, click>>

--------------------------------------------------------------------------------
\* The script

Script(label) == updater.state = "running" /\ updater.pc = label
Larger(a, b) == IF a > b THEN a ELSE b

\* Mutated form: the percentage is written as it comes.
WrittenAsIs(percent, step) == [percent |-> percent, step |-> step]

\* write_progress: never less than the file says already; an error keeps it.
Written(percent, step) == [percent |-> Larger(percent, file.percent), step |-> step]

\* The line in the log comes with the file; parseUpdaterLogs keeps the highest.
Logged(p) == IF p.percent >= updater.log.percent THEN p ELSE updater.log
Report(percent, step, label, state) ==
    LET p == Written(percent, step) IN
    /\ file' = p
    /\ updater' = [updater EXCEPT !.pc = label, !.state = state, !.log = Logged(p)]

\* `exit 1` and set -e.
Exit == updater' = [updater EXCEPT !.pc = "end", !.state = "exited"] /\ UNCHANGED file

\* The progress file of the last run is removed, and written anew.
ScriptBegin ==
    /\ Script("begin")
    /\ LET p == [percent |-> 4, step |-> "work"] IN
         file' = p /\ updater' = [updater EXCEPT !.pc = "resolve", !.log = p]
    /\ UNCHANGED <<stackOnHost, lastUpdaterId, updateInFlight, finalizers, click>>

ScriptResolve ==
    /\ Script("resolve")
    /\ \/ LET p == Written(12, "work") IN
            /\ file' = p
            /\ updater' = [updater EXCEPT !.pc = "sync", !.sha = remoteHead, !.log = Logged(p)]
       \/ Exit
    /\ UNCHANGED <<stackOnHost, lastUpdaterId, updateInFlight, finalizers, click>>

\* By git the revision is the new HEAD; a tarball may be newer than what was resolved.
ScriptSync ==
    /\ Script("sync")
    /\ \/ /\ source' = remoteHead
          /\ \E sha \in {remoteHead, updater.sha} :
               LET p == Written(22, "work") IN
               /\ file' = p
               /\ updater' = [updater EXCEPT !.pc = "rebuild", !.sha = sha, !.log = Logged(p)]
       \/ Exit /\ UNCHANGED source
    /\ UNCHANGED <<remoteHead, image, running, revision, lastUpdaterId,
                   updateInFlight, finalizers, click>>

\* Mutated form: the revision is written before the stackOnHost is rebuilt.
ScriptRebuildMarks ==
    /\ Script("rebuild") /\ Report(28, "work", "build", "running")
    /\ revision' = updater.sha
    /\ UNCHANGED <<remoteHead, source, image, running, lastUpdaterId,
                   updateInFlight, finalizers, click>>

ScriptRebuild ==
    /\ Script("rebuild") /\ Report(28, "work", "build", "running")
    /\ UNCHANGED <<stackOnHost, lastUpdaterId, updateInFlight, finalizers, click>>

\* watch_compose_log, while compose works.
ScriptWatch ==
    /\ \E label \in {"build", "up"} : Script(label)
    /\ \E percent \in Watched : Report(percent, "work", updater.pc, "running")
    /\ UNCHANGED <<stackOnHost, lastUpdaterId, updateInFlight, finalizers, click>>

ComposeFails == Report(0, "error", "end", "exited")

ScriptBuild ==
    /\ Script("build")
    /\ \/ image' = source /\ updater' = [updater EXCEPT !.pc = "up"] /\ UNCHANGED file
       \/ ComposeFails /\ UNCHANGED image
    /\ UNCHANGED <<remoteHead, source, running, revision, lastUpdaterId,
                   updateInFlight, finalizers, click>>

\* What dies with the API process: the flag, the waits and the calls under way.
ApiRestart ==
    /\ updateInFlight' = FALSE /\ finalizers' = {}
    /\ click' = [c \in Clicks |->
          IF click[c].pc \in {"inspect", "status", "pull", "remove", "create", "start"}
          THEN [click[c] EXCEPT !.pc = "lost"] ELSE click[c]]

\* compose up: the API is recreated from its new image.  The whole of compose's
\* log is copied to the output, which pushes older lines out of what is read back.
ScriptUp ==
    /\ Script("up")
    /\ \/ /\ running' = image /\ ApiRestart
          /\ \E log \in {updater.log, [percent |-> 28, step |-> "work"]} :
               \/ updater' = [updater EXCEPT !.pc = "mark", !.log = log] /\ UNCHANGED file
               \/ LET p == Written(0, "error") IN
                  /\ file' = p
                  /\ updater' = [updater EXCEPT !.pc = "end", !.state = "exited", !.log = p]
       \/ ComposeFails /\ UNCHANGED <<running, updateInFlight, finalizers, click>>
    /\ UNCHANGED <<remoteHead, source, image, revision, lastUpdaterId>>

\* The proxy, if there is one, is refreshed; then the revision is written.
ScriptMark ==
    /\ Script("mark")
    /\ \/ revision' = updater.sha /\ Report(95, "work", "prune", "running")
       \/ Report(93, "work", "end", "exited") /\ UNCHANGED revision
    /\ UNCHANGED <<remoteHead, source, image, running, lastUpdaterId,
                   updateInFlight, finalizers, click>>

ScriptPrune ==
    /\ Script("prune") /\ Report(100, "done", "end", "exited")
    /\ UNCHANGED <<stackOnHost, lastUpdaterId, updateInFlight, finalizers, click>>

\* A download or a build that never ends.
ScriptHang ==
    /\ \E label \in {"resolve", "sync", "build", "up"} : Script(label)
    /\ updater' = [updater EXCEPT !.pc = "hung"]
    /\ UNCHANGED <<stackOnHost, file, lastUpdaterId, updateInFlight, finalizers, click>>

ScriptStep ==
    \/ ScriptBegin \/ ScriptResolve \/ ScriptSync \/ ScriptRebuild \/ ScriptWatch
    \/ ScriptBuild \/ ScriptUp \/ ScriptMark \/ ScriptPrune \/ ScriptHang

SelfUpdateNext ==
    \/ Push
    \/ \E c \in Clicks : ClickCall(c) \/ ClickStep(c)
    \/ \E i \in UpdaterIds : Finalize(i)
    \/ ScriptStep

SelfUpdateSpec == SelfUpdateInit /\ [][SelfUpdateNext]_selfUpdateVars

\* The timers of the API's process expire.
FairSelfUpdateSpec == SelfUpdateSpec /\ \A i \in UpdaterIds : WF_selfUpdateVars(Finalize(i))

--------------------------------------------------------------------------------
\* Properties

\* "Up to date" is only shown when the running API is the head of main: not when
\* merely the files, or the images, of that revision are there.
NoUpdateHidden == ~ UpdateAvailable => running = remoteHead

\* A call takes away an updater that is working.
TakesRunningUpdater(c) ==
    AtClick(c, "remove") /\ updater.state = "running" /\ updater'.state = "none"
    /\ click'[c].pc = "create"

\* An apply that is called while an updater runs, or later, does not remove that
\* updater while it runs, even when the API was restarted in between and has
\* forgotten about it; unless its own look at the updater failed, which it takes
\* for there being none.
KeepsRunningUpdater(c) ==
    TakesRunningUpdater(c) => updater.id > click[c].seen \/ click[c].inspection = "fails"

\* No pending update is hidden, and no running updater removed by a call that could have seen
\* it and whose inspection did not fail (status, isUpdaterRunning and applyViaUpdaterContainer,
\* self-update.service.ts:81, 539, 394).
UpdatesAreKept ==
    [][NoUpdateHidden' /\ \A c \in Clicks : KeepsRunningUpdater(c)]_selfUpdateVars

\* No apply whose inspection did not fail removes a running updater: two clicks do not start
\* in parallel (apply, self-update.service.ts:118).
NoParallelStart ==
    [][\A c \in Clicks :
         TakesRunningUpdater(c) => click[c].inspection = "fails"]_selfUpdateVars

\* While one updater works the percentage that is shown never goes back, though the
\* phases are recognised in a log that scrolls away and the API is restarted.
ProgressMonotone ==
    [][(updater.state = "running" /\ updater.pc # "begin" /\ updater'.id = updater.id)
         => Shown'.percent >= Shown.percent]_selfUpdateVars

\* An update of Dockora neither hides nor undoes itself, and what is shown of it goes forward
\* (status and apply, self-update.service.ts:81, 118).
UpdatesHold == UpdatesAreKept /\ ProgressMonotone

\* An updater that hangs is removed after the time limit, as long as the API that started it
\* runs, unless Docker fails to remove it; an updater that hangs does not restart the API
\* (finalizeUpdater, self-update.service.ts:446).
HungUpdaterEnds ==
    \A i \in UpdaterIds :
        (updater.id = i /\ updater.pc = "hung" /\ i \in finalizers)
            ~> (updater.id # i \/ updater.pc = "left")
================================================================================
