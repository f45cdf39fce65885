----------------------------- MODULE ComposeService -----------------------------
(***************************************************************************)
(* The operations of ComposeService on one Compose project: what they do,  *)
(* await by await, to the files of the project directory and to the        *)
(* containers of the project.                                              *)
(*                                                                         *)
(* Several ComposeService objects exist in one API process, each with its  *)
(* own projectChains map; a key of ProjectLock is the project's entry in   *)
(* the map of one object, and HolderOf says which object serves which      *)
(* operation.                                                              *)
(*                                                                         *)
(* A compose file is a function from services to images.  writeFile        *)
(* truncates and then writes, so every write is two steps with the file    *)
(* torn in between.  `docker compose` reads the file it is given and       *)
(* changes the containers in one step.                                     *)
(***************************************************************************)
EXTENDS ProjectLock, FiniteSets

CONSTANTS
    Services,       \* service names
    Images,         \* image references
    Absent,         \* a service that the file, or the host, does not have
    None,           \* no such file
    Torn,           \* a truncated or half-written file
    NoBase,         \* an edit sent without a baseHash
    Ops,            \* the operations called in this instance
    HolderOf,       \* [Ops -> SUBSET Keys]: the objects that serve an operation
    InitialYaml,    \* the compose file at the start
    EditImages,     \* images a user writes into the file
    PinImages,      \* images recreatePinned is called with
    FaultySites,    \* the writes that may fail (disk full, I/O error)
    Crashes         \* BOOLEAN: whether the API process may die (once)

\* Mutated form: updateYaml calls updateYamlUnlocked directly.
LockedOpsWithoutEdit == {"updateEnvFile", "recreatePinned", "removeService", "addService"}

\* The operations that run inside withProjectLock; runAction and remove do not.
LockedOps == {"updateYaml", "updateEnvFile", "recreatePinned", "removeService", "addService"}

Requests ==
    [op : Ops, svc : Services, img : EditImages \cup PinImages]

VARIABLES
    req,            \* [Calls -> Requests]
    base,           \* the content whose hash a call sends as baseHash
    pc,             \* where a call is: the await it sits at
    original,       \* the local variable `original` of a call
    disk,           \* the files of the project directory; harmed, a history
                    \* component, says that a write failed or the process died
    containers,     \* [Services -> Images \cup {Absent}]
    saved           \* history: the content the last successful edit asked for

callVars == <<req, base, pc, original>>
composeVars == <<lockVars, callVars, disk, containers, saved>>

Contents == [Services -> Images \cup {Absent}]

\* A file that is missing or half written is no compose file, and what a user or an
\* update writes into one are image references.
ASSUME ComposeAssumption ==
    /\ InitialYaml \in Contents
    /\ None \notin Contents /\ Torn \notin Contents /\ None # Torn
    /\ EditImages \subseteq Images /\ PinImages \subseteq Images

Defined(content) == {s \in Services : content[s] # Absent}
Readable == disk.yaml \in Contents
Has(s) == Readable /\ s \in Defined(disk.yaml)
\* deleteProjectDirectory removes everything at once.
DirectoryGone == disk.yaml = None

Labels == {"idle", "queued", "start", "tmp", "config", "yaml", "unlinkTmp", "env",
           "bak", "pin", "up", "restore", "unlinkBak", "rmSvc", "drop", "upAll", "undo",
           "add", "run", "down", "rmdir", "done"}

ComposeTypeOK ==
    /\ LockTypeOK
    /\ req \in [Calls -> Requests]
    /\ base \in [Calls -> Contents \cup Images \cup {Torn, None, NoBase}]
    /\ pc \in [Calls -> Labels]
    /\ original \in [Calls -> Contents \cup {None}]
    /\ disk \in [yaml : Contents \cup {Torn, None}, tmp : Contents \cup {Torn, None},
                 bak : Contents \cup {Torn, None}, env : Images \cup {Torn, None},
                 harmed : BOOLEAN]
    /\ containers \in [Services -> Images \cup {Absent}]
    /\ saved \in Contents \cup {None}

ComposeInit ==
    /\ LockInit
    /\ req \in [Calls -> Requests]
    /\ \A c \in Calls : /\ req[c].img \in IF req[c].op = "recreatePinned" THEN PinImages
                                          ELSE EditImages
                        /\ lockKey[c] \in HolderOf[req[c].op]
    /\ base = [c \in Calls |-> NoBase]
    /\ pc = [c \in Calls |-> "idle"]
    /\ original = [c \in Calls |-> None]
    /\ disk = [yaml |-> InitialYaml, tmp |-> None, bak |-> None, env |-> None,
               harmed |-> FALSE]
    /\ containers = InitialYaml
    /\ saved = InitialYaml

--------------------------------------------------------------------------------
\* Steps shared by the operations

At(c, op, label) == req[c].op = op /\ pc[c] = label
Goto(c, label) == pc' = [pc EXCEPT ![c] = label] /\ UNCHANGED lockVars

\* Mutated form: the gate is not released when fn is left.
ReturnKeepsLock(c) == pc' = [pc EXCEPT ![c] = "done"] /\ UNCHANGED lockVars

\* fn returns or throws, and withProjectLock's finally block runs.
Return(c) ==
    /\ pc' = [pc EXCEPT ![c] = "done"]
    /\ IF req[c].op \in LockedOps THEN ReleaseLock(c) ELSE UNCHANGED lockVars

\* Leave variables alone.
KeepCall == UNCHANGED <<req, base>>
KeepHost == UNCHANGED <<containers, saved>>

\* The content of a write that was opened arrives; if the directory has been
\* deleted meanwhile the data goes to an unlinked file.
Put(content) == disk' = [disk EXCEPT !.yaml = IF DirectoryGone THEN None ELSE content]
Truncate == Put(Torn)
\* The write fails: the file stays as it was torn.
Fault(site) == site \in FaultySites /\ disk' = [disk EXCEPT !.harmed = TRUE]

\* `docker compose up` on some services: they get the image of the file,
\* --remove-orphans drops what the file does not define.
Up(services) ==
    /\ Readable /\ services \subseteq Defined(disk.yaml)
    /\ containers' = [s \in Services |->
                        IF s \in services \/ disk.yaml[s] = Absent
                        THEN disk.yaml[s] ELSE containers[s]]

\* It fails: old containers may be gone without their successors.
UpFails(services) ==
    \E lost \in SUBSET {s \in services : Readable} :
        containers' = [s \in Services |-> IF s \in lost THEN Absent ELSE containers[s]]

\* A client fetches the file it is going to edit (GET details, GET env).
OpenEditor(c) ==
    /\ pc[c] = "idle" /\ base[c] = NoBase
    /\ req[c].op \in {"updateYaml", "updateEnvFile"}
    /\ base' = [base EXCEPT ![c] = IF req[c].op = "updateYaml" THEN disk.yaml ELSE disk.env]
    /\ UNCHANGED <<lockVars, req, pc, original, disk, containers, saved>>

\* An operation is called: a locked one queues, the others start.
Call(c) ==
    /\ pc[c] = "idle"
    /\ IF req[c].op \in LockedOps
       THEN EnterLock(c) /\ pc' = [pc EXCEPT ![c] = "queued"]
       ELSE UNCHANGED lockVars /\ pc' = [pc EXCEPT ![c] = "start"]
    /\ KeepCall /\ KeepHost /\ UNCHANGED <<original, disk>>

Start(c) ==
    /\ pc[c] = "queued"
    /\ AcquireLock(c)
    /\ pc' = [pc EXCEPT ![c] = "start"]
    /\ KeepCall /\ KeepHost /\ UNCHANGED <<original, disk>>

--------------------------------------------------------------------------------
\* updateYaml

\* What the user made of the file that was fetched.
Edited(c) == [(IF base[c] \in Contents THEN base[c] ELSE InitialYaml)
                EXCEPT ![req[c].svc] = req[c].img]

\* resolveProject, the baseHash check, and the temporary file is opened.
EditCheck(c) ==
    /\ At(c, "updateYaml", "start")
    /\ IF DirectoryGone \/ (base[c] # NoBase /\ disk.yaml # base[c])
       THEN Return(c) /\ UNCHANGED disk
       ELSE disk' = [disk EXCEPT !.tmp = Torn] /\ Goto(c, "tmp")
    /\ KeepCall /\ KeepHost /\ UNCHANGED original

EditTmpWritten(c) ==
    /\ At(c, "updateYaml", "tmp")
    /\ \/ /\ disk' = [disk EXCEPT !.tmp = IF DirectoryGone THEN None ELSE Edited(c)]
          /\ Goto(c, "config")
       \/ Fault("tmp") /\ Return(c)
    /\ KeepCall /\ KeepHost /\ UNCHANGED original

\* Mutated form: the temporary file is removed before the compose file is written.
EditConfigUnlinksFirst(c) ==
    /\ At(c, "updateYaml", "config")
    /\ \/ disk' = [disk EXCEPT !.tmp = None] /\ Return(c)
       \/ disk.tmp \in Contents /\ ~DirectoryGone
          /\ disk' = [disk EXCEPT !.tmp = None, !.yaml = Torn] /\ Goto(c, "yaml")
    /\ KeepCall /\ KeepHost /\ UNCHANGED original

\* `docker compose config` on the temporary file; if it accepts the file the
\* compose file is opened.
EditConfig(c) ==
    /\ At(c, "updateYaml", "config")
    /\ \/ disk' = [disk EXCEPT !.tmp = None] /\ Return(c)
       \/ disk.tmp \in Contents /\ ~DirectoryGone /\ Truncate /\ Goto(c, "yaml")
    /\ KeepCall /\ KeepHost /\ UNCHANGED original

EditWritten(c) ==
    /\ At(c, "updateYaml", "yaml")
    /\ \/ /\ Put(Edited(c)) /\ Goto(c, "unlinkTmp")
          /\ saved' = IF DirectoryGone THEN saved ELSE Edited(c)
       \/ Fault("yaml") /\ Return(c) /\ UNCHANGED saved
    /\ KeepCall /\ UNCHANGED <<original, containers>>

EditDone(c) ==
    /\ At(c, "updateYaml", "unlinkTmp")
    /\ disk' = [disk EXCEPT !.tmp = None]
    /\ Return(c)
    /\ KeepCall /\ KeepHost /\ UNCHANGED original

UpdateYaml(c) ==
    EditCheck(c) \/ EditTmpWritten(c) \/ EditConfig(c) \/ EditWritten(c) \/ EditDone(c)

--------------------------------------------------------------------------------
\* updateEnvFile

EnvCheck(c) ==
    /\ At(c, "updateEnvFile", "start")
    /\ IF DirectoryGone \/ (base[c] # NoBase /\ disk.env # base[c])
       THEN Return(c) /\ UNCHANGED disk
       ELSE disk' = [disk EXCEPT !.env = Torn] /\ Goto(c, "env")
    /\ KeepCall /\ KeepHost /\ UNCHANGED original

EnvWritten(c) ==
    /\ At(c, "updateEnvFile", "env")
    /\ \/ disk' = [disk EXCEPT !.env = IF DirectoryGone THEN None ELSE req[c].img]
       \/ Fault("env")
    /\ Return(c)
    /\ KeepCall /\ KeepHost /\ UNCHANGED original

UpdateEnvFile(c) == EnvCheck(c) \/ EnvWritten(c)

--------------------------------------------------------------------------------
\* recreatePinned

Pinned(c) == [original[c] EXCEPT ![req[c].svc] = req[c].img]

\* Mutated form: whatever the file holds is taken for the original.
PinReadUnchecked(c) ==
    /\ At(c, "recreatePinned", "start")
    /\ original' = [original EXCEPT ![c] = disk.yaml]
    /\ disk' = [disk EXCEPT !.bak = Torn]
    /\ Goto(c, "bak")
    /\ KeepCall /\ KeepHost

\* The compose file is read, and the backup is opened.
PinRead(c) ==
    /\ At(c, "recreatePinned", "start")
    /\ IF Has(req[c].svc)
       THEN /\ original' = [original EXCEPT ![c] = disk.yaml]
            /\ disk' = [disk EXCEPT !.bak = Torn]
            /\ Goto(c, "bak")
       ELSE Return(c) /\ UNCHANGED <<original, disk>>
    /\ KeepCall /\ KeepHost

\* The backup is complete, and the compose file is opened.
PinBackupWritten(c) ==
    /\ At(c, "recreatePinned", "bak")
    /\ \/ DirectoryGone /\ Return(c) /\ UNCHANGED disk
       \/ ~DirectoryGone /\ Goto(c, "pin")
          /\ disk' = [disk EXCEPT !.bak = original[c], !.yaml = Torn]
       \/ Fault("bak") /\ Return(c)
    /\ KeepCall /\ KeepHost /\ UNCHANGED original

\* This write stands before the try block: if it fails nothing is restored.
PinWritten(c) ==
    /\ At(c, "recreatePinned", "pin")
    /\ \/ Put(Pinned(c)) /\ Goto(c, "up")
       \/ Fault("pin") /\ Return(c)
    /\ KeepCall /\ KeepHost /\ UNCHANGED original

\* Mutated form: the file is restored only after a successful `up`.
PinUpRestoresOnSuccess(c) ==
    /\ At(c, "recreatePinned", "up")
    /\ \/ Up({req[c].svc}) /\ Truncate /\ Goto(c, "restore")
       \/ UpFails({req[c].svc}) /\ Return(c) /\ UNCHANGED disk
    /\ KeepCall /\ UNCHANGED <<original, saved>>

\* `up` on the pinned service ends, well or badly, and the finally block opens
\* the compose file.
PinUp(c) ==
    /\ At(c, "recreatePinned", "up")
    /\ Up({req[c].svc}) \/ UpFails({req[c].svc})
    /\ Truncate
    /\ Goto(c, "restore")
    /\ KeepCall /\ UNCHANGED <<original, saved>>

\* A failing write is ignored here: .catch(() => undefined).
PinRestored(c) ==
    /\ At(c, "recreatePinned", "restore")
    /\ Put(original[c]) \/ Fault("restore")
    /\ Goto(c, "unlinkBak")
    /\ KeepCall /\ KeepHost /\ UNCHANGED original

PinDone(c) ==
    /\ At(c, "recreatePinned", "unlinkBak")
    /\ disk' = [disk EXCEPT !.bak = None]
    /\ Return(c)
    /\ KeepCall /\ KeepHost /\ UNCHANGED original

RecreatePinned(c) ==
    \/ PinRead(c) \/ PinBackupWritten(c) \/ PinWritten(c)
    \/ PinUp(c) \/ PinRestored(c) \/ PinDone(c)

--------------------------------------------------------------------------------
\* removeService, and remove

Dropped(c) == [original[c] EXCEPT ![req[c].svc] = Absent]

\* The last service takes the whole project with it.
DropRead(c) ==
    /\ At(c, "removeService", "start")
    /\ IF Has(req[c].svc)
       THEN /\ original' = [original EXCEPT ![c] = disk.yaml]
            /\ Goto(c, IF Defined(disk.yaml) = {req[c].svc} THEN "down" ELSE "rmSvc")
       ELSE Return(c) /\ UNCHANGED original
    /\ KeepCall /\ KeepHost /\ UNCHANGED disk

\* `docker compose rm -sf`, and the compose file is opened.
DropContainer(c) ==
    /\ At(c, "removeService", "rmSvc")
    /\ \/ /\ Readable
          /\ containers' = [containers EXCEPT ![req[c].svc] = Absent]
          /\ Truncate /\ Goto(c, "drop")
       \/ Return(c) /\ UNCHANGED <<containers, disk>>
    /\ KeepCall /\ UNCHANGED <<original, saved>>

DropWritten(c) ==
    /\ At(c, "removeService", "drop")
    /\ \/ Put(Dropped(c)) /\ Goto(c, "upAll")
       \/ Fault("drop") /\ Return(c)
    /\ KeepCall /\ KeepHost /\ UNCHANGED original

DropUp(c) ==
    /\ At(c, "removeService", "upAll")
    /\ \/ /\ Readable /\ Up(Defined(disk.yaml))
          /\ saved' = Dropped(c)
          /\ Return(c) /\ UNCHANGED disk
       \/ /\ UpFails(Defined(Dropped(c)))
          /\ Truncate /\ Goto(c, "undo") /\ UNCHANGED saved
    /\ KeepCall /\ UNCHANGED original

\* A failing write is ignored here too.
DropUndone(c) ==
    /\ At(c, "removeService", "undo")
    /\ Put(original[c]) \/ Fault("undo")
    /\ Return(c)
    /\ KeepCall /\ KeepHost /\ UNCHANGED original

RemoveService(c) ==
    DropRead(c) \/ DropContainer(c) \/ DropWritten(c) \/ DropUp(c) \/ DropUndone(c)

\* `docker compose down`; "no such container" counts as success.
RemoveDown(c) ==
    /\ At(c, "remove", "start") \/ At(c, "removeService", "down")
    /\ \/ /\ ~DirectoryGone
          /\ containers' = [s \in Services |-> Absent]
          /\ Goto(c, "rmdir") \/ (req[c].op = "remove" /\ Return(c))
       \/ Return(c) /\ UNCHANGED containers
    /\ KeepCall /\ UNCHANGED <<original, disk, saved>>

RemoveDirectory(c) ==
    /\ pc[c] = "rmdir"
    /\ disk' = [disk EXCEPT !.yaml = None, !.tmp = None, !.bak = None, !.env = None]
    /\ saved' = None
    /\ Return(c)
    /\ KeepCall /\ UNCHANGED <<original, containers>>

Remove(c) == RemoveDown(c) \/ RemoveDirectory(c)

--------------------------------------------------------------------------------
\* addService, and runAction

Added(c) == [original[c] EXCEPT ![req[c].svc] = req[c].img]

AddRead(c) ==
    /\ At(c, "addService", "start")
    /\ IF Readable /\ ~Has(req[c].svc)
       THEN /\ original' = [original EXCEPT ![c] = disk.yaml]
            /\ Truncate /\ Goto(c, "add")
       ELSE Return(c) /\ UNCHANGED <<original, disk>>
    /\ KeepCall /\ KeepHost

AddWritten(c) ==
    /\ At(c, "addService", "add")
    /\ \/ /\ Put(Added(c)) /\ (Goto(c, "run") \/ Return(c))
          /\ saved' = IF DirectoryGone THEN saved ELSE Added(c)
       \/ Fault("add") /\ Return(c) /\ UNCHANGED saved
    /\ KeepCall /\ UNCHANGED <<original, containers>>

\* runAction(id, 'up', name), inside the lock of addService.
AddRun(c) ==
    /\ At(c, "addService", "run")
    /\ Up({req[c].svc}) \/ UpFails({req[c].svc})
    /\ Return(c)
    /\ KeepCall /\ UNCHANGED <<original, disk, saved>>

AddService(c) == AddRead(c) \/ AddWritten(c) \/ AddRun(c)

\* The actions that create or remove containers: up, start and recreate give
\* every service the image of the file, down removes them all.
RunUp(c) ==
    /\ At(c, "runAction", "start")
    /\ \/ Readable /\ Up(Defined(disk.yaml))
       \/ UpFails(Services)
       \/ Readable /\ containers' = [s \in Services |-> Absent]
    /\ Return(c)
    /\ KeepCall /\ UNCHANGED <<original, disk, saved>>

--------------------------------------------------------------------------------

Step(c) ==
    \/ Start(c) \/ UpdateYaml(c) \/ UpdateEnvFile(c) \/ RecreatePinned(c)
    \/ RemoveService(c) \/ Remove(c) \/ AddService(c) \/ RunUp(c)

\* The API process dies: the calls under way end where they are, the promise
\* chains are gone, the files and the containers stay.  Nothing at start-up
\* looks for a backup or a temporary file.
Crash ==
    /\ Crashes /\ ~disk.harmed
    /\ disk' = [disk EXCEPT !.harmed = TRUE]
    /\ pc' = [c \in Calls |-> IF pc[c] = "idle" THEN "idle" ELSE "done"]
    /\ lockState' = [c \in Calls |-> IF lockState[c] = "outside" THEN "outside" ELSE "released"]
    /\ projectChains' = [k \in Keys |-> NoCall]
    /\ UNCHANGED <<prev, lockKey, req, base, original, containers, saved>>

ComposeNext == Crash \/ \E c \in Calls : OpenEditor(c) \/ Call(c) \/ Step(c)

ComposeSpec == ComposeInit /\ [][ComposeNext]_composeVars

\* Every await settles: file operations end, `docker compose` runs under a
\* timeout of 300 s, and the microtask queue runs resolved promises.
FairComposeSpec == ComposeSpec /\ \A c \in Calls : WF_composeVars(Step(c))

--------------------------------------------------------------------------------
\* Properties

Busy == \E c \in Calls : pc[c] \notin {"idle", "queued", "done"}

\* Whatever edits, pinned recreates and service changes were interleaved, when
\* none is under way the compose file is what the last successful edit asked
\* for: no edit is lost and no pin is left behind (unless a write failed or the
\* process died).
SavedOnDisk == ~Busy /\ ~disk.harmed => disk.yaml = saved

\* The baseHash promise: an edit opens the compose file for writing only while
\* the file is still the one its author looked at, although a temporary file was
\* written and validated since the comparison.
ReplacesItsBase(c) ==
    (EditConfig(c) /\ pc'[c] = "yaml" /\ base[c] # NoBase) => disk.yaml = base[c]

Rewrites(c) ==
    req[c].op \in {"updateYaml", "recreatePinned"} /\ pc[c] \notin {"idle", "queued", "done"}

\* Whatever write fails first, except the restoring one, and wherever the process dies
\* first, while an edit or a pinned recreate is under way: the user's file survives in
\* the directory, as the compose file, as the pin backup, or, when an edit was being
\* saved, as the new content in the temporary file; unless the folder was deleted.
FailureKeepsCopy(c) ==
    /\ Rewrites(c) /\ ~disk.harmed /\ disk'.harmed /\ ~DirectoryGone
    /\ ~(pc[c] = "restore" /\ pc'[c] = "unlinkBak")
    => saved \in {disk'.yaml, disk'.bak} \/ disk'.tmp \in Contents

\* An edit replaces no compose file unseen, and what goes wrong first in an edit or a pinned
\* recreate, a write or the process, loses no text (updateYamlUnlocked, compose.service.ts:298;
\* recreatePinned, :400). Not so in updateEnvFile (:391), removeService (:742) and addService
\* (:782), which write in place: a write of theirs that fails may leave half a file.
UserTextKept == [][\A c \in Calls : ReplacesItsBase(c) /\ FailureKeepsCopy(c)]_composeVars

\* Every operation that was called ends: nobody waits for ever for the lock.
EveryCallReturns == \A c \in Calls : pc[c] = "queued" ~> pc[c] = "done"
================================================================================
