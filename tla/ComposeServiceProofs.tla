-------------------------- MODULE ComposeServiceProofs --------------------------
(***************************************************************************)
(* The operations of ComposeService use the lock as ProjectLock describes: *)
(* every step of theirs is a step of the lock or leaves it alone, a crash  *)
(* empties it, and so the lock's invariant carries over.                   *)
(***************************************************************************)
EXTENDS ComposeService, ProjectLockProofs

\* What a crash does to the lock.
LockReset ==
    /\ lockState' = [c \in Calls |-> IF lockState[c] = "outside" THEN "outside" ELSE "released"]
    /\ projectChains' = [k \in Keys |-> NoCall]
    /\ UNCHANGED <<prev, lockKey>>

\* A step of an operation takes, leaves or ignores the lock.
LEMMA StepUsesLock ==
    ASSUME NEW c \in Calls, Step(c) PROVE AcquireLock(c) \/ ReleaseLock(c) \/ UNCHANGED lockVars
<1> USE DEF Goto, Return
<1>1. CASE Start(c)
  BY <1>1 DEF Start
<1>2. CASE UpdateYaml(c)
  BY <1>2 DEF UpdateYaml, EditCheck, EditTmpWritten, EditConfig, EditWritten, EditDone
<1>3. CASE UpdateEnvFile(c)
  BY <1>3 DEF UpdateEnvFile, EnvCheck, EnvWritten
<1>4. CASE RecreatePinned(c)
  BY <1>4 DEF RecreatePinned, PinRead, PinBackupWritten, PinWritten, PinUp, PinRestored, PinDone
<1>5. CASE RemoveService(c)
  BY <1>5 DEF RemoveService, DropRead, DropContainer, DropWritten, DropUp, DropUndone
<1>6. CASE Remove(c)
  BY <1>6 DEF Remove, RemoveDown, RemoveDirectory
<1>7. CASE AddService(c)
  BY <1>7 DEF AddService, AddRead, AddWritten, AddRun
<1>8. CASE RunUp(c)
  BY <1>8 DEF RunUp
<1> QED
  BY <1>1, <1>2, <1>3, <1>4, <1>5, <1>6, <1>7, <1>8 DEF Step

LEMMA ComposeUsesLock == [ComposeNext]_composeVars => [LockNext]_lockVars \/ LockReset
<1> SUFFICES ASSUME [ComposeNext]_composeVars PROVE [LockNext]_lockVars \/ LockReset
  OBVIOUS
<1>1. CASE Crash
  BY <1>1 DEF Crash, LockReset
<1>2. ASSUME NEW c \in Calls, OpenEditor(c) \/ Call(c) PROVE [LockNext]_lockVars
  BY <1>2 DEF OpenEditor, Call, LockNext, lockVars
<1>3. ASSUME NEW c \in Calls, Step(c) PROVE [LockNext]_lockVars
  BY <1>3, StepUsesLock DEF LockNext
<1>4. CASE UNCHANGED composeVars
  BY <1>4 DEF composeVars
<1> QED
  BY <1>1, <1>2, <1>3, <1>4 DEF ComposeNext

\* After a crash nobody is active and the map is empty: the line is empty.
LEMMA ResetKeepsLine == LockIInv /\ LockReset => LockIInv'
<1> SUFFICES ASSUME LockIInv, LockReset PROVE LockIInv'
  OBVIOUS
<1>1. \A c \in Calls : ~Active(c)' /\ lockState'[c] # "running"
  BY DEF LockReset, Active, LockIInv, LockTypeOK
<1>2. LockTypeOK'
  BY DEF LockReset, LockIInv, LockTypeOK, LockStates
<1>3. EntryIffBusy' /\ PrevEntered' /\ RunningIsFirst'
  BY <1>1, <1>2 DEF LockReset, EntryIffBusy, PrevEntered, RunningIsFirst
<1>4. PICK rank \in [Calls -> Nat] : InLine(rank)
  BY DEF LockIInv
<1>5. InLine(rank)'
  BY <1>1 DEF LockReset, InLine, Distinct, FirstIsLeast, Consecutive, EntryIsGreatest, SameLine
<1> QED
  BY <1>2, <1>3, <1>4, <1>5 DEF LockIInv

LEMMA ComposeLockInvariant == ComposeSpec => []LockIInv
<1>1. ComposeInit => LockIInv
  BY LockInitIInv DEF ComposeInit
<1>2. LockIInv /\ [ComposeNext]_composeVars => LockIInv'
  BY ComposeUsesLock, LockStep, ResetKeepsLine
<1> QED
  BY <1>1, <1>2, PTL DEF ComposeSpec

\* Two locked operations of one project on one ComposeService object never
\* overlap, whatever fails and also after a crash.
THEOREM ComposeExcludes == ComposeSpec => []MutualExclusion
<1> QED
  BY LineExcludes, ComposeLockInvariant, PTL

\* Nor does an operation ever wait for a turn that cannot come: of those of its project that
\* wait or run one is not held back, also after a crash (withProjectLock,
\* compose.service.ts:62).
THEOREM ComposeIsNeverStuck == ComposeSpec => []SomebodyGoesOn
<1> QED
  BY FirstGoesOn, ComposeLockInvariant, PTL
--------------------------------------------------------------------------------
(***************************************************************************)
(* The files, when one ComposeService object serves every locked call (as  *)
(* the routes of the editor do, compose/index.ts).  The lock leaves at     *)
(* most one call between its check and its return; what that call is going *)
(* to write follows from where it stands, and when no call stands at an    *)
(* open compose file the file is what was saved.                           *)
(***************************************************************************)

Working(c) == pc[c] \notin {"idle", "queued", "done"}
Locked(c) == req[c].op \in LockedOps

\* Where a call has the compose file open, or torn, or not as it is to stay.
WritingLabels == {"yaml", "pin", "up", "restore", "drop", "upAll", "undo", "add"}
\* Where a call still needs the text it read.
OriginalLabels == (WritingLabels \ {"yaml"}) \cup {"bak", "rmSvc"}

\* A locked call works only while it holds the lock; one without the lock never
\* stands at a write to a file.
CallsHoldLock ==
    \A c \in Calls : Working(c) => IF Locked(c) THEN lockState[c] = "running"
                                   ELSE pc[c] \in {"start", "rmdir"}

\* The wiring in which one object serves every call that takes the lock.
ServedBy(k) == \A op \in Ops \cap LockedOps : HolderOf[op] \subseteq {k}

OneObjectServes == \A c, d \in Calls : Locked(c) /\ Locked(d) => lockKey[c] = lockKey[d]

OriginalsRead == \A c \in Calls : pc[c] \in OriginalLabels => original[c] \in Contents

\* What a call relies on at the await it sits at.
CallRelies(c) ==
    /\ pc[c] \in OriginalLabels => original[c] \in Contents
    /\ pc[c] \in {"drop", "upAll", "undo"} => req[c].op = "removeService"
    /\ pc[c] = "add" => req[c].op = "addService"
    /\ ~DirectoryGone =>
        /\ pc[c] \in {"tmp", "config"} /\ base[c] # NoBase => disk.yaml = base[c]
        /\ pc[c] = "yaml" => disk.tmp \in Contents
        /\ pc[c] \in {"pin", "up", "restore"} => disk.bak = original[c]
    /\ ~DirectoryGone /\ ~disk.harmed =>
        /\ pc[c] \in OriginalLabels => original[c] = saved
        /\ pc[c] = "upAll" => disk.yaml = Dropped(c)

\* With no compose file open, the file is what was saved.
FileAtRest ==
    ~DirectoryGone /\ ~disk.harmed /\ (\A c \in Calls : pc[c] \notin WritingLabels)
        => disk.yaml = saved

GoneIsUnsaved == DirectoryGone <=> saved = None

FilesIInv ==
    /\ ComposeTypeOK
    /\ CallsHoldLock
    /\ OneObjectServes
    /\ \A c \in Calls : CallRelies(c)
    /\ FileAtRest
    /\ GoneIsUnsaved

--------------------------------------------------------------------------------
\* Types, and who works

LEMMA ContentsEdited ==
    ASSUME ComposeTypeOK, NEW c \in Calls
    PROVE  /\ Edited(c) \in Contents
           /\ original[c] \in Contents =>
                Pinned(c) \in Contents /\ Dropped(c) \in Contents /\ Added(c) \in Contents
<1>1. req[c].svc \in Services /\ req[c].img \in Images
  BY ComposeAssumption DEF ComposeTypeOK, Requests
<1> QED
  BY <1>1, ComposeAssumption DEF Edited, Pinned, Dropped, Added, Contents

Texts == Contents \cup {Torn, None}
Disks == [yaml : Texts, tmp : Texts, bak : Texts, env : Images \cup {Torn, None},
          harmed : BOOLEAN]

\* What the operations do to the files of a directory.
LEMMA DiskWrites ==
    ASSUME NEW d \in Disks
    PROVE  /\ \A x \in Texts : /\ [d EXCEPT !.yaml = x] \in Disks
                               /\ [d EXCEPT !.tmp = x] \in Disks
                               /\ [d EXCEPT !.bak = x] \in Disks
           /\ \A x, y \in Texts : [d EXCEPT !.bak = x, !.yaml = y] \in Disks
           /\ \A x \in Images \cup {Torn, None} : [d EXCEPT !.env = x] \in Disks
           /\ [d EXCEPT !.harmed = TRUE] \in Disks
           /\ [d EXCEPT !.yaml = None, !.tmp = None, !.bak = None, !.env = None] \in Disks
BY DEF Disks, Texts

\* The files and the records of calls keep their types; the lock's follow from its invariant.
FilesTypeOK ==
    /\ req \in [Calls -> Requests]
    /\ base \in [Calls -> Contents \cup Images \cup {Torn, None, NoBase}]
    /\ pc \in [Calls -> Labels]
    /\ original \in [Calls -> Contents \cup {None}]
    /\ disk \in Disks
    /\ containers \in [Services -> Images \cup {Absent}]
    /\ saved \in Contents \cup {None}

LEMMA FilesTypeStep ==
    ASSUME ComposeTypeOK, OriginalsRead, [ComposeNext]_composeVars
    PROVE  FilesTypeOK'
<1> USE DEF Goto, Return, KeepCall, KeepHost
<1>1. FilesTypeOK
  BY DEF ComposeTypeOK, FilesTypeOK, Disks, Texts
<1>0. /\ \A x \in Texts : Put(x) => disk' \in Disks
      /\ Truncate \/ (\E site : Fault(site)) => disk' \in Disks
  <2>1. Torn \in Texts /\ None \in Texts
    BY DEF Texts
  <2> QED
    BY ZenonT(30), <2>1, <1>1, DiskWrites DEF Put, Truncate, Fault, FilesTypeOK
<1>2. \A l \in Labels : \A c \in Calls : [pc EXCEPT ![c] = l] \in [Calls -> Labels]
  BY <1>1 DEF FilesTypeOK
<1>3. {"done", "tmp", "config", "yaml", "unlinkTmp", "env", "bak", "pin", "up", "restore",
       "unlinkBak", "rmSvc", "drop", "upAll", "undo", "add", "run", "down", "rmdir",
       "queued", "start", "idle"} \subseteq Labels
  BY DEF Labels
<1>4. None \in Texts /\ Torn \in Texts /\ Contents \subseteq Texts
  BY DEF Texts
<1>5. ASSUME NEW c \in Calls, UpdateYaml(c) PROVE FilesTypeOK'
  <2>1. Edited(c) \in Contents
    BY ContentsEdited
  <2>2. /\ disk' \in Disks /\ saved' \in Contents \cup {None}
        /\ UNCHANGED <<req, base, original, containers>>
    <3>1. CASE EditCheck(c)
      BY <3>1, <1>1, <1>4, DiskWrites DEF EditCheck, FilesTypeOK
    <3>2. CASE EditTmpWritten(c)
      <4>1. (IF DirectoryGone THEN None ELSE Edited(c)) \in Texts
        BY <2>1, <1>4
      <4>2. [disk EXCEPT !.tmp = IF DirectoryGone THEN None ELSE Edited(c)] \in Disks
        BY <4>1, <1>1, DiskWrites DEF FilesTypeOK
      <4>3. disk' \in Disks
        BY <4>2, <3>2, <1>0 DEF EditTmpWritten
      <4> QED
        BY <4>3, <3>2, <1>1 DEF EditTmpWritten, FilesTypeOK
    <3>3. CASE EditConfig(c)
      <4>1. [disk EXCEPT !.tmp = None] \in Disks
        BY <1>1, <1>4, DiskWrites DEF FilesTypeOK
      <4>2. disk' \in Disks
        BY <4>1, <3>3, <1>0 DEF EditConfig
      <4> QED
        BY <4>2, <3>3, <1>1 DEF EditConfig, FilesTypeOK
    <3>4. CASE EditWritten(c)
      BY <3>4, <2>1, <1>0, <1>1, <1>4 DEF EditWritten, FilesTypeOK
    <3>5. CASE EditDone(c)
      BY <3>5, <1>1, <1>4, DiskWrites DEF EditDone, FilesTypeOK
    <3> QED
      BY <1>5, <3>1, <3>2, <3>3, <3>4, <3>5 DEF UpdateYaml
  <2>3. pc' \in [Calls -> Labels]
    BY <1>1, <1>2, <1>3, <1>5
       DEF UpdateYaml, EditCheck, EditTmpWritten, EditConfig, EditWritten, EditDone
  <2> QED
    BY <2>2, <2>3, <1>1 DEF FilesTypeOK
<1>6. ASSUME NEW c \in Calls, UpdateEnvFile(c) PROVE FilesTypeOK'
  <2>1. /\ (IF DirectoryGone THEN None ELSE req[c].img) \in Images \cup {Torn, None}
        /\ Torn \in Images \cup {Torn, None}
    BY <1>1, ComposeAssumption DEF FilesTypeOK, Requests
  <2>2. disk' \in Disks
    <3>1. CASE EnvCheck(c)
      <4>1. [disk EXCEPT !.env = Torn] \in Disks
        BY <2>1, <1>1, DiskWrites DEF FilesTypeOK
      <4> QED
        BY <4>1, <3>1, <1>1 DEF EnvCheck, FilesTypeOK
    <3>2. CASE EnvWritten(c)
      BY ZenonT(30), <3>2, <2>1, <1>0, <1>1, DiskWrites DEF EnvWritten, FilesTypeOK
    <3> QED
      BY <1>6, <3>1, <3>2 DEF UpdateEnvFile
  <2> QED
    BY <2>2, <1>6, <1>1, <1>2, <1>3 DEF UpdateEnvFile, EnvCheck, EnvWritten, FilesTypeOK
<1>7. ASSUME NEW c \in Calls, RecreatePinned(c) PROVE FilesTypeOK'
  <2>1. pc[c] \in {"pin", "up", "restore"} => original[c] \in Contents /\ Pinned(c) \in Contents
    BY ContentsEdited DEF OriginalsRead, OriginalLabels, WritingLabels
  <2>2. pc[c] = "bak" => original[c] \in Contents
    BY DEF OriginalsRead, OriginalLabels
  <2>3. /\ disk' \in Disks /\ containers' \in [Services -> Images \cup {Absent}]
        /\ original' \in [Calls -> Contents \cup {None}]
        /\ UNCHANGED <<req, base, saved>>
    <3>1. CASE PinRead(c)
      <4>1. [disk EXCEPT !.bak = Torn] \in Disks
        BY <1>1, <1>4, DiskWrites DEF FilesTypeOK
      <4>2. disk' \in Disks
        BY <4>1, <3>1, <1>1 DEF PinRead, FilesTypeOK
      <4>3. original' \in [Calls -> Contents \cup {None}]
        BY <3>1, <1>1 DEF PinRead, Has, Readable, FilesTypeOK
      <4> QED
        BY <4>2, <4>3, <3>1, <1>1 DEF PinRead, FilesTypeOK
    <3>2. CASE PinBackupWritten(c)
      <4>1. original[c] \in Texts /\ Torn \in Texts
        BY <3>2, <2>2, <1>4 DEF PinBackupWritten, At
      <4>2. [disk EXCEPT !.bak = original[c], !.yaml = Torn] \in Disks
        BY <4>1, <1>1, DiskWrites DEF FilesTypeOK
      <4>3. disk' \in Disks
        BY <4>2, <3>2, <1>0, <1>1 DEF PinBackupWritten, FilesTypeOK
      <4> QED
        BY <4>3, <3>2, <1>1 DEF PinBackupWritten, FilesTypeOK
    <3>3. CASE PinWritten(c)
      BY <3>3, <2>1, <1>0, <1>1, <1>4 DEF PinWritten, At, FilesTypeOK
    <3>4. CASE PinUp(c)
      <4>1. {req[c].svc} \in SUBSET Services
        BY <1>1 DEF FilesTypeOK, Requests
      <4>2. containers' \in [Services -> Images \cup {Absent}]
        BY <4>1, <3>4, <1>1 DEF PinUp, Up, UpFails, Readable, FilesTypeOK, Contents
      <4> QED
        BY <4>2, <3>4, <1>0, <1>1 DEF PinUp, FilesTypeOK
    <3>5. CASE PinRestored(c)
      BY <3>5, <2>1, <1>0, <1>1, <1>4 DEF PinRestored, At, FilesTypeOK
    <3>6. CASE PinDone(c)
      BY <3>6, <1>1, <1>4, DiskWrites DEF PinDone, FilesTypeOK
    <3> QED
      BY <1>7, <3>1, <3>2, <3>3, <3>4, <3>5, <3>6 DEF RecreatePinned
  <2>4. pc' \in [Calls -> Labels]
    BY <1>1, <1>2, <1>3, <1>7 DEF RecreatePinned, PinRead, PinBackupWritten, PinWritten,
                                  PinUp, PinRestored, PinDone
  <2> QED
    BY <2>3, <2>4, <1>1 DEF FilesTypeOK
<1>8. ASSUME NEW c \in Calls, RemoveService(c) PROVE FilesTypeOK'
  <2>1. pc[c] \in {"drop", "upAll", "undo"} => original[c] \in Contents /\ Dropped(c) \in Contents
    BY ContentsEdited DEF OriginalsRead, OriginalLabels, WritingLabels
  <2>2. /\ disk' \in Disks /\ containers' \in [Services -> Images \cup {Absent}]
        /\ original' \in [Calls -> Contents \cup {None}] /\ saved' \in Contents \cup {None}
        /\ UNCHANGED <<req, base>>
    <3>1. CASE DropRead(c)
      BY <3>1, <1>1 DEF DropRead, Has, Readable, FilesTypeOK
    <3>2. CASE DropContainer(c)
      <4>1. [containers EXCEPT ![req[c].svc] = Absent] \in [Services -> Images \cup {Absent}]
        BY <1>1 DEF FilesTypeOK, Requests
      <4> QED
        BY <4>1, <3>2, <1>0, <1>1 DEF DropContainer, FilesTypeOK
    <3>3. CASE DropWritten(c)
      BY <3>3, <2>1, <1>0, <1>1, <1>4 DEF DropWritten, At, FilesTypeOK
    <3>4. CASE DropUp(c)
      <4>1. containers' \in [Services -> Images \cup {Absent}]
        BY <3>4, <1>1 DEF DropUp, Up, UpFails, Readable, FilesTypeOK, Contents
      <4> QED
        BY <4>1, <3>4, <2>1, <1>0, <1>1 DEF DropUp, At, FilesTypeOK
    <3>5. CASE DropUndone(c)
      BY <3>5, <2>1, <1>0, <1>1, <1>4 DEF DropUndone, At, FilesTypeOK
    <3> QED
      BY <1>8, <3>1, <3>2, <3>3, <3>4, <3>5 DEF RemoveService
  <2>3. pc' \in [Calls -> Labels]
    BY <1>1, <1>2, <1>3, <1>8
       DEF RemoveService, DropRead, DropContainer, DropWritten, DropUp, DropUndone
  <2> QED
    BY <2>2, <2>3, <1>1 DEF FilesTypeOK
<1>9. ASSUME NEW c \in Calls, Remove(c) PROVE FilesTypeOK'
  <2>1. CASE RemoveDown(c)
    <3>1. [s \in Services |-> Absent] \in [Services -> Images \cup {Absent}]
      OBVIOUS
    <3> QED
      BY <3>1, <2>1, <1>1, <1>2, <1>3 DEF RemoveDown, FilesTypeOK
  <2>2. CASE RemoveDirectory(c)
    BY <2>2, <1>1, <1>2, <1>3, DiskWrites DEF RemoveDirectory, FilesTypeOK
  <2> QED
    BY <1>9, <2>1, <2>2 DEF Remove
<1>10. ASSUME NEW c \in Calls, AddService(c) PROVE FilesTypeOK'
  <2>1. pc[c] = "add" => original[c] \in Contents /\ Added(c) \in Contents
    BY ContentsEdited DEF OriginalsRead, OriginalLabels, WritingLabels
  <2>2. /\ disk' \in Disks /\ containers' \in [Services -> Images \cup {Absent}]
        /\ original' \in [Calls -> Contents \cup {None}] /\ saved' \in Contents \cup {None}
        /\ UNCHANGED <<req, base>>
    <3>1. CASE AddRead(c)
      BY <3>1, <1>0, <1>1 DEF AddRead, Has, Readable, FilesTypeOK
    <3>2. CASE AddWritten(c)
      BY <3>2, <2>1, <1>0, <1>1, <1>4 DEF AddWritten, At, FilesTypeOK
    <3>3. CASE AddRun(c)
      <4>1. containers' \in [Services -> Images \cup {Absent}]
        BY <3>3, <1>1 DEF AddRun, Up, UpFails, Readable, FilesTypeOK, Contents
      <4> QED
        BY <4>1, <3>3, <1>1 DEF AddRun, FilesTypeOK
    <3> QED
      BY <1>10, <3>1, <3>2, <3>3 DEF AddService
  <2>3. pc' \in [Calls -> Labels]
    BY <1>1, <1>2, <1>3, <1>10 DEF AddService, AddRead, AddWritten, AddRun
  <2> QED
    BY <2>2, <2>3, <1>1 DEF FilesTypeOK
<1>11. ASSUME NEW c \in Calls, RunUp(c) PROVE FilesTypeOK'
  <2>1. containers' \in [Services -> Images \cup {Absent}]
    BY <1>11, <1>1 DEF RunUp, Up, UpFails, Readable, FilesTypeOK, Contents
  <2> QED
    BY <2>1, <1>11, <1>1, <1>2, <1>3 DEF RunUp, FilesTypeOK
<1>12. ASSUME NEW c \in Calls, OpenEditor(c) \/ Call(c) \/ Start(c) PROVE FilesTypeOK'
  <2>1. disk.yaml \in Texts /\ disk.env \in Images \cup {Torn, None}
    BY <1>1 DEF FilesTypeOK, Disks
  <2> QED
    BY <2>1, <1>12, <1>1, <1>2, <1>3 DEF OpenEditor, Call, Start, FilesTypeOK, Texts
<1>13. CASE Crash
  BY <1>13, <1>1, <1>3, DiskWrites DEF Crash, FilesTypeOK
<1>14. CASE UNCHANGED composeVars
  BY <1>14, <1>1 DEF composeVars, callVars, FilesTypeOK
<1> QED
  BY <1>5, <1>6, <1>7, <1>8, <1>9, <1>10, <1>11, <1>12, <1>13, <1>14 DEF ComposeNext, Step

\* A text that is still needed stays what was read.
LEMMA OriginalsStep ==
    ASSUME ComposeTypeOK, OriginalsRead, [ComposeNext]_composeVars
    PROVE  OriginalsRead'
<1> USE DEF OriginalsRead, OriginalLabels, WritingLabels, At, Goto, Return, Readable, Has
<1>1. pc \in [Calls -> Labels] /\ original \in [Calls -> Contents \cup {None}]
  BY DEF ComposeTypeOK
<1> USE <1>1
<1>2. ASSUME NEW c \in Calls, UpdateYaml(c) \/ UpdateEnvFile(c) PROVE OriginalsRead'
  BY <1>2 DEF UpdateYaml, EditCheck, EditTmpWritten, EditConfig, EditWritten, EditDone,
              UpdateEnvFile, EnvCheck, EnvWritten
<1>3. ASSUME NEW c \in Calls, RecreatePinned(c) PROVE OriginalsRead'
  BY <1>3 DEF RecreatePinned, PinRead, PinBackupWritten, PinWritten, PinUp, PinRestored, PinDone
<1>4. ASSUME NEW c \in Calls, RemoveService(c) \/ Remove(c) PROVE OriginalsRead'
  BY <1>4 DEF RemoveService, DropRead, DropContainer, DropWritten, DropUp, DropUndone,
              Remove, RemoveDown, RemoveDirectory
<1>5. ASSUME NEW c \in Calls, AddService(c) \/ RunUp(c) PROVE OriginalsRead'
  BY <1>5 DEF AddService, AddRead, AddWritten, AddRun, RunUp
<1>6. ASSUME NEW c \in Calls, OpenEditor(c) \/ Call(c) \/ Start(c) PROVE OriginalsRead'
  BY <1>6 DEF OpenEditor, Call, Start, KeepHost
<1>7. CASE Crash \/ UNCHANGED composeVars
  BY <1>7 DEF Crash, composeVars, callVars
<1> QED
  BY <1>2, <1>3, <1>4, <1>5, <1>6, <1>7 DEF ComposeNext, Step

LEMMA TypeStep ==
    LockIInv /\ ComposeTypeOK /\ OriginalsRead /\ [ComposeNext]_composeVars
        => ComposeTypeOK' /\ OriginalsRead'
<1> SUFFICES ASSUME LockIInv, ComposeTypeOK, OriginalsRead, [ComposeNext]_composeVars
             PROVE  ComposeTypeOK' /\ OriginalsRead'
  OBVIOUS
<1>1. LockTypeOK'
  BY ComposeUsesLock, LockStep, ResetKeepsLine DEF LockIInv
<1> QED
  BY <1>1, FilesTypeStep, OriginalsStep DEF FilesTypeOK, ComposeTypeOK, Disks, Texts

LEMMA TypeInit == ComposeInit => ComposeTypeOK /\ OriginalsRead
<1> USE ComposeAssumption
<1>1. ComposeInit => LockTypeOK
  BY LockInitIInv DEF ComposeInit, LockIInv
<1> QED
  BY <1>1 DEF ComposeInit, ComposeTypeOK, Labels, Contents, OriginalsRead, OriginalLabels,
              WritingLabels

\* The state of the operations keeps its types (compose.service.ts:58), for any number of
\* calls on any number of ComposeService objects.
THEOREM ComposeTypes == ComposeSpec => []ComposeTypeOK
<1> QED
  BY TypeInit, TypeStep, ComposeLockInvariant, PTL DEF ComposeSpec

\* An operation under way goes on, keeping the lock, or returns and leaves it.
LEMMA StepMoves ==
    ASSUME ComposeTypeOK, CallsHoldLock, NEW c \in Calls, Step(c), ~Start(c)
    PROVE  /\ Working(c) /\ UNCHANGED <<req, base>>
           /\ \E l \in Labels : pc' = [pc EXCEPT ![c] = l]
           /\ pc'[c] \notin {"idle", "queued"}
           /\ UNCHANGED lockVars \/ (ReleaseLock(c) /\ pc'[c] = "done")
           /\ ~Locked(c) => (Remove(c) \/ RunUp(c)) /\ pc'[c] \in {"rmdir", "done"}
<1> USE DEF Goto, Return, KeepCall
<1>1. pc \in [Calls -> Labels]
  BY DEF ComposeTypeOK
<1>2. CASE UpdateYaml(c)
  BY <1>1, <1>2 DEF UpdateYaml, EditCheck, EditTmpWritten, EditConfig, EditWritten, EditDone,
                    At, Working, Locked, LockedOps, Labels
<1>3. CASE UpdateEnvFile(c)
  BY <1>1, <1>3 DEF UpdateEnvFile, EnvCheck, EnvWritten, At, Working, Locked, LockedOps, Labels
<1>4. CASE RecreatePinned(c)
  BY <1>1, <1>4 DEF RecreatePinned, PinRead, PinBackupWritten, PinWritten, PinUp, PinRestored,
                    PinDone, At, Working, Locked, LockedOps, Labels
<1>5. CASE RemoveService(c)
  BY <1>1, <1>5 DEF RemoveService, DropRead, DropContainer, DropWritten, DropUp, DropUndone,
                    At, Working, Locked, LockedOps, Labels
<1>6. CASE Remove(c)
  BY <1>1, <1>6 DEF Remove, RemoveDown, RemoveDirectory, At, Working, Locked, Labels
<1>7. CASE AddService(c)
  BY <1>1, <1>7 DEF AddService, AddRead, AddWritten, AddRun, At, Working, Locked, LockedOps, Labels
<1>8. CASE RunUp(c)
  BY <1>1, <1>8 DEF RunUp, At, Working, Locked, Labels
<1> QED
  BY <1>2, <1>3, <1>4, <1>5, <1>6, <1>7, <1>8 DEF Step

\* No call works without the lock it asked for, and no call changes its object.
LEMMA HoldStep ==
    ASSUME ComposeTypeOK, CallsHoldLock, OneObjectServes, [ComposeNext]_composeVars
    PROVE  CallsHoldLock' /\ OneObjectServes'
<1>1. /\ pc \in [Calls -> Labels] /\ lockState \in [Calls -> LockStates]
      /\ lockKey \in [Calls -> Keys]
  BY DEF ComposeTypeOK, LockTypeOK
<1>2. ASSUME NEW c \in Calls, Step(c), ~Start(c) PROVE CallsHoldLock' /\ OneObjectServes'
  <2>1. /\ Working(c) /\ UNCHANGED <<req, base>>
        /\ UNCHANGED lockVars \/ (ReleaseLock(c) /\ pc'[c] = "done")
        /\ ~Locked(c) => pc'[c] \in {"rmdir", "done"}
    BY <1>2, StepMoves
  <2>2. PICK l \in Labels : pc' = [pc EXCEPT ![c] = l]
    BY <1>2, StepMoves
  <2>3. lockKey' = lockKey
    BY <2>1 DEF lockVars, ReleaseLock
  <2>4. \A d \in Calls \ {c} : pc'[d] = pc[d] /\ lockState'[d] = lockState[d]
    BY <2>1, <2>2, <1>1 DEF lockVars, ReleaseLock
  <2>5. pc'[c] = "done" \/ lockState'[c] = lockState[c]
    BY <2>1 DEF lockVars
  <2> QED
    BY <2>1, <2>3, <2>4, <2>5, <1>1 DEF CallsHoldLock, OneObjectServes, Working, Locked
<1>3. ASSUME NEW c \in Calls, Start(c) PROVE CallsHoldLock' /\ OneObjectServes'
  <2>1. CASE Locked(c)
    BY <1>3, <2>1, <1>1
       DEF Start, AcquireLock, KeepCall, CallsHoldLock, OneObjectServes, Working, Locked
  <2>2. CASE ~Locked(c)
    BY <1>3, <2>2, <1>1
       DEF Start, AcquireLock, KeepCall, CallsHoldLock, OneObjectServes, Working, Locked
  <2> QED
    BY <2>1, <2>2
<1>4. ASSUME NEW c \in Calls, OpenEditor(c) PROVE CallsHoldLock' /\ OneObjectServes'
  BY <1>4 DEF OpenEditor, lockVars, CallsHoldLock, OneObjectServes, Working, Locked
<1>5. ASSUME NEW c \in Calls, Call(c) PROVE CallsHoldLock' /\ OneObjectServes'
  BY <1>5, <1>1
     DEF Call, EnterLock, lockVars, KeepCall, CallsHoldLock, OneObjectServes, Working, Locked
<1>6. CASE Crash
  BY <1>6, <1>1 DEF Crash, CallsHoldLock, OneObjectServes, Working, Locked
<1>7. CASE UNCHANGED composeVars
  BY <1>7 DEF composeVars, callVars, lockVars, CallsHoldLock, OneObjectServes, Working, Locked
<1> QED
  BY <1>2, <1>3, <1>4, <1>5, <1>6, <1>7 DEF ComposeNext

--------------------------------------------------------------------------------
\* What the calls rely on, and the file at rest

Quiet == {"idle", "queued", "done", "start", "rmdir"}

\* While a locked call works, no other call stands at a file.
LEMMA OthersQuiet ==
    ASSUME FilesIInv, MutualExclusion, NEW c \in Calls, Working(c), Locked(c)
    PROVE  \A d \in Calls \ {c} : pc[d] \in Quiet
BY DEF FilesIInv, MutualExclusion, CallsHoldLock, OneObjectServes, Working, Quiet

\* A call that stands at no file relies on nothing.
LEMMA QuietRelies ==
    ASSUME NEW c \in Calls, pc[c] \in Quiet \cup {"unlinkTmp", "env", "unlinkBak", "down", "run"}
    PROVE  CallRelies(c) /\ pc[c] \notin WritingLabels
BY DEF CallRelies, Quiet, OriginalLabels, WritingLabels

\* What the step of a locked call has to show: the promise of its own label, the file
\* if it does not stand at an open one, and that the folder goes with what was saved.
OwnPart(c) == CallRelies(c) /\ GoneIsUnsaved
              /\ (~DirectoryGone /\ ~disk.harmed /\ pc[c] \notin WritingLabels => disk.yaml = saved)

LEMMA OwnPartSuffices ==
    ASSUME FilesIInv, MutualExclusion, NEW c \in Calls, Working(c), Locked(c),
           \E l \in Labels : pc' = [pc EXCEPT ![c] = l], OwnPart(c)'
    PROVE  (\A d \in Calls : CallRelies(d))' /\ FileAtRest' /\ GoneIsUnsaved'
<1>1. \A d \in Calls \ {c} : pc'[d] \in Quiet
  BY OthersQuiet DEF FilesIInv, ComposeTypeOK
<1>2. \A d \in Calls \ {c} : CallRelies(d)'
  BY <1>1 DEF CallRelies, Quiet, OriginalLabels, WritingLabels
<1> QED
  BY <1>2 DEF OwnPart, FileAtRest

\* What holds before such a step.
LEMMA OwnPartHolds ==
    ASSUME FilesIInv, MutualExclusion, NEW c \in Calls, Working(c), Locked(c)
    PROVE  OwnPart(c)
<1>1. \A d \in Calls \ {c} : pc[d] \notin WritingLabels
  BY OthersQuiet DEF Quiet, WritingLabels
<1> QED
  BY <1>1 DEF FilesIInv, OwnPart, FileAtRest

LEMMA LockedStepKeepsOwnPart ==
    ASSUME FilesIInv, NEW c \in Calls, Working(c), Locked(c), OwnPart(c), Step(c), ~Start(c)
    PROVE  OwnPart(c)'
<1> USE ComposeAssumption DEF OwnPart, CallRelies, GoneIsUnsaved, DirectoryGone, At, Goto, Return,
        KeepCall, KeepHost, Put, Truncate, Fault, OriginalLabels, WritingLabels, Readable, Has
<1>1. /\ pc \in [Calls -> Labels] /\ original \in [Calls -> Contents \cup {None}]
      /\ disk \in Disks /\ saved \in Contents \cup {None}
  BY DEF FilesIInv, ComposeTypeOK, Disks, Texts
<1>2. /\ Edited(c) \in Contents
      /\ original[c] \in Contents =>
           Pinned(c) \in Contents /\ Dropped(c) \in Contents /\ Added(c) \in Contents
  BY ContentsEdited DEF FilesIInv
<1>3. ASSUME UNCHANGED req, original'[c] = original[c] PROVE Dropped(c)' = Dropped(c)
  BY <1>3 DEF Dropped
<1> USE DEF Disks, Texts
<1>4. CASE UpdateYaml(c)
  <2>1. CASE EditCheck(c)
    BY <2>1, <1>1, <1>2, <1>3 DEF EditCheck
  <2>2. CASE EditTmpWritten(c)
    BY <2>2, <1>1, <1>2, <1>3 DEF EditTmpWritten
  <2>3. CASE EditConfig(c)
    BY <2>3, <1>1, <1>2, <1>3 DEF EditConfig
  <2>4. CASE EditWritten(c)
    BY <2>4, <1>1, <1>2, <1>3 DEF EditWritten
  <2>5. CASE EditDone(c)
    BY <2>5, <1>1, <1>2, <1>3 DEF EditDone
  <2> QED
    BY <1>4, <2>1, <2>2, <2>3, <2>4, <2>5 DEF UpdateYaml
<1>5. CASE RecreatePinned(c)
  <2>1. CASE PinRead(c)
    BY <2>1, <1>1, <1>2, <1>3 DEF PinRead
  <2>2. CASE PinBackupWritten(c)
    <3>1. CASE DirectoryGone /\ Return(c) /\ UNCHANGED disk
      BY <2>2, <3>1, <1>1 DEF PinBackupWritten
    <3>2. CASE /\ ~DirectoryGone /\ Goto(c, "pin")
               /\ disk' = [disk EXCEPT !.bak = original[c], !.yaml = Torn]
      BY <2>2, <3>2, <1>1 DEF PinBackupWritten
    <3>3. CASE Fault("bak") /\ Return(c)
      BY <2>2, <3>3, <1>1 DEF PinBackupWritten
    <3> QED
      BY <2>2, <3>1, <3>2, <3>3 DEF PinBackupWritten
  <2>3. CASE PinWritten(c)
    BY <2>3, <1>1, <1>2, <1>3 DEF PinWritten
  <2>4. CASE PinUp(c)
    BY <2>4, <1>1, <1>2, <1>3 DEF PinUp
  <2>5. CASE PinRestored(c)
    BY <2>5, <1>1, <1>2, <1>3 DEF PinRestored
  <2>6. CASE PinDone(c)
    BY <2>6, <1>1, <1>2, <1>3 DEF PinDone
  <2> QED
    BY <1>5, <2>1, <2>2, <2>3, <2>4, <2>5, <2>6 DEF RecreatePinned
<1>6. CASE RemoveService(c)
  <2>1. CASE DropRead(c)
    BY <2>1, <1>1, <1>2, <1>3 DEF DropRead
  <2>2. CASE DropContainer(c)
    BY <2>2, <1>1, <1>2, <1>3 DEF DropContainer
  <2>3. CASE DropWritten(c)
    BY <2>3, <1>1, <1>2, <1>3 DEF DropWritten
  <2>4. CASE DropUp(c)
    BY <2>4, <1>1, <1>2, <1>3 DEF DropUp
  <2>5. CASE DropUndone(c)
    BY <2>5, <1>1, <1>2, <1>3 DEF DropUndone
  <2> QED
    BY <1>6, <2>1, <2>2, <2>3, <2>4, <2>5 DEF RemoveService
<1>7. CASE AddService(c)
  <2>1. CASE AddRead(c)
    BY <2>1, <1>1, <1>2, <1>3 DEF AddRead
  <2>2. CASE AddWritten(c)
    BY <2>2, <1>1, <1>2, <1>3 DEF AddWritten
  <2>3. CASE AddRun(c)
    BY <2>3, <1>1, <1>2, <1>3 DEF AddRun
  <2> QED
    BY <1>7, <2>1, <2>2, <2>3 DEF AddService
<1>8. CASE UpdateEnvFile(c)
  BY <1>8, <1>1, <1>2 DEF UpdateEnvFile, EnvCheck, EnvWritten
<1>9. CASE Remove(c)
  BY ZenonT(30), <1>9, <1>1 DEF Remove, RemoveDown, RemoveDirectory
<1>10. CASE RunUp(c)
  BY <1>10, <1>1 DEF RunUp, Locked, LockedOps
<1> QED
  BY <1>4, <1>5, <1>6, <1>7, <1>8, <1>9, <1>10 DEF Step

\* A step between quiet labels that leaves the files alone.
LEMMA QuietStep ==
    ASSUME FilesIInv, NEW c \in Calls, pc[c] \in Quiet,
           \E l \in Quiet : pc' = [pc EXCEPT ![c] = l],
           UNCHANGED <<req, original, disk, saved>>, \A d \in Calls \ {c} : base'[d] = base[d]
    PROVE  (\A d \in Calls : CallRelies(d))' /\ FileAtRest' /\ GoneIsUnsaved'
<1>1. pc \in [Calls -> Labels]
  BY DEF FilesIInv, ComposeTypeOK
<1>2. pc'[c] \in Quiet /\ \A d \in Calls \ {c} : pc'[d] = pc[d]
  BY <1>1 DEF Quiet, Labels
<1>3. CallRelies(c)'
  BY <1>2 DEF CallRelies, Quiet, OriginalLabels, WritingLabels
<1>4. ASSUME NEW d \in Calls \ {c} PROVE CallRelies(d)'
  BY <1>2, <1>4 DEF FilesIInv, CallRelies, Dropped, DirectoryGone
<1>5. FileAtRest'
  BY <1>2 DEF FilesIInv, FileAtRest, DirectoryGone, Quiet, WritingLabels
<1> QED
  BY <1>3, <1>4, <1>5 DEF FilesIInv, GoneIsUnsaved, DirectoryGone

LEMMA FilesStep == FilesIInv /\ LockIInv /\ [ComposeNext]_composeVars => FilesIInv'
<1> SUFFICES ASSUME FilesIInv, LockIInv, [ComposeNext]_composeVars PROVE FilesIInv'
  OBVIOUS
<1> DEFINE Files == (\A d \in Calls : CallRelies(d)) /\ FileAtRest /\ GoneIsUnsaved
<1>1. MutualExclusion
  BY LineExcludes
<1>2. OriginalsRead
  BY DEF FilesIInv, CallRelies, OriginalsRead
<1>3. ComposeTypeOK'
  BY <1>2, TypeStep DEF FilesIInv
<1>4. CallsHoldLock' /\ OneObjectServes'
  BY HoldStep DEF FilesIInv
<1>5. ASSUME NEW c \in Calls, Step(c), ~Start(c) PROVE Files'
  <2>1. Working(c) /\ UNCHANGED <<req, base>> /\ \E l \in Labels : pc' = [pc EXCEPT ![c] = l]
    BY <1>5, StepMoves DEF FilesIInv
  <2>2. CASE Locked(c)
    BY <1>1, <1>5, <2>1, <2>2, OwnPartHolds, LockedStepKeepsOwnPart, OwnPartSuffices
  <2>3. CASE ~Locked(c)
    <3>1. (Remove(c) \/ RunUp(c)) /\ pc'[c] \in {"rmdir", "done"} /\ pc[c] \in {"start", "rmdir"}
      BY <1>5, <2>1, <2>3, StepMoves DEF FilesIInv, CallsHoldLock
    <3>2. \E l \in Quiet : pc' = [pc EXCEPT ![c] = l]
      BY <2>1, <3>1 DEF FilesIInv, ComposeTypeOK, Quiet
    <3>3. CASE UNCHANGED <<original, disk, saved>>
      BY <2>1, <3>1, <3>2, <3>3, QuietStep DEF Quiet
    <3>4. CASE RemoveDirectory(c)
      <4>1. DirectoryGone' /\ saved' = None /\ UNCHANGED <<original, req>>
        BY <3>4 DEF KeepCall, RemoveDirectory, DirectoryGone, FilesIInv, ComposeTypeOK
      <4>2. \A d \in Calls : pc'[d] \in OriginalLabels \cup WritingLabels => pc[d] = pc'[d]
        BY <3>1, <3>2 DEF FilesIInv, ComposeTypeOK, OriginalLabels, WritingLabels
      <4> QED
        BY <4>1, <4>2 DEF FilesIInv, CallRelies, FileAtRest, GoneIsUnsaved, WritingLabels
    <3> QED
      BY <3>1, <3>3, <3>4 DEF Remove, RemoveDown, RunUp
  <2> QED
    BY <2>2, <2>3
<1>6. ASSUME NEW c \in Calls, Start(c) \/ Call(c) \/ OpenEditor(c) PROVE Files'
  <2>1. /\ pc[c] \in Quiet /\ UNCHANGED <<req, original, disk, saved>>
        /\ \A d \in Calls \ {c} : base'[d] = base[d]
    BY <1>6 DEF Start, Call, OpenEditor, KeepCall, KeepHost, Quiet, FilesIInv, ComposeTypeOK
  <2>2. \E l \in Quiet : pc' = [pc EXCEPT ![c] = l]
    <3>1. CASE OpenEditor(c)
      BY <3>1 DEF OpenEditor, Quiet, FilesIInv, ComposeTypeOK
    <3> QED
      BY <1>6, <3>1 DEF Start, Call, Quiet
  <2> QED
    BY <2>1, <2>2, QuietStep
<1>7. ASSUME Crash PROVE Files'
  <2>1. \A d \in Calls : pc'[d] \in Quiet
    BY <1>7 DEF Crash, Quiet
  <2>2. disk'.harmed /\ disk'.yaml = disk.yaml /\ saved' = saved
    BY <1>7 DEF Crash, FilesIInv, ComposeTypeOK
  <2>3. (\A d \in Calls : CallRelies(d))'
    BY <2>1 DEF CallRelies, Quiet, OriginalLabels, WritingLabels
  <2>4. FileAtRest' /\ GoneIsUnsaved'
    BY <2>2 DEF FilesIInv, FileAtRest, GoneIsUnsaved, DirectoryGone
  <2> QED
    BY <2>3, <2>4
<1>8. ASSUME UNCHANGED composeVars PROVE Files'
  <2>1. UNCHANGED <<req, base, pc, original, disk, saved>>
    BY <1>8 DEF composeVars, callVars
  <2>2. (\A d \in Calls : CallRelies(d))'
    BY <2>1 DEF FilesIInv, CallRelies, DirectoryGone, Dropped
  <2>3. FileAtRest' /\ GoneIsUnsaved'
    BY <2>1 DEF FilesIInv, FileAtRest, GoneIsUnsaved, DirectoryGone
  <2> QED
    BY <2>2, <2>3
<1> HIDE DEF Files
<1>9. Files'
  BY <1>5, <1>6, <1>7, <1>8 DEF ComposeNext
<1> QED
  BY <1>3, <1>4, <1>9 DEF FilesIInv, Files

LEMMA FilesInit ==
    ASSUME NEW k \in Keys, ServedBy(k), ComposeInit
    PROVE  FilesIInv
<1> USE ComposeAssumption
<1>2. ComposeTypeOK
  BY TypeInit
<1>3. CallsHoldLock /\ (\A c \in Calls : CallRelies(c))
  BY DEF ComposeInit, CallsHoldLock, CallRelies, Working, OriginalLabels, WritingLabels
<1>4. OneObjectServes
  <2>1. \A c \in Calls : lockKey[c] \in HolderOf[req[c].op] /\ req[c].op \in Ops
    BY DEF ComposeInit, Requests
  <2> QED
    BY <2>1 DEF OneObjectServes, Locked, ServedBy
<1>5. FileAtRest /\ GoneIsUnsaved
  BY DEF ComposeInit, FileAtRest, GoneIsUnsaved, DirectoryGone
<1> QED
  BY <1>2, <1>3, <1>4, <1>5 DEF FilesIInv

LEMMA FilesInvariant ==
    ASSUME NEW k \in Keys, ServedBy(k)
    PROVE  ComposeSpec => [](FilesIInv /\ LockIInv)
<1>1. ComposeInit => FilesIInv
  BY FilesInit
<1>2. FilesIInv /\ LockIInv /\ [ComposeNext]_composeVars => FilesIInv'
  BY FilesStep
<1> QED
  BY <1>1, <1>2, ComposeLockInvariant, PTL DEF ComposeSpec

\* However edits, pinned recreates, service changes and removals of a project are
\* interleaved, and whichever writes fail, once none is under way the compose file is what
\* the last successful edit asked for, when one ComposeService object serves the locked
\* calls (withProjectLock, compose.service.ts:58).
THEOREM FileIsAsSaved ==
    ASSUME NEW k \in Keys, ServedBy(k)
    PROVE  ComposeSpec => []SavedOnDisk
<1>1. FilesIInv => SavedOnDisk
  BY DEF FilesIInv, SavedOnDisk, Busy, FileAtRest, GoneIsUnsaved, DirectoryGone, WritingLabels
<1> QED
  BY <1>1, FilesInvariant, PTL

\* A write that fails changes nothing more, nor does the death of the process.
LEMMA HarmOnly ==
    ASSUME ComposeTypeOK, [ComposeNext]_composeVars, ~disk.harmed, disk'.harmed
    PROVE  disk'.yaml = disk.yaml /\ disk'.bak = disk.bak /\ disk'.tmp = disk.tmp
<1> USE DEF Put, Truncate, KeepHost
<1>1. disk \in Disks
  BY DEF ComposeTypeOK, Disks, Texts
<1> DEFINE OnlyHarm == disk' = disk \/ disk' = [disk EXCEPT !.harmed = TRUE]
                       \/ disk'.harmed = disk.harmed
<1>2. OnlyHarm
  <2> USE <1>1 DEF Disks
  <2>1. ASSUME NEW c \in Calls, UpdateYaml(c) \/ UpdateEnvFile(c) PROVE OnlyHarm
    BY <2>1 DEF UpdateYaml, EditCheck, EditTmpWritten, EditConfig, EditWritten, EditDone,
                UpdateEnvFile, EnvCheck, EnvWritten, Fault
  <2>2. ASSUME NEW c \in Calls, RecreatePinned(c) PROVE OnlyHarm
    BY <2>2 DEF RecreatePinned, PinRead, PinBackupWritten, PinWritten, PinUp, PinRestored,
                PinDone, Fault
  <2>3. ASSUME NEW c \in Calls, RemoveService(c) \/ Remove(c) PROVE OnlyHarm
    BY <2>3 DEF RemoveService, DropRead, DropContainer, DropWritten, DropUp, DropUndone,
                Remove, RemoveDown, RemoveDirectory, Fault
  <2>4. ASSUME NEW c \in Calls, AddService(c) \/ RunUp(c) PROVE OnlyHarm
    BY <2>4 DEF AddService, AddRead, AddWritten, AddRun, RunUp, Fault
  <2>5. ASSUME NEW c \in Calls, OpenEditor(c) \/ Call(c) \/ Start(c) PROVE OnlyHarm
    BY <2>5 DEF OpenEditor, Call, Start
  <2>6. CASE Crash \/ UNCHANGED composeVars
    BY <2>6 DEF Crash, composeVars
  <2> QED
    BY <2>1, <2>2, <2>3, <2>4, <2>5, <2>6 DEF ComposeNext, Step
<1> QED
  BY <1>1, <1>2 DEF Disks

LEMMA KeptText ==
    ASSUME FilesIInv, MutualExclusion, [ComposeNext]_composeVars, NEW c \in Calls
    PROVE  FailureKeepsCopy(c)
<1> SUFFICES ASSUME Rewrites(c), ~disk.harmed, disk'.harmed, ~DirectoryGone
             PROVE  saved \in {disk'.yaml, disk'.bak} \/ disk'.tmp \in Contents
  BY DEF FailureKeepsCopy
<1>1. Working(c) /\ Locked(c) /\ OwnPart(c)
  BY OwnPartHolds DEF Rewrites, Working, Locked, LockedOps
<1>2. saved \in {disk.yaml, disk.bak} \/ disk.tmp \in Contents
  BY <1>1 DEF OwnPart, CallRelies, Rewrites, OriginalLabels, WritingLabels
<1> QED
  BY <1>2, HarmOnly DEF FilesIInv

\* The comparison with the hash still holds when the compose file is opened.
LEMMA ReplacedBase ==
    ASSUME FilesIInv, NEW c \in Calls
    PROVE  ReplacesItsBase(c)
<1> SUFFICES ASSUME EditConfig(c), pc'[c] = "yaml", base[c] # NoBase PROVE disk.yaml = base[c]
  BY DEF ReplacesItsBase
<1>1. ~DirectoryGone /\ pc[c] = "config"
  BY DEF EditConfig, Return, At, FilesIInv, ComposeTypeOK
<1> QED
  BY <1>1 DEF FilesIInv, CallRelies

\* When one ComposeService object serves the locked calls: an edit opens the compose file for
\* writing only while it is the one its author saw; and where an edit or a pinned recreate meets
\* the first write that fails (but the restoring one) or the first crash, the user's file is in
\* the directory afterwards (updateYamlUnlocked, compose.service.ts:298; recreatePinned, :400).
\* Nothing is said of failing writes of updateEnvFile (:391), removeService (:742) and addService
\* (:782), which write in place.
THEOREM UserTextIsKept ==
    ASSUME NEW k \in Keys, ServedBy(k)
    PROVE  ComposeSpec => UserTextKept
<1>1. FilesIInv /\ LockIInv /\ [ComposeNext]_composeVars
        => [\A c \in Calls : ReplacesItsBase(c) /\ FailureKeepsCopy(c)]_composeVars
  BY LineExcludes, KeptText, ReplacedBase
<1> QED
  BY <1>1, FilesInvariant, PTL DEF ComposeSpec, UserTextKept
================================================================================
