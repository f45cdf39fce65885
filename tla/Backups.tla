--------------------------------- MODULE Backups ---------------------------------
(***************************************************************************)
(* Backup archives (modules/backups/backups.service.ts, volume-backup.ts):  *)
(* create, delete, restore and the clean-up by age, as jobs that await       *)
(* between their file operations while other jobs, and people who edit the   *)
(* projects, go on. Nothing here takes the project lock.                     *)
(*                                                                         *)
(* An item is what a manifest names: a compose or .env file, a volume, or    *)
(* the settings. Contents are numbers; NothingThere stands for an item that  *)
(* is absent, TornItem for one that has been emptied or half written.       *)
(***************************************************************************)
EXTENDS Naturals, FiniteSets

CONSTANTS
    Files,       \* compose and .env files
    Volumes,     \* named volumes
    Settings,    \* the entry of the settings
    Archives,    \* names of archives, one per creation
    BackupJobs,  \* HTTP calls and the scheduler's clean-up
    MaxEdits     \* bound on the contents people write

\* A manifest's entry is a file's, a volume's or that of the settings. There is something to
\* edit, and to archive into.
ASSUME BackupsAssumption ==
    /\ Files \cap (Volumes \cup {Settings}) = {} /\ Settings \notin Volumes
    /\ MaxEdits \in Nat \ {0} /\ Archives # {}

VARIABLES
    item,       \* contents of the files and volumes in use
    kept,       \* contents saved in `.bak.` files, per file
    archive,    \* the archive files: their state and the contents archived
    listed,     \* rows of BackupRecord
    extracted,  \* the directory restore/<name>, per archive: contents by item
    job,        \* what each job has read and where it stands
    edits,      \* contents written so far
    lost        \* history: contents a restore overwrote that are nowhere any more

backupVars == <<item, kept, archive, listed, extracted, job, edits, lost>>

Items == Files \cup Volumes \cup {Settings}
ItemContents == 1 .. MaxEdits
NothingThere == 0
TornItem == MaxEdits + 1
AllNothing == [i \in Items |-> NothingThere]
NoArchive == [state |-> "none", has |-> AllNothing]
SomeArchive == CHOOSE a \in Archives : TRUE

\* left are the items or archives still to do; at is the one being done. A restore has done
\* its entries or passed them over, not asked for or refused; copied says that it has a copy of
\* what it overwrites, alone that no other restore unpacks the same archive meanwhile.
Resting == [pc |-> "idle", name |-> SomeArchive, left |-> {}, at |-> {}, done |-> {},
            passed |-> {}, copied |-> FALSE, alone |-> TRUE]

BackupsInit ==
    /\ item = [i \in Items |-> 1]
    /\ kept = [f \in Files |-> {}]
    /\ archive = [a \in Archives |-> NoArchive]
    /\ listed = {}
    /\ extracted = [a \in Archives |-> AllNothing]
    /\ job = [j \in BackupJobs |-> Resting]
    /\ edits = 1
    /\ lost = {}

\* Item i is written to: what a restore has copied of it is then no longer what it
\* overwrites.
WrittenTo(i) ==
    [k \in BackupJobs |-> IF i \in job[k].at THEN [job[k] EXCEPT !.copied = FALSE] ELSE job[k]]

Goes(j, to) == job' = [job EXCEPT ![j].pc = to]
JobEnds(j) == job' = [job EXCEPT ![j] = Resting]

\* Somebody writes, or removes a project or a volume.
Edit ==
    /\ edits < MaxEdits
    /\ edits' = edits + 1
    /\ \E i \in Files \cup Volumes, new \in {edits + 1, NothingThere} :
         /\ item' = [item EXCEPT ![i] = new]
         /\ job' = WrittenTo(i)
    /\ UNCHANGED <<kept, archive, listed, extracted, lost>>

----------------------------------------------------------------------------
(* create *)

\* Every file that exists and the settings go into the manifest, and the volumes if asked.
CreateBegin(j) ==
    /\ job[j].pc = "idle"
    /\ \E a \in Archives, kinds \in {Items, Items \ Volumes} :
         /\ archive[a] = NoArchive /\ \A k \in BackupJobs : job[k].pc # "create" \/ job[k].name # a
         /\ job' = [job EXCEPT ![j] = [Resting EXCEPT !.pc = "create", !.name = a,
                                         !.left = {i \in kinds : item[i] # NothingThere}]]
    /\ UNCHANGED <<item, kept, archive, listed, extracted, edits, lost>>

\* One item is read into the archive; one that has gone since is left out.
CreateEntry(j) ==
    /\ job[j].pc = "create"
    /\ \E i \in job[j].left :
         /\ archive' = [archive EXCEPT ![job[j].name] =
                          [archive[job[j].name] EXCEPT !.state = "partial",
                                                       !.has[i] = item[i]]]
         /\ job' = [job EXCEPT ![j].left = @ \ {i}]
    /\ UNCHANGED <<item, kept, listed, extracted, edits, lost>>

CreateClose(j) ==
    /\ job[j].pc = "create" /\ job[j].left = {}
    /\ archive' = [archive EXCEPT ![job[j].name].state = "whole"]
    /\ Goes(j, "insert")
    /\ UNCHANGED <<item, kept, listed, extracted, edits, lost>>

\* A step of the creation fails: what has been written of the archive stays.
CreateFails(j) ==
    /\ job[j].pc = "create"
    /\ JobEnds(j)
    /\ UNCHANGED <<item, kept, archive, listed, extracted, edits, lost>>

\* The row is inserted when the archive has been closed.
ReadyToList(j) == job[j].pc = "insert"

CreateInsert(j) ==
    /\ ReadyToList(j)
    /\ listed' = listed \cup {job[j].name}
    /\ JobEnds(j)
    /\ UNCHANGED <<item, kept, archive, extracted, edits, lost>>

----------------------------------------------------------------------------
(* delete, and cleanup of the rows past the retention *)

\* The rows are read; delete is a clean-up of one row. An unpacking that has the archive
\* open reads on after it has been unlinked.
RemoveBegin(j) ==
    /\ job[j].pc = "idle"
    /\ \E stale \in SUBSET listed \ {{}} :
         job' = [job EXCEPT ![j] = [Resting EXCEPT !.pc = "unlink", !.left = stale]]
    /\ UNCHANGED <<item, kept, archive, listed, extracted, edits, lost>>

RemoveUnlink(j) ==
    /\ job[j].pc = "unlink"
    /\ \E a \in job[j].left :
         /\ archive' = [archive EXCEPT ![a].state = "unlinked"]
         /\ job' = [job EXCEPT ![j] = [job[j] EXCEPT !.pc = "drop", !.name = a, !.left = @ \ {a}]]
    /\ UNCHANGED <<item, kept, listed, extracted, edits, lost>>

\* A row another job has deleted makes this one fail, with its rows that are left.
RemoveRow(j) ==
    /\ job[j].pc = "drop"
    /\ listed' = listed \ {job[j].name}
    /\ IF job[j].name \in listed /\ job[j].left # {}
       THEN job' = [job EXCEPT ![j] = [job[j] EXCEPT !.pc = "unlink", !.name = SomeArchive]]
       ELSE JobEnds(j)
    /\ UNCHANGED <<item, kept, archive, extracted, edits, lost>>

----------------------------------------------------------------------------
(* restore *)

\* The row is found and the archive unpacked over what an earlier restore of it left;
\* without an archive the call fails. Restores of the same archive share the directory.
RestoreBegin(j) ==
    /\ job[j].pc = "idle"
    /\ \E a \in listed :
         LET here == {i \in Items : archive[a].has[i] # NothingThere}
         IN  /\ archive[a].state = "whole"
             /\ extracted' = [extracted EXCEPT ![a] =
                                [i \in Items |-> IF i \in here THEN TornItem ELSE @[i]]]
             /\ job' = [k \in BackupJobs |->
                  CASE k = j -> [Resting EXCEPT !.pc = "unpack", !.name = a, !.left = here]
                    [] k # j /\ job[k].pc \in {"unpack", "apply", "copied", "import"}
                             /\ job[k].name = a -> [job[k] EXCEPT !.alone = FALSE]
                    [] OTHER -> job[k]]
    /\ UNCHANGED <<item, kept, archive, listed, edits, lost>>

\* What applyFiles, applyVolumes and applySettings leave of the entries, each TRUE unless the
\* request says otherwise.
Requests == {UNION kinds : kinds \in SUBSET {Files, Volumes, {Settings}}}

\* The unpacking is done. Without confirm the call answers with a preview.
RestoreUnpacked(j) ==
    /\ job[j].pc = "unpack"
    /\ extracted' = [extracted EXCEPT ![job[j].name] =
                       [i \in Items |-> IF i \in job[j].left
                                        THEN archive[job[j].name].has[i] ELSE @[i]]]
    /\ \/ JobEnds(j)
       \/ \E asked \in Requests :
            job' = [job EXCEPT ![j] = [job[j] EXCEPT !.pc = "apply", !.left = @ \cap asked,
                                                     !.passed = job[j].left \ asked]]
    /\ UNCHANGED <<item, kept, archive, listed, edits, lost>>

Source(j, i) == extracted[job[j].name][i]

\* An entry outside the search paths, or with a name that is not a volume's, is counted as
\* skipped, and the restore goes on; so does one that is not in the directory, uncounted.
RestoreSkip(j) ==
    /\ job[j].pc = "apply"
    /\ \E i \in job[j].left :
         job' = [job EXCEPT ![j] = [job[j] EXCEPT !.left = @ \ {i}, !.passed = @ \cup {i}]]
    /\ UNCHANGED <<item, kept, archive, listed, extracted, edits, lost>>

\* The variant that overwrites a file without copying it.
RestoreWithoutCopy(j) ==
    /\ job[j].pc = "apply"
    /\ \E f \in job[j].left \cap Files :
         job' = [job EXCEPT ![j] = [job[j] EXCEPT !.pc = "copied", !.at = {f}, !.left = @ \ {f},
                                                  !.copied = TRUE]]
    /\ UNCHANGED <<item, kept, archive, listed, extracted, edits, lost>>

\* A file in use is copied first; a copy that fails counts as a file that did not exist.
RestoreCopy(j) ==
    /\ job[j].pc = "apply"
    /\ \E f \in job[j].left \cap Files, fails \in BOOLEAN :
         /\ kept' = [kept EXCEPT ![f] = IF fails \/ item[f] = NothingThere THEN @
                                        ELSE @ \cup {item[f]}]
         /\ job' = [job EXCEPT ![j] = [job[j] EXCEPT !.pc = "copied", !.at = {f}, !.left = @ \ {f},
                                                     !.copied = ~fails]]
    /\ UNCHANGED <<item, archive, listed, extracted, edits, lost>>

\* The contents a restore overwrites, if it has a copy and yet nothing keeps them.
Overwritten(j, f) ==
    IF job[j].copied THEN {item[f]} \ ({NothingThere, TornItem} \cup kept[f]) ELSE {}

RestoreFile(j) ==
    /\ job[j].pc = "copied"
    /\ \E f \in job[j].at :
         /\ item' = [item EXCEPT ![f] = Source(j, f)]
         /\ lost' = lost \cup Overwritten(j, f)
         /\ job' = [WrittenTo(f) EXCEPT ![j] = [job[j] EXCEPT !.pc = "apply", !.at = {},
                                                  !.done = @ \cup {f}, !.copied = FALSE]]
    /\ UNCHANGED <<kept, archive, listed, extracted, edits>>

\* Overwriting the file fails, perhaps half way, and with it the restore.
RestoreFileFails(j) ==
    /\ job[j].pc = "copied"
    /\ \E f \in job[j].at, torn \in BOOLEAN :
         IF torn
         THEN /\ item' = [item EXCEPT ![f] = TornItem]
              /\ lost' = lost \cup Overwritten(j, f)
              /\ job' = [WrittenTo(f) EXCEPT ![j] = Resting]
         ELSE JobEnds(j) /\ UNCHANGED <<item, lost>>
    /\ UNCHANGED <<kept, archive, listed, extracted, edits>>

\* updateSettings with the archived settings: all rows are written, or an upsert fails and
\* the restore with it.
RestoreSettings(j) ==
    /\ job[j].pc = "apply" /\ Settings \in job[j].left
    /\ \/ /\ item' = [item EXCEPT ![Settings] = Source(j, Settings)]
          /\ job' = [job EXCEPT ![j] = [job[j] EXCEPT !.left = @ \ {Settings},
                                                      !.done = @ \cup {Settings}]]
       \/ item' = [item EXCEPT ![Settings] = TornItem] /\ JobEnds(j)
    /\ UNCHANGED <<kept, archive, listed, extracted, edits, lost>>

\* Before it touches an entry a restore may fail too: the folder of the target cannot be made,
\* Docker is not there.
RestoreFails(j) ==
    /\ job[j].pc = "apply" /\ job[j].left # {}
    /\ JobEnds(j)
    /\ UNCHANGED <<item, kept, archive, listed, extracted, edits, lost>>

\* The helper container empties the volume, which nothing keeps, and unpacks into it.
RestoreWipe(j) ==
    /\ job[j].pc = "apply"
    /\ \E v \in job[j].left \cap Volumes :
         /\ item' = [item EXCEPT ![v] = TornItem]
         /\ job' = [job EXCEPT ![j] = [job[j] EXCEPT !.pc = "import", !.at = {v}, !.left = @ \ {v}]]
    /\ UNCHANGED <<kept, archive, listed, extracted, edits, lost>>

ImportSucceeds(j) ==
    /\ job[j].pc = "import"
    /\ \E v \in job[j].at :
         /\ item' = [item EXCEPT ![v] = Source(j, v)]
         /\ job' = [job EXCEPT ![j] =
                      [job[j] EXCEPT !.pc = "apply", !.at = {}, !.done = @ \cup {v}]]
    /\ UNCHANGED <<kept, archive, listed, extracted, edits, lost>>

\* The variant that goes on with the next entry.
AfterFailedImportGoesOn(j) == [job[j] EXCEPT !.pc = "apply", !.at = {}]

\* A helper that exits with an error ends the restore with an error.
AfterFailedImport(j) == Resting

ImportFails(j) ==
    /\ job[j].pc = "import"
    /\ job' = [job EXCEPT ![j] = AfterFailedImport(j)]
    /\ UNCHANGED <<item, kept, archive, listed, extracted, edits, lost>>

AnswersOk(j) == job[j].pc = "apply" /\ job[j].left = {}

RestoreAnswer(j) ==
    /\ AnswersOk(j)
    /\ JobEnds(j)
    /\ UNCHANGED <<item, kept, archive, listed, extracted, edits, lost>>

----------------------------------------------------------------------------
\* The server stops: its jobs are gone, their files stay as they are.
BackupsCrash ==
    /\ job' = [j \in BackupJobs |-> Resting]
    /\ UNCHANGED <<item, kept, archive, listed, extracted, edits, lost>>

BackupsNext ==
    \/ \E j \in BackupJobs :
         \/ CreateBegin(j) \/ CreateEntry(j) \/ CreateClose(j) \/ CreateFails(j)
         \/ CreateInsert(j)
         \/ RemoveBegin(j) \/ RemoveUnlink(j) \/ RemoveRow(j)
         \/ RestoreBegin(j) \/ RestoreUnpacked(j) \/ RestoreSkip(j) \/ RestoreCopy(j)
         \/ RestoreFile(j) \/ RestoreFileFails(j) \/ RestoreSettings(j) \/ RestoreFails(j)
         \/ RestoreWipe(j) \/ ImportSucceeds(j) \/ ImportFails(j) \/ RestoreAnswer(j)
    \/ Edit
    \/ BackupsCrash

BackupsSpec == BackupsInit /\ [][BackupsNext]_backupVars

----------------------------------------------------------------------------
\* Files, archives, rows and jobs have their types (backups.service.ts:55).
BackupsTypeOK ==
    /\ item \in [Items -> ItemContents \cup {NothingThere, TornItem}]
    /\ kept \in [Files -> SUBSET (ItemContents \cup {TornItem})]
    /\ archive \in [Archives -> [state : {"none", "partial", "whole", "unlinked"},
                                 has : [Items -> ItemContents \cup {NothingThere, TornItem}]]]
    /\ listed \subseteq Archives
    /\ extracted \in [Archives -> [Items -> ItemContents \cup {NothingThere, TornItem}]]
    /\ job \in [BackupJobs ->
         [pc : {"idle", "create", "insert", "unlink", "drop", "unpack", "apply", "copied",
                "import"},
          name : Archives, left : SUBSET (Items \cup Archives), at : SUBSET Items,
          done : SUBSET Items, passed : SUBSET Items, copied : BOOLEAN, alone : BOOLEAN]]
    /\ edits \in ItemContents
    /\ lost \subseteq ItemContents

\* A backup in the list is never half an archive, even if the server stops in the middle
\* of a creation or creations, restores and clean-ups overlap: it is complete, or its
\* archive has been unlinked by a removal that did not get to the row.
ListedIsWhole == \A a \in listed : archive[a].state \in {"whole", "unlinked"}

\* What a restore overwrites of a file can be got back from a `.bak.` file, unless somebody
\* wrote to the file after the copy or the copy failed; of volumes and settings nothing is kept.
\* And a restore answers "ok" only when everything the archive holds of what it was asked for
\* is in place, as the archive holds it, or has been passed over, refused or missing from the
\* directory; one that was stopped by an entry does not. (The second half but for restores of
\* one archive that overlap: they share a directory. backups.service.ts:255)
RestoreIsTrue ==
    [][/\ lost' = {}
       /\ \A j \in BackupJobs :
            AnswersOk(j) /\ job'[j].pc = "idle" /\ job[j].alone
              => LET has == archive[job[j].name].has
                 IN  /\ job[j].done \cup job[j].passed = {i \in Items : has[i] # NothingThere}
                     /\ \A i \in job[j].done : Source(j, i) = has[i]]_backupVars
================================================================================
