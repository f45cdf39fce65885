----------------------------- MODULE ComposeCreate -----------------------------
(***************************************************************************)
(* Creating a Compose project in one folder, removing it, and the list of    *)
(* projects: ComposeService.create and remove, and the memo of               *)
(* compose-discovery.ts that both of them clear. None of them takes the      *)
(* project's lock, so creations and a removal interleave at every await.     *)
(*                                                                         *)
(* The folder may already hold a project under another of the file names     *)
(* that Compose knows. A text is told apart by who wrote it: the creation's  *)
(* compose file and the creation's .env carry its name.                     *)
(***************************************************************************)
EXTENDS TtlMemo, FiniteSets

CONSTANTS
    NumNames,       \* COMPOSE_FILENAMES, numbered in their order
    ScanIds,        \* scans of the search paths
    DiscoveryTtl,   \* DISCOVERY_TTL_MS, in ticks
    MaxChanges      \* bound on the calls of create and remove

ASSUME ComposeCreateAssumption ==
    NumNames \in Nat \ {0} /\ DiscoveryTtl \in Nat \ {0} /\ MaxChanges \in Nat

VARIABLES
    folder,      \* what is on the disk
    creation,    \* per call of create, the step it stands at and what it was asked
    removal,     \* the call of remove
    discovery,   \* discoveryMemo
    scan,        \* per scan, what it has read, and whether that was overtaken
    missed,      \* the memo holds what it was not told, or told too late, to forget
    changes      \* the calls of create and remove so far

createVars == <<folder, creation, removal, discovery, scan, missed, changes>>

FileNames == 1 .. NumNames

\* A call of create has the number it was made in, and so has what it writes.
Creators == 1 .. MaxChanges
NoFile == 0
OfUser == MaxChanges + 1
Partial == MaxChanges + 2
FileTexts == 0 .. MaxChanges + 2

NoFolder == [there |-> FALSE, yaml |-> [n \in FileNames |-> NoFile],
             tmp |-> [n \in FileNames |-> NoFile], env |-> NoFile]
NoCreation == [pc |-> "idle", name |-> 1, env |-> FALSE, start |-> FALSE, found |-> NoFolder,
               checked |-> FALSE, alone |-> TRUE]
NoRemoval == [pc |-> "idle", name |-> 1]
NoScan == [pc |-> "idle", read |-> {}, overtaken |-> FALSE]

\* scanDirectory takes the first of the names that a folder holds.
Listing(f) ==
    {n \in FileNames : f.yaml[n] # NoFile /\ \A m \in 1 .. n - 1 : f.yaml[m] = NoFile}

\* The folder is not there, or holds a project of the user's with or without an .env.
ComposeCreateInit ==
    /\ folder \in {NoFolder} \cup
         {[NoFolder EXCEPT !.there = TRUE, !.yaml[NumNames] = OfUser, !.env = e] :
            e \in {NoFile, OfUser}}
    /\ creation = [c \in Creators |-> NoCreation]
    /\ removal = NoRemoval
    /\ discovery = EmptyMemo({})
    /\ scan = [s \in ScanIds |-> NoScan]
    /\ missed = FALSE /\ changes = 0

UnderWay(c) == creation[c].pc # "idle"

\* A step on the disk: the creations beside it are not alone any more, and a listing read
\* before it is overtaken.
ScansBeside(f) ==
    [s \in ScanIds |->
        [scan[s] EXCEPT !.overtaken =
                          @ \/ (scan[s].pc = "fill" /\ Listing(f) # Listing(folder))]]

CreationsBeside(f) ==
    [c \in Creators |-> IF ~UnderWay(c) \/ f = folder THEN creation[c]
                        ELSE [creation[c] EXCEPT !.alone = FALSE, !.found = NoFolder,
                                                 !.checked = FALSE]]

\* The creation's step that leaves the folder as f and goes on at pc.
CreateGoes(c, f, pc) ==
    /\ folder' = f
    /\ scan' = ScansBeside(f)
    /\ creation' = [CreationsBeside(f) EXCEPT
                      ![c] = IF pc = "idle" THEN NoCreation ELSE [creation[c] EXCEPT !.pc = pc]]
    /\ UNCHANGED <<removal, discovery, changes>>

\* The variant that does not look whether the project is there.
NameFreeAnyway(n) == TRUE

NameFree(n) == folder.yaml[n] = NoFile

\* create looks for the compose file of the name it was given, and refuses if it is there.
CreateLooks(c) ==
    /\ c = changes + 1
    /\ \E n \in FileNames, env \in BOOLEAN, start \in BOOLEAN :
         /\ NameFree(n)
         /\ creation' = [creation EXCEPT ![c] =
                [NoCreation EXCEPT !.pc = "mkdir", !.name = n, !.env = env, !.start = start,
                                   !.found = folder]]
    /\ changes' = c
    /\ UNCHANGED <<folder, removal, discovery, scan, missed>>

CreateFolder(c) ==
    /\ creation[c].pc = "mkdir"
    /\ \/ CreateGoes(c, [folder EXCEPT !.there = TRUE], IF creation[c].env THEN "env" ELSE "tmp")
       \/ CreateGoes(c, folder, "idle")
    /\ UNCHANGED missed

\* The files of the creation are written one after the other, the .env first, since
\* `compose config` substitutes from it.
FolderWith(c, what) ==
    LET n == creation[c].name
    IN  CASE creation[c].pc = "env"  -> [folder EXCEPT !.env = what]
          [] creation[c].pc = "tmp"  -> [folder EXCEPT !.tmp[n] = what]
          [] creation[c].pc = "yaml" -> [folder EXCEPT !.yaml[n] = what]

NextFile(c) ==
    CASE creation[c].pc = "env" -> "tmp" [] creation[c].pc = "tmp" -> "config"
      [] creation[c].pc = "yaml" -> "clean"

CreateWrites(c) ==
    /\ creation[c].pc \in {"env", "tmp", "yaml"}
    /\ folder.there
    /\ CreateGoes(c, FolderWith(c, c), NextFile(c))
    /\ UNCHANGED missed

\* A write fails, since the folder has been removed or in the middle: create throws, and
\* the memo is not told.
CreateWriteFails(c) ==
    /\ creation[c].pc \in {"env", "tmp", "yaml"}
    /\ CreateGoes(c, IF folder.there THEN FolderWith(c, Partial) ELSE folder, "idle")
    /\ missed' = (missed \/ Listing(folder') # Listing(folder))

\* `compose config` on the temporary file, with what stands in it and in the .env by now.
CreateValidates(c) ==
    LET n == creation[c].name
    IN  /\ creation[c].pc = "config"
        /\ \/ /\ folder.tmp[n] # NoFile /\ (creation[c].env => folder.env # NoFile)
              /\ creation' = [creation EXCEPT ![c] =
                                 [@ EXCEPT !.pc = "yaml",
                                           !.checked = /\ creation[c].alone /\ folder.tmp[n] = c
                                                       /\ creation[c].env => folder.env = c]]
           \/ creation' = [creation EXCEPT ![c].pc = "refuse"]
        /\ UNCHANGED <<folder, removal, discovery, scan, missed, changes>>

WithoutTmp(c) == [folder EXCEPT !.tmp[creation[c].name] = NoFile]

\* The variant that leaves the .env of a refused creation.
CreateTidiesLess(c) ==
    /\ creation[c].pc = "refuse" /\ CreateGoes(c, WithoutTmp(c), "idle")
    /\ UNCHANGED missed

\* A refused creation takes back its temporary file, and then the .env if it was given one.
CreateTidies(c) ==
    /\ \/ /\ creation[c].pc = "refuse"
          /\ CreateGoes(c, WithoutTmp(c), IF creation[c].env THEN "unenv" ELSE "idle")
       \/ creation[c].pc = "unenv" /\ CreateGoes(c, [folder EXCEPT !.env = NoFile], "idle")
    /\ UNCHANGED missed

CreateCleans(c) ==
    /\ creation[c].pc = "clean"
    /\ CreateGoes(c, WithoutTmp(c), IF creation[c].start THEN "up" ELSE "announce")
    /\ UNCHANGED missed

\* The project is started if that was asked for; if it fails, create throws before it
\* has cleared the memo.
CreateStarts(c) ==
    /\ creation[c].pc = "up"
    /\ \/ CreateGoes(c, folder, "announce") /\ UNCHANGED missed
       \/ CreateGoes(c, folder, "idle") /\ missed' = TRUE

\* The variant that forgets the memo.
CreateAnnouncesNothing(c) ==
    /\ creation[c].pc = "announce"
    /\ creation' = [creation EXCEPT ![c] = NoCreation]
    /\ UNCHANGED <<folder, removal, discovery, scan, missed, changes>>

\* The memo is cleared, and the new project read for the answer.
CreateAnnounces(c) ==
    /\ creation[c].pc = "announce"
    /\ creation' = [creation EXCEPT ![c] = NoCreation]
    /\ discovery' = EmptyMemo({}) /\ missed' = FALSE
    /\ UNCHANGED <<folder, removal, scan, changes>>

\* remove finds the project by its compose file, or in the memo.
RemoveStarts(n) ==
    /\ removal.pc = "idle" /\ changes < MaxChanges
    /\ folder.yaml[n] # NoFile \/ (MemoFresh(discovery, DiscoveryTtl) /\ n \in discovery.value)
    /\ removal' = [pc |-> "down", name |-> n]
    /\ changes' = changes + 1
    /\ UNCHANGED <<folder, creation, discovery, scan, missed>>

\* `compose down`; the files are kept if it fails, or if they were not to be removed.
RemoveDowns ==
    /\ removal.pc = "down"
    /\ \E pc \in {"delete", "idle"} : removal' = [removal EXCEPT !.pc = pc]
    /\ UNCHANGED <<folder, creation, discovery, scan, missed, changes>>

RemoveDeletes ==
    /\ removal.pc = "delete"
    /\ folder' = NoFolder /\ scan' = ScansBeside(NoFolder) /\ creation' = CreationsBeside(NoFolder)
    /\ removal' = [removal EXCEPT !.pc = "verify"]
    /\ UNCHANGED <<discovery, missed, changes>>

\* The folder must be gone: if a creation has made it again meanwhile, remove throws before
\* it has cleared the memo.
RemoveEnds ==
    /\ removal.pc = "verify"
    /\ removal' = NoRemoval
    /\ IF folder.there THEN missed' = TRUE /\ UNCHANGED discovery
       ELSE discovery' = EmptyMemo({}) /\ missed' = FALSE
    /\ UNCHANGED <<folder, creation, scan, changes>>

\* A list of the projects is asked for while the memo is empty and no scan is waited for.
ScanStarts(s) ==
    /\ scan[s].pc = "idle"
    /\ ~MemoFresh(discovery, DiscoveryTtl) /\ ~MemoShared(discovery, DiscoveryTtl)
    /\ scan' = [scan EXCEPT ![s].pc = "read"]
    /\ discovery' = MemoSent(discovery, s)
    /\ UNCHANGED <<folder, creation, removal, missed, changes>>

ScanReads(s) ==
    /\ scan[s].pc = "read"
    /\ scan' = [scan EXCEPT ![s] = [scan[s] EXCEPT !.pc = "fill", !.read = Listing(folder)]]
    /\ UNCHANGED <<folder, creation, removal, discovery, missed, changes>>

ScanFills(s) ==
    /\ scan[s].pc = "fill"
    /\ discovery' = MemoFilled(discovery, scan[s].read) /\ missed' = scan[s].overtaken
    /\ scan' = [scan EXCEPT ![s] = NoScan]
    /\ UNCHANGED <<folder, creation, removal, changes>>

\* A value that is too old is as none.
DiscoveryAges ==
    /\ LET older == MemoOlder(discovery, DiscoveryTtl)
       IN  discovery' = IF MemoFresh(older, DiscoveryTtl) THEN older
                        ELSE [EmptyMemo({}) EXCEPT !.by = discovery.by]
    /\ UNCHANGED <<folder, creation, removal, scan, missed, changes>>

ComposeCreateNext ==
    \/ \E c \in Creators :
          \/ CreateLooks(c) \/ CreateFolder(c) \/ CreateWrites(c) \/ CreateWriteFails(c)
          \/ CreateValidates(c) \/ CreateTidies(c) \/ CreateCleans(c) \/ CreateStarts(c)
          \/ CreateAnnounces(c)
    \/ \E n \in FileNames : RemoveStarts(n)
    \/ RemoveDowns \/ RemoveDeletes \/ RemoveEnds
    \/ \E s \in ScanIds : ScanStarts(s) \/ ScanReads(s) \/ ScanFills(s)
    \/ DiscoveryAges

ComposeCreateSpec == ComposeCreateInit /\ [][ComposeCreateNext]_createVars

----------------------------------------------------------------------------
Folders == [there : BOOLEAN, yaml : [FileNames -> FileTexts], tmp : [FileNames -> FileTexts],
            env : FileTexts]

\* Files, calls, scans and the memo have their types (compose.service.ts:494,
\* compose-discovery.ts:47).
ComposeCreateTypeOK ==
    /\ folder \in Folders
    /\ \A c \in Creators :
         /\ creation[c].pc \in {"idle", "mkdir", "env", "tmp", "config", "yaml", "refuse",
                                "unenv", "clean", "up", "announce"}
         /\ creation[c].name \in FileNames /\ creation[c].found \in Folders
         /\ {creation[c].env, creation[c].start, creation[c].checked,
             creation[c].alone} \subseteq BOOLEAN
    /\ removal \in [pc : {"idle", "down", "delete", "verify"}, name : FileNames]
    /\ discovery.value \subseteq FileNames /\ discovery.by \subseteq ScanIds
    /\ scan \in [ScanIds -> [pc : {"idle", "read", "fill"}, read : SUBSET FileNames,
                             overtaken : BOOLEAN]]
    /\ missed \in BOOLEAN /\ changes \in 0 .. MaxChanges

Ends(c) == UnderWay(c) /\ creation'[c].pc = "idle"

\* A creation that has written its project has written what Compose had accepted, where
\* nothing was, and left nothing else of its own.
ExactlyCreated(c) ==
    LET r == creation[c]
    IN  /\ r.checked /\ r.found.yaml[r.name] = NoFile
        /\ folder' = [r.found EXCEPT !.there = TRUE, !.yaml[r.name] = c,
                                     !.tmp[r.name] = NoFile, !.env = IF r.env THEN c ELSE @]

\* A creation that Compose refused has left the folder as it was, but for an .env that
\* stood there and that it had replaced by its own.
ExactlyUndone(c) ==
    LET r == creation[c]
    IN  folder' = [r.found EXCEPT !.there = TRUE, !.tmp[r.name] = NoFile,
                                  !.env = IF r.env THEN NoFile ELSE @]

\* A listing in the memo is that of the folder, unless a creation or a removal has yet to
\* clear the memo, has failed before it did, or did so while the listing was under way.
ListIsCurrent ==
    MemoFresh(discovery, DiscoveryTtl) /\ discovery.value # Listing(folder)
      => \/ missed \/ removal.pc = "verify"
         \/ \E c \in Creators : creation[c].pc \in {"clean", "up", "announce"}

\* A creation beside which nothing else has changed the folder creates exactly its project
\* or, if it is refused, nothing; and the list of projects follows creations and removals,
\* however they interleave (ComposeService.create, compose.service.ts:494, remove, :647).
CreationIsExact ==
    [][/\ \A c \in Creators : Ends(c) /\ creation[c].alone =>
             /\ creation[c].pc \in {"up", "announce"} => ExactlyCreated(c)
             /\ creation[c].pc \in {"refuse", "unenv"} => ExactlyUndone(c)
       /\ ListIsCurrent']_createVars
================================================================================
