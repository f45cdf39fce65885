----------------------------- MODULE ComposeEditor -----------------------------
(***************************************************************************)
(* The page of one compose project (apps/web/src/components/compose/        *)
(* compose-detail-page.tsx): the editors of its compose file and of one of   *)
(* its env files, the base hash a save carries, and the requests that run    *)
(* beside the typing.                                                       *)
(*                                                                         *)
(* A text is a number and its own hash; every text typed or written is a new *)
(* one, 0 the empty text. `from`, which no code keeps, is the text of the    *)
(* file that the text in an editor was made of. A hash is computed at once:  *)
(* no click falls in between. Logs, validation, the backup and the previews  *)
(* only keep the buttons disabled and are left out, as are the services'     *)
(* looks.                                                                   *)
(***************************************************************************)
EXTENDS Naturals

CONSTANTS
    EnvFiles,      \* the env files of the project
    ReadIds,       \* requests for texts that may be on their way
    MaxTexts,      \* bound on the texts made
    MaxReloads,    \* bound on the changes of the language and of the env file
    SecureContext  \* has the browser crypto.subtle: over https and on localhost only

ASSUME ComposeEditorAssumption ==
    /\ MaxTexts \in Nat /\ MaxReloads \in Nat
    /\ SecureContext \in BOOLEAN /\ EnvFiles # {} /\ "compose.yaml" \notin EnvFiles
    /\ ReadIds # {}

VARIABLES
    files,     \* the files' texts
    texts,    \* how many texts there have been
    open,     \* does the page show the project, not yet, or an error instead
    yaml,     \* the editor of the compose file: its text, what it was made of, its base
    env,      \* the editor of an env file: the file, its text and its base
    reads,    \* the requests for texts
    task,     \* the operation that keeps the buttons busy
    crossed,  \* has the project been loaded while a service was being added
    reloads   \* how often the language or the env file has been changed

editorVars == <<files, texts, open, yaml, env, reads, task, crossed, reloads>>

Yaml == "compose.yaml"
EditedFiles == EnvFiles \cup {Yaml}
\* The env file that is shown first: .env, or else the first.
PreferredEnv == CHOOSE f \in EnvFiles : TRUE
NoHash == MaxTexts + 1
NoRead == [pc |-> "none", file |-> Yaml, text |-> 0, own |-> FALSE]
NoTask == [pc |-> "idle", what |-> "save", file |-> Yaml, text |-> 0, from |-> 0, base |-> NoHash]

\* The page is opened: it asks for the project.
ComposeEditorInit ==
    /\ files = [f \in EditedFiles |-> 0] /\ texts = 0
    /\ open = "not yet"
    /\ yaml = [text |-> 0, from |-> 0, base |-> NoHash]
    /\ env = [file |-> PreferredEnv, text |-> 0, base |-> NoHash]
    /\ LET first == CHOOSE r \in ReadIds : TRUE
       IN  reads = [[r \in ReadIds |-> NoRead] EXCEPT ![first].pc = "sent"]
    /\ task = NoTask /\ crossed = FALSE /\ reloads = 0

\* A new text.
NewText == texts < MaxTexts /\ texts' = texts + 1

Idle == task.pc = "idle" /\ open = "shown"
Unread(rs) == {r \in ReadIds : rs[r].pc = "none"}
\* Asking for file f, `own` for the operation that waits for it.
Asking(rs, f, own) ==
    LET r == CHOOSE i \in Unread(rs) : TRUE
    IN  [rs EXCEPT ![r] = [pc |-> "sent", file |-> f, text |-> 0, own |-> own]]

----------------------------------------------------------------------------
(* Reading: a project's read brings the compose file, then asks for an env file *)

\* The language is changed, and the page loads the project again.
LoadsAgain ==
    /\ Unread(reads) # {} /\ reads' = Asking(reads, Yaml, FALSE)
    /\ reloads < MaxReloads /\ reloads' = reloads + 1
    /\ UNCHANGED <<files, texts, open, yaml, env, task, crossed>>

\* Another env file is chosen: the editor is that file's at once, its text when it arrives.
ChoosesEnv(f) ==
    /\ open = "shown" /\ f # env.file
    /\ env' = [env EXCEPT !.file = f]
    /\ Unread(reads) # {} /\ reads' = Asking(reads, f, FALSE)
    /\ reloads < MaxReloads /\ reloads' = reloads + 1
    /\ UNCHANGED <<files, texts, open, yaml, task, crossed>>

ServerReads(r) ==
    /\ reads[r].pc = "sent"
    /\ reads' = [reads EXCEPT ![r] = [reads[r] EXCEPT !.pc = "read", !.text = files[reads[r].file]]]
    /\ UNCHANGED <<files, texts, open, yaml, env, task, crossed, reloads>>

\* The editor of the compose file when its text has come: text and base, whatever has been
\* typed.
Loaded(text) == [text |-> text, from |-> text, base |-> text]

\* The operation that ends with the project loaded ends.
AfterLoad(r) == IF reads[r].own THEN NoTask ELSE task

\* A text arrives. After the project's, the env file is asked for. Without crypto.subtle the
\* hash throws, and the page gives up the project.
TextArrives(r) ==
    /\ reads[r].pc = "read"
    /\ IF reads[r].file = Yaml
       THEN /\ open' = IF SecureContext THEN "shown" ELSE "error"
            /\ yaml' = Loaded(reads[r].text)
            /\ reads' = LET rest == [reads EXCEPT ![r] = NoRead]
                        IN  IF SecureContext THEN Asking(rest, PreferredEnv, FALSE) ELSE rest
            /\ UNCHANGED env
       ELSE /\ env' = [file |-> reads[r].file, text |-> reads[r].text, base |-> reads[r].text]
            /\ reads' = [reads EXCEPT ![r] = NoRead]
            /\ UNCHANGED <<open, yaml>>
    /\ task' = AfterLoad(r)
    /\ crossed' = (crossed \/ (reads[r].file = Yaml /\ <<task.what, task.pc>> = <<"add", "done">>))
    /\ UNCHANGED <<files, texts, reloads>>

\* Or it does not, wherever it got lost.
ReadFails(r) ==
    /\ reads[r].pc = "sent"
    /\ open' = IF reads[r].file = Yaml THEN "error" ELSE open
    /\ task' = AfterLoad(r)
    /\ reads' = [reads EXCEPT ![r] = NoRead]
    /\ UNCHANGED <<files, texts, yaml, env, crossed, reloads>>

----------------------------------------------------------------------------
(* Typing, here and elsewhere *)

\* The editors are never locked.
Types(doc) ==
    /\ open = "shown" /\ NewText
    /\ \/ doc = "yaml" /\ yaml' = [yaml EXCEPT !.text = texts'] /\ UNCHANGED env
       \/ doc = "env" /\ env' = [env EXCEPT !.text = texts'] /\ UNCHANGED yaml
    /\ UNCHANGED <<files, open, reads, task, crossed, reloads>>

\* Another page, the scheduler's updates or a shell writes a file.
OthersWrite(f) ==
    /\ NewText /\ files' = [files EXCEPT ![f] = texts']
    /\ UNCHANGED <<open, yaml, env, reads, task, crossed, reloads>>

----------------------------------------------------------------------------
(* The operations *)

SendingYaml(text) == [pc |-> "sent", what |-> "save", file |-> Yaml, text |-> text,
                      from |-> yaml.from, base |-> yaml.base]

SaveYaml ==
    /\ Idle /\ task' = SendingYaml(yaml.text)
    /\ UNCHANGED <<files, texts, open, yaml, env, reads, crossed, reloads>>
\* A service's icon is put into the text shown, and that is saved.
SaveIcon ==
    /\ Idle /\ NewText /\ task' = SendingYaml(texts')
    /\ UNCHANGED <<files, open, yaml, env, reads, crossed, reloads>>
SaveEnv ==
    /\ Idle
    /\ task' = [pc |-> "sent", what |-> "save", file |-> env.file, text |-> env.text,
                from |-> 0, base |-> env.base]
    /\ UNCHANGED <<files, texts, open, yaml, env, reads, crossed, reloads>>
\* Adding a service, or after a confirmation an action on the project or a service.
Acts(what) ==
    /\ Idle /\ task' = [NoTask EXCEPT !.pc = "sent", !.what = what]
    /\ UNCHANGED <<files, texts, open, yaml, env, reads, crossed, reloads>>

\* The server's check of the base (see updateYaml in ComposeService).
BaseHolds == task.base \in {NoHash, files[task.file]}

\* What the answer to a save says: the text saved.
AnsweredTask == [task EXCEPT !.pc = "done", !.from = 0, !.base = NoHash]

\* The server saves; adds a service or takes one out; or refuses and changes nothing.
ServerSaves ==
    /\ task.pc = "sent" /\ task.what = "save" /\ BaseHolds
    /\ files' = [files EXCEPT ![task.file] = task.text]
    /\ task' = AnsweredTask
    /\ UNCHANGED <<texts, open, yaml, env, reads, crossed, reloads>>
ServerActs ==
    /\ task.pc = "sent" /\ task.what # "save"
    /\ \/ NewText /\ files' = [files EXCEPT ![Yaml] = texts']
       \/ task.what = "act" /\ UNCHANGED <<files, texts>>
    /\ task' = [task EXCEPT !.pc = "done", !.text = files'[Yaml]]
    /\ UNCHANGED <<open, yaml, env, reads, crossed, reloads>>
ServerRefuses ==
    /\ task.pc = "sent"
    /\ task' = [NoTask EXCEPT !.pc = "failed", !.what = task.what]
    /\ UNCHANGED <<files, texts, open, yaml, env, reads, crossed, reloads>>

\* A save of the compose file answers the text saved, which replaces what is typed by now;
\* one of an env file leaves that, and gives the base of what was sent.
SaveAnswers ==
    /\ task.pc = "done" /\ task.what = "save"
    /\ IF task.file = Yaml
       THEN yaml' = Loaded(task.text) /\ UNCHANGED env
       ELSE env' = [env EXCEPT !.base = task.text] /\ UNCHANGED yaml
    /\ task' = NoTask
    /\ UNCHANGED <<files, texts, open, reads, crossed, reloads>>

\* A service added: the text is shown, the base stays that of the text before. In a variant
\* the base is that of the new text, and the text stays.
AddKeepsText == [yaml EXCEPT !.base = task.text]
AddShows == [yaml EXCEPT !.text = task.text, !.from = task.text]
AddAnswers ==
    /\ task.pc = "done" /\ task.what = "add"
    /\ yaml' = AddShows
    /\ task' = NoTask
    /\ UNCHANGED <<files, texts, open, env, reads, crossed, reloads>>

\* After an action, and after a failed adding, the project is loaded; other failures end it.
LoadsAfter ==
    /\ <<task.what, task.pc>> \in {<<"act", "done">>, <<"add", "failed">>}
    /\ Unread(reads) # {} /\ reads' = Asking(reads, Yaml, TRUE)
    /\ task' = [task EXCEPT !.pc = "loading"]
    /\ UNCHANGED <<files, texts, open, yaml, env, crossed, reloads>>
TaskFails ==
    /\ task.pc = "failed" /\ task.what # "add"
    /\ task' = NoTask
    /\ UNCHANGED <<files, texts, open, yaml, env, reads, crossed, reloads>>

----------------------------------------------------------------------------

ComposeEditorNext ==
    \/ LoadsAgain
    \/ \E f \in EnvFiles : ChoosesEnv(f)
    \/ \E r \in ReadIds : ServerReads(r) \/ TextArrives(r) \/ ReadFails(r)
    \/ \E doc \in {"yaml", "env"} : Types(doc)
    \/ \E f \in EditedFiles : OthersWrite(f)
    \/ SaveYaml \/ SaveIcon \/ SaveEnv
    \/ \E what \in {"add", "act"} : Acts(what)
    \/ ServerSaves \/ ServerActs \/ ServerRefuses
    \/ SaveAnswers \/ AddAnswers \/ LoadsAfter \/ TaskFails

ComposeEditorSpec == ComposeEditorInit /\ [][ComposeEditorNext]_editorVars

----------------------------------------------------------------------------
(* Properties *)

\* The page's state has its types (compose-detail-page.tsx:55).
ComposeEditorTypeOK ==
    LET Texts == 0..MaxTexts
        Bases == 0..NoHash
    IN  /\ files \in [EditedFiles -> Texts] /\ texts \in Texts
        /\ open \in {"not yet", "shown", "error"} /\ crossed \in BOOLEAN
        /\ reloads \in 0..MaxReloads
        /\ yaml \in [text : Texts, from : Texts, base : Bases]
        /\ env \in [file : EnvFiles, text : Texts, base : Bases]
        /\ reads \in [ReadIds -> [pc : {"none", "sent", "read"}, file : EditedFiles,
                                  text : Texts, own : BOOLEAN]]
        /\ task \in [pc : {"idle", "sent", "done", "failed", "loading"},
                     what : {"save", "add", "act"}, file : EditedFiles,
                     text : Texts, from : Texts, base : Bases]

\* A save of the compose file that is accepted replaces the very text that what it saves was
\* made of, although the project is loaded and services are added and removed beside the
\* typing, by this page and by others, and answers arrive in any order; unless the project
\* was loaded while a service was being added (handleSave and handleAddService,
\* compose-detail-page.tsx:125, 224).
SaveReplacesItsOrigin ==
    [][(task.pc = "sent" /\ task'.pc = "done" /\ task.what = "save" /\ task.file = Yaml
        /\ ~crossed)
       => files[Yaml] = task.from]_editorVars

\* A project that has been read is shown, with the web interface at the address
\* docs/DEPLOY.md:15 gives, http://<host>:3000 (load, compose-detail-page.tsx:93).
ReadProjectIsShown ==
    [][\A r \in ReadIds : (reads[r].file = Yaml /\ TextArrives(r)) => open' = "shown"]_editorVars
================================================================================
