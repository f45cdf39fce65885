------------------------------- MODULE HomeLayout -------------------------------
(***************************************************************************)
(* The home layout that several operators edit: the server's compare and   *)
(* swap on its revision, and in each browser the desktop, which keeps the  *)
(* layout it shows, and the queue that saves it.                           *)
(*                                                                         *)
(* A layout is the set of edits it contains; an edit only adds.            *)
(***************************************************************************)
EXTENDS Naturals

CONSTANTS
    Desktops,     \* open home pages
    Edits,        \* bound: edits made in all
    Cached,       \* edits in a browser's cache from before the server kept layouts
    Reloading,    \* bound: the pages whose loading effect may run again
    MaxEffects,   \* bound: how often it does
    DirtyEffects  \* BOOLEAN: also while an edit is not saved

ASSUME CachedAssumption ==
    Cached \subseteq Edits /\ Reloading \subseteq Desktops /\ MaxEffects \in Nat

VARIABLES
    server,  \* the settings rows: stored, revision, layout
    unmade,  \* edits not made yet
    desk     \* the state of each page

homeVars == <<server, unmade, desk>>

Layouts == SUBSET Edits
Stored == [stored : BOOLEAN, revision : Nat, layout : Layouts]
Empty == [stored |-> FALSE, revision |-> 0, layout |-> {}]

HomeTypeOK ==
    /\ server \in Stored /\ unmade \in Layouts
    /\ desk \in [Desktops ->
         [shown : Layouts, local : Layouts, dirty : BOOLEAN, timer : BOOLEAN, hydrated : BOOLEAN,
          fetch : {"none", "asked", "answered"}, fetched : Stored, effects : 0 .. MaxEffects,
          edited : BOOLEAN, savedSince : BOOLEAN, crossed : BOOLEAN,
          revision : Nat, latest : Layouts, rerun : BOOLEAN,
          queue : {"idle", "sent", "ok", "conflict", "failed", "reloaded"},
          snapshot : Layouts, expected : Nat, answer : Stored]]
    /\ \A d \in Desktops : desk[d].timer => desk[d].hydrated

\* The pages are opened; the loading effect has asked the server.
HomeInit ==
    /\ server \in {Empty, [stored |-> TRUE, revision |-> 1, layout |-> {}]}
    /\ unmade = Edits \ Cached
    /\ \E cached \in [Desktops -> {{}, Cached}] :
         desk = [d \in Desktops |->
           [shown |-> cached[d], local |-> cached[d], dirty |-> FALSE, timer |-> FALSE,
            hydrated |-> FALSE, fetch |-> "asked", fetched |-> Empty, effects |-> 0,
            edited |-> FALSE, savedSince |-> FALSE, crossed |-> FALSE,
            revision |-> 0, latest |-> {}, rerun |-> FALSE, queue |-> "idle",
            snapshot |-> {}, expected |-> 0, answer |-> Empty]]

Become(d, page) == desk' = [desk EXCEPT ![d] = page]

--------------------------------------------------------------------------------
\* createLayoutSaveQueue: what a page becomes

\* run: the latest layout is sent with the revision that is known.
Sent(page) == [page EXCEPT !.queue = "sent", !.answer = Empty, !.snapshot = page.latest,
                             !.expected = page.revision, !.rerun = FALSE]

Submitted(page, layout) ==
    IF page.queue = "idle" THEN Sent([page EXCEPT !.latest = layout])
    ELSE [page EXCEPT !.latest = layout, !.rerun = TRUE]

\* Mutated form: the inflight flag is not taken back.
EndedBusy(page) == IF page.rerun THEN Sent(page) ELSE page

\* The finally block of run.
Ended(page) == IF page.rerun THEN Sent(page) ELSE [page EXCEPT !.queue = "idle", !.answer = Empty]

--------------------------------------------------------------------------------
\* The server

\* Mutated form: the revision is not compared.
WriteUnconditionally(layout, expected) ==
    server' = [stored |-> TRUE, revision |-> server.revision + 1, layout |-> layout]

\* writeHomeLayout, one transaction; false when the revision is another.
WriteHomeLayout(layout, expected) ==
    /\ expected = server.revision
    /\ server' = [stored |-> TRUE, revision |-> server.revision + 1, layout |-> layout]

\* PUT: done, refused, or failed; a request that fails may have been done.
PutLayout(d) ==
    /\ desk[d].queue = "sent"
    /\ \/ /\ WriteHomeLayout(desk[d].snapshot, desk[d].expected)
          /\ \E queue \in {"ok", "failed"} : Become(d, [desk[d] EXCEPT !.queue = queue,
                 !.answer = [stored |-> TRUE, revision |-> server.revision + 1, layout |-> {}]])
       \/ /\ desk[d].expected # server.revision
          /\ Become(d, [desk[d] EXCEPT !.queue = "conflict"])
          /\ UNCHANGED server
       \/ Become(d, [desk[d] EXCEPT !.queue = "failed"]) /\ UNCHANGED server
    /\ UNCHANGED unmade

--------------------------------------------------------------------------------
\* The queue receives an answer

\* Mutated form: onSaved although a newer layout is waiting.
SaveOkForgetful(d) ==
    /\ desk[d].queue = "ok"
    /\ Become(d, [desk[d] EXCEPT !.revision = desk[d].answer.revision, !.queue = "idle",
                                 !.answer = Empty, !.savedSince = TRUE,
                                 !.dirty = desk[d].timer /\ @])
    /\ UNCHANGED <<server, unmade>>

SaveOk(d) ==
    /\ desk[d].queue = "ok"
    /\ LET page == [desk[d] EXCEPT !.revision = desk[d].answer.revision] IN
       Become(d, IF page.rerun THEN Sent(page)
                 ELSE [page EXCEPT !.queue = "idle", !.answer = Empty, !.savedSince = TRUE,
                                   !.dirty = page.timer /\ @])
    /\ UNCHANGED <<server, unmade>>

SaveFailed(d) ==
    /\ desk[d].queue = "failed"
    /\ Become(d, Ended(desk[d]))
    /\ UNCHANGED <<server, unmade>>

\* reloadState is asked and the server reads, or the request fails.
Conflict(d) ==
    /\ desk[d].queue = "conflict"
    /\ \/ Become(d, [desk[d] EXCEPT !.queue = "reloaded", !.answer = server])
       \/ Become(d, Ended(desk[d]))
    /\ UNCHANGED <<server, unmade>>

\* The remote layout replaces what is shown and what was to be saved.
Reloaded(d) ==
    /\ desk[d].queue = "reloaded"
    /\ LET remote == desk[d].answer IN
       Become(d, Ended([desk[d] EXCEPT !.revision = remote.revision, !.latest = remote.layout,
                                       !.shown = remote.layout, !.dirty = FALSE]))
    /\ UNCHANGED <<server, unmade>>

--------------------------------------------------------------------------------
\* The desktop

\* Mutated form: the timer is started before the page has loaded the layout.
PublishEarly(d) ==
    /\ \E e \in unmade :
         /\ unmade' = unmade \ {e}
         /\ Become(d, [desk[d] EXCEPT !.shown = @ \cup {e}, !.dirty = TRUE, !.edited = TRUE,
                                      !.timer = TRUE])
    /\ UNCHANGED server

\* publish: an edit is shown at once, and saved 400 ms after the last one.
PublishQueue(d) ==
    /\ \E e \in unmade :
         /\ unmade' = unmade \ {e}
         /\ Become(d, [desk[d] EXCEPT !.shown = @ \cup {e}, !.dirty = TRUE, !.edited = TRUE,
                                      !.timer = desk[d].hydrated])
    /\ UNCHANGED server

SaveTimerFires(d) ==
    /\ desk[d].timer
    /\ Become(d, Submitted([desk[d] EXCEPT !.timer = FALSE], desk[d].shown))
    /\ UNCHANGED <<server, unmade>>

\* The loading effect runs again: when the role or the language changes.
Effect(d) ==
    /\ d \in Reloading /\ desk[d].effects < MaxEffects /\ (desk[d].dirty => DirtyEffects)
    /\ Become(d, [desk[d] EXCEPT !.effects = @ + 1,
                                 !.fetch = "asked", !.fetched = Empty, !.local = desk[d].shown,
                                 !.edited = FALSE, !.savedSince = FALSE])
    /\ UNCHANGED <<server, unmade>>

\* GET: the layout and its revision are read together.
Get(d) ==
    /\ desk[d].fetch = "asked"
    /\ Become(d, [desk[d] EXCEPT !.fetch = "answered", !.fetched = server])
    /\ UNCHANGED <<server, unmade>>

\* pickHomeLayout.
Picked(page) == IF page.dirty THEN page.shown
                ELSE IF page.fetched.stored THEN page.fetched.layout ELSE page.local
Uploads(page) == page.dirty \/ (~ page.fetched.stored /\ page.local # {})

\* The answer is not used when something was saved since it was asked for; an edit
\* made since is submitted instead of it. (History: crossed, it was used during a save.)
Hydrated(page) ==
    IF page.savedSince THEN page
    ELSE IF page.edited THEN IF page.dirty THEN Submitted(page, page.shown) ELSE page
    ELSE LET next == [page EXCEPT !.revision = page.fetched.revision,
                                          !.shown = Picked(page),
                                          !.crossed = @ \/ page.queue # "idle"]
         IN  IF Uploads(page) THEN Submitted(next, next.shown) ELSE next

\* The fetch is over, answered or failed, and edits are saved from now on.
Loaded(page) == [page EXCEPT !.fetch = "none", !.fetched = Empty, !.hydrated = TRUE]

Hydrate(d) ==
    /\ \/ desk[d].fetch = "answered" /\ Become(d, Loaded(Hydrated(desk[d])))
       \/ desk[d].fetch # "none" /\ Become(d, Loaded(desk[d]))
    /\ UNCHANGED <<server, unmade>>

DesktopStep(d) ==
    \/ PutLayout(d) \/ SaveOk(d) \/ SaveFailed(d) \/ Conflict(d) \/ Reloaded(d)
    \/ SaveTimerFires(d) \/ Get(d) \/ Hydrate(d)

HomeNext == \E d \in Desktops : DesktopStep(d) \/ PublishQueue(d) \/ Effect(d)

HomeSpec == HomeInit /\ [][HomeNext]_homeVars

\* Timers fire, and requests are answered or fail.
HomeFairSpec == HomeSpec /\ \A d \in Desktops : WF_homeVars(DesktopStep(d))

--------------------------------------------------------------------------------
\* Properties

\* An edit that has reached the server is never lost by the save of a page that did not show it
\* (writeHomeLayout, home/index.ts:139), unless an answer to the loading request replaced what a
\* page shows while it was saving: that answer may be older than what the queue has reloaded,
\* and the revision that the save answers then goes with a layout it does not belong to.
NoEditLost ==
    [][(\A d \in Desktops : ~ desk[d].crossed) => server.layout \subseteq server'.layout]_homeVars

\* A page that has no unsaved edit by its own account (dirtyRef, casa-desktop.tsx:218), and
\* knows a revision of the server's, shows nothing that the server does not have: no edit that
\* was refused, failed or was made during a save is taken for saved; with the exception of
\* NoEditLost.
CleanIsSaved ==
    (\A d \in Desktops : ~ desk[d].crossed) =>
        \A d \in Desktops :
            ~ desk[d].dirty /\ desk[d].revision > 0 => desk[d].shown \subseteq server.layout

\* No step loses an edit, or takes one for saved (writeHomeLayout, home/index.ts:139, and dirtyRef,
\* casa-desktop.tsx:218).
EditsHold == NoEditLost /\ [][CleanIsSaved']_homeVars

\* What is to be saved is saved, refused or reported: a page does not wait for
\* ever, whatever the other pages save.
QueueDrains == \A d \in Desktops : desk[d].timer ~> ~ desk[d].timer /\ desk[d].queue = "idle"
================================================================================
