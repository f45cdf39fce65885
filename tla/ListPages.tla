------------------------------- MODULE ListPages -------------------------------
(***************************************************************************)
(* The pages that list what the host has: containers, compose projects,     *)
(* images, volumes, updates and backups (apps/web/src/components). A page    *)
(* loads its list, some reload it on Docker's events and by a timer          *)
(* (hooks/use-docker-live-reload.ts, modules/events/index.ts), and it runs   *)
(* operations, after a confirmation and perhaps on several items in turn.    *)
(*                                                                         *)
(* One open page; what a list shows is a number, the version of what there   *)
(* is to list. The stats of containers, which are merged into the rows, the  *)
(* progress texts and the search boxes that only hide rows are left out. One *)
(* operation at a time: the containers page, whose buttons are only disabled *)
(* for the container at work, would allow more.                              *)
(***************************************************************************)
EXTENDS Naturals

CONSTANTS
    ListKinds,   \* the pages of the instance
    LoadIds,     \* the requests for the list that may be on their way
    MaxBulk,     \* how many items one operation may be about
    MaxListed,   \* bound on the changes of what there is to list
    MaxMishaps,  \* bound on failing requests, breaks of the stream and filters typed
    BrowseNames  \* the volumes that can be browsed

ASSUME ListPagesAssumption ==
    /\ ListKinds \subseteq {"containers", "compose", "images", "volumes", "updates", "backups"}
    /\ MaxBulk \in Nat \ {0} /\ MaxListed \in Nat /\ MaxMishaps \in Nat

VARIABLES
    kind,      \* which page it is
    listed,    \* the version of what there is to list
    visible,   \* is the tab visible
    stream,    \* the event stream, and whether an event is being coalesced
    filter,    \* the containers page's filter: what is typed and what is applied
    loads,     \* the requests for the list on their way
    list,      \* what the page shows, and under which filter
    banner,    \* the error shown: none, of a load or of an operation
    work,      \* the operation: where it stands, was it confirmed, items left, has one failed
    browse,    \* the volumes page's panel: the volume named, the entries, requests on their way
    mishaps    \* mishaps so far

listVars == <<kind, listed, visible, stream, filter, loads, list, banner, work, browse, mishaps>>

Filters == {"all", "narrow"}
NoVolume == "none"
NoLoad == [pc |-> "none", filter |-> "all", value |-> 0, for |-> "page"]
Rest == [pc |-> "idle", how |-> "direct", left |-> 0, failed |-> FALSE]
Shut == [name |-> NoVolume, entries |-> NoVolume, busy |-> FALSE, asked |-> {}]

\* The pages that reload by themselves.
SelfReloading == {"containers", "compose", "images", "volumes"}

ListPagesInit ==
    /\ kind \in ListKinds
    /\ listed = 0 /\ visible = TRUE /\ mishaps = 0
    /\ stream = [open |-> kind \in SelfReloading, due |-> FALSE]
    /\ filter = [typed |-> "all", applied |-> "all"]
    /\ loads = [l \in LoadIds |-> NoLoad]
    /\ list = [value |-> 0, filter |-> "all"]
    /\ banner = "none" /\ work = Rest /\ browse = Shut

Mishap == mishaps < MaxMishaps /\ mishaps' = mishaps + 1

----------------------------------------------------------------------------
(* Loading the list *)

Free(ls) == {l \in LoadIds : ls[l].pc = "none"}
Asked(ls, f, for) ==
    LET l == CHOOSE i \in Free(ls) : TRUE
    IN  [ls EXCEPT ![l] = [pc |-> "sent", filter |-> f, value |-> 0, for |-> for]]

\* The error when a load begins, asked by the user or by the page itself: every page but
\* the one of compose projects forgets it.
AtLoad(b, byUser) == IF kind # "compose" \/ byUser THEN "none" ELSE b

\* The load the page starts by itself, because of an event, the timer or the tab. A
\* variant for the compose page: it forgets the error, too.
ReloadsForgetting ==
    /\ Free(loads) # {}
    /\ loads' = Asked(loads, filter.applied, "page")
    /\ banner' = "none"
    /\ UNCHANGED <<kind, listed, filter, list, work, browse>>
Reloads ==
    /\ Free(loads) # {}
    /\ loads' = Asked(loads, filter.applied, "page")
    /\ banner' = AtLoad(banner, FALSE)
    /\ UNCHANGED <<kind, listed, filter, list, work, browse>>

\* Something changes on the host; the event reaches the stream, if it is open.
HostChanges ==
    /\ listed < MaxListed /\ listed' = listed + 1
    /\ stream' = [stream EXCEPT !.due = @ \/ stream.open]
    /\ UNCHANGED <<kind, visible, filter, loads, list, banner, work, browse, mishaps>>

\* The debounced event: a hidden page ignores it.
EventFires ==
    /\ stream.due
    /\ stream' = [stream EXCEPT !.due = FALSE]
    /\ IF visible THEN Reloads
       ELSE UNCHANGED <<kind, listed, filter, loads, list, banner, work, browse>>
    /\ UNCHANGED <<visible, mishaps>>

\* The timer, a variant that does not run beside an open stream, and the tab coming back.
FallbackWithoutStream ==
    /\ kind \in SelfReloading /\ visible /\ ~stream.open /\ Reloads
    /\ UNCHANGED <<visible, stream, mishaps>>
Fallback ==
    /\ kind \in SelfReloading /\ visible /\ Reloads
    /\ UNCHANGED <<visible, stream, mishaps>>
TabHides ==
    /\ visible /\ Mishap /\ visible' = FALSE
    /\ UNCHANGED <<kind, listed, stream, filter, loads, list, banner, work, browse>>
TabShows ==
    /\ ~visible /\ visible' = TRUE
    /\ IF kind \in SelfReloading THEN Reloads
       ELSE UNCHANGED <<kind, listed, filter, loads, list, banner, work, browse>>
    /\ UNCHANGED <<stream, mishaps>>

\* The stream breaks, with the event being coalesced or without, and is opened again by
\* the browser; what happened in between is not told.
EventStreamBreaks ==
    /\ stream.open /\ Mishap
    /\ \E due \in {FALSE, stream.due} : stream' = [open |-> FALSE, due |-> due]
    /\ UNCHANGED <<kind, listed, visible, filter, loads, list, banner, work, browse>>
EventStreamReturns ==
    /\ kind \in SelfReloading /\ ~stream.open /\ stream' = [stream EXCEPT !.open = TRUE]
    /\ UNCHANGED <<kind, listed, visible, filter, loads, list, banner, work, browse, mishaps>>

\* The refresh button.
RefreshClicked ==
    /\ Free(loads) # {}
    /\ loads' = Asked(loads, filter.applied, "page")
    /\ banner' = AtLoad(banner, TRUE)
    /\ UNCHANGED <<kind, listed, visible, stream, filter, list, work, browse, mishaps>>

\* The containers page's filter: it is typed, and applied when typing pauses or the button
\* is pressed; the button also loads, with the filter from before.
FilterTyped(f) ==
    /\ kind = "containers" /\ Mishap /\ f # filter.typed /\ filter' = [filter EXCEPT !.typed = f]
    /\ UNCHANGED <<kind, listed, visible, stream, loads, list, banner, work, browse>>
FilterApplied(byButton) ==
    /\ kind = "containers" /\ filter.typed # filter.applied
    /\ LET ls == IF byButton THEN Asked(loads, filter.applied, "page") ELSE loads
       IN  /\ Free(loads) # {} /\ Free(ls) # {}
           /\ loads' = Asked(ls, filter.typed, "page")
    /\ filter' = [filter EXCEPT !.applied = filter.typed]
    /\ banner' = AtLoad(banner, TRUE)
    /\ UNCHANGED <<kind, listed, visible, stream, list, work, browse, mishaps>>

\* The server puts the list together.
ListIsRead(l) ==
    /\ loads[l].pc = "sent"
    /\ loads' = [loads EXCEPT ![l] = [loads[l] EXCEPT !.pc = "read", !.value = listed]]
    /\ UNCHANGED <<kind, listed, visible, stream, filter, list, banner, work, browse, mishaps>>

\* The error and the operation when load l is over, with the error so far: the compose page
\* shows the failure of its operation again, on the others the load has cleared it for good.
AfterReload(l, b) ==
    IF loads[l].for = "work"
    THEN /\ banner' = (IF work.failed /\ kind = "compose" THEN "work" ELSE b)
         /\ work' = Rest
    ELSE banner' = b /\ UNCHANGED work

\* An answer is shown when it arrives, whatever arrived before it.
ListArrives(l) ==
    /\ loads[l].pc = "read"
    /\ list' = [value |-> loads[l].value, filter |-> loads[l].filter]
    /\ AfterReload(l, banner)
    /\ loads' = [loads EXCEPT ![l] = NoLoad]
    /\ UNCHANGED <<kind, listed, visible, stream, filter, browse, mishaps>>
ListFails(l) ==
    /\ loads[l].pc # "none" /\ Mishap
    /\ AfterReload(l, "load")
    /\ loads' = [loads EXCEPT ![l] = NoLoad]
    /\ UNCHANGED <<kind, listed, visible, stream, filter, list, browse>>

----------------------------------------------------------------------------
(* Operations *)

\* Which pages work at a click, which ask the server what an operation would do before they
\* ask the user, and which work on several items in turn.
Direct == {"containers", "compose", "images", "updates", "backups"}
Previewed == {"compose", "backups"}
Bulk == {"containers", "compose", "updates"}

\* A button. Of the updates page's, only the check, which answers the list, needs no
\* confirmation. What becomes of the error shown depends on the page and the operation.
WorkAsked ==
    /\ work.pc = "idle"
    /\ \E pc \in {"preview", "confirm", "calling"} :
          /\ pc = "preview" => kind \in Previewed
          /\ pc = "calling" => kind \in Direct
          /\ work' = [Rest EXCEPT !.pc = pc, !.left = IF kind = "updates" THEN 0 ELSE 1]
          /\ \/ /\ pc = "preview" \/ kind = "compose" \/ (pc = "calling" /\ kind # "containers")
                /\ banner' = "none"
             \/ /\ pc # "preview" /\ kind # "compose"
                /\ pc = "confirm" \/ kind \in {"containers", "backups"}
                /\ UNCHANGED banner
    /\ UNCHANGED <<kind, listed, visible, stream, filter, loads, list, browse, mishaps>>

\* The preview arrives; on the compose page a failing one is left out of the dialog.
Previews ==
    /\ work.pc = "preview"
    /\ \/ work' = [work EXCEPT !.pc = "confirm"] /\ UNCHANGED <<banner, mishaps>>
       \/ kind = "backups" /\ Mishap /\ work' = Rest /\ banner' = "work"
    /\ UNCHANGED <<kind, listed, visible, stream, filter, loads, list, browse>>

\* The dialog: no, or yes for so many items.
Cancels ==
    /\ work.pc = "confirm" /\ work' = Rest
    /\ UNCHANGED <<kind, listed, visible, stream, filter, loads, list, banner, browse, mishaps>>
Confirms(n) ==
    /\ work.pc = "confirm" /\ (n > 1 => kind \in Bulk)
    /\ work' = [work EXCEPT !.pc = "calling", !.how = "confirmed", !.left = n]
    /\ banner' \in {"none"} \cup (IF kind \in {"images", "backups"} THEN {banner} ELSE {})
    /\ UNCHANGED <<kind, listed, visible, stream, filter, loads, list, browse, mishaps>>

\* A call succeeds: the next item, or the list is loaded again. A restore loads nothing, a
\* check brings the list with it, and removing a volume may close its panel.
CallSucceeds ==
    /\ work.pc = "calling"
    /\ \/ /\ work.left > 1 /\ work' = [work EXCEPT !.left = @ - 1]
          /\ UNCHANGED <<loads, list, banner>>
       \/ /\ work.left = 1 /\ Free(loads) # {}
          /\ work' = [work EXCEPT !.pc = "reloading", !.left = 0]
          /\ loads' = Asked(loads, filter.applied, "work")
          /\ banner' = AtLoad(banner, work.how = "confirmed")
          /\ UNCHANGED list
       \/ /\ kind = "backups" /\ work.how = "confirmed" /\ work' = Rest
          /\ UNCHANGED <<loads, list, banner>>
       \/ /\ work.left = 0 /\ work' = Rest
          /\ list' = [list EXCEPT !.value = listed]
          /\ UNCHANGED <<loads, banner>>
    /\ browse' \in {browse} \cup
                   (IF kind = "volumes"
                    THEN {[browse EXCEPT !.name = NoVolume, !.entries = NoVolume]} ELSE {})
    /\ UNCHANGED <<kind, listed, visible, stream, filter, mishaps>>

\* A call fails, and no further item is tried. After an operation on several items that was
\* confirmed, the list is loaded; that forgets the error, and only the compose page sets it
\* again afterwards. An update that throws, instead of answering that it failed, loads nothing.
CallFails ==
    /\ work.pc = "calling" /\ Mishap
    /\ \/ /\ work.how = "confirmed" /\ kind \in Bulk /\ Free(loads) # {}
          /\ work' = [work EXCEPT !.pc = "reloading", !.left = 0, !.failed = TRUE]
          /\ loads' = Asked(loads, filter.applied, "work")
          /\ banner' = AtLoad(banner, FALSE)
       \/ /\ work.how = "direct" \/ kind \notin {"containers", "compose"}
          /\ work' = Rest /\ banner' = "work" /\ UNCHANGED loads
    /\ UNCHANGED <<kind, listed, visible, stream, filter, list, browse>>

----------------------------------------------------------------------------
(* Browsing a volume *)

\* The browse button of a row, and a variant that is not disabled while one is loading.
BrowseOpensAnytime(v) ==
    /\ kind = "volumes" /\ v \notin browse.asked
    /\ browse' = [name |-> v, entries |-> NoVolume, busy |-> TRUE,
                  asked |-> browse.asked \cup {v}]
    /\ banner' = "none"
    /\ UNCHANGED <<kind, listed, visible, stream, filter, loads, list, work, mishaps>>
BrowseOpens(v) ==
    /\ kind = "volumes" /\ ~browse.busy
    /\ browse' = [name |-> v, entries |-> NoVolume, busy |-> TRUE,
                  asked |-> browse.asked \cup {v}]
    /\ banner' = "none"
    /\ UNCHANGED <<kind, listed, visible, stream, filter, loads, list, work, mishaps>>

\* The panel is closed, perhaps while its entries are on their way.
BrowseCloses ==
    /\ browse.name # NoVolume
    /\ browse' = [browse EXCEPT !.name = NoVolume, !.entries = NoVolume]
    /\ UNCHANGED <<kind, listed, visible, stream, filter, loads, list, banner, work, mishaps>>

\* The answer is kept whatever the panel names by now; a failure closes the panel.
BrowseArrives(v) ==
    /\ v \in browse.asked
    /\ browse' = [browse EXCEPT !.entries = v, !.busy = FALSE, !.asked = @ \ {v}]
    /\ UNCHANGED <<kind, listed, visible, stream, filter, loads, list, banner, work, mishaps>>
BrowseFails(v) ==
    /\ v \in browse.asked /\ Mishap
    /\ browse' = [browse EXCEPT !.name = NoVolume, !.busy = FALSE, !.asked = @ \ {v}]
    /\ banner' = "load"
    /\ UNCHANGED <<kind, listed, visible, stream, filter, loads, list, work>>

----------------------------------------------------------------------------

ListPagesNext ==
    \/ HostChanges \/ EventFires \/ Fallback \/ TabHides \/ TabShows
    \/ EventStreamBreaks \/ EventStreamReturns \/ RefreshClicked
    \/ \E f \in Filters : FilterTyped(f)
    \/ \E b \in BOOLEAN : FilterApplied(b)
    \/ \E l \in LoadIds : ListIsRead(l) \/ ListArrives(l) \/ ListFails(l)
    \/ WorkAsked \/ Previews \/ Cancels \/ CallSucceeds \/ CallFails
    \/ \E n \in 1..MaxBulk : Confirms(n)
    \/ BrowseCloses
    \/ \E v \in BrowseNames : BrowseOpens(v) \/ BrowseArrives(v) \/ BrowseFails(v)

ListPagesSpec == ListPagesInit /\ [][ListPagesNext]_listVars

\* The browser's timers and streams run, and the server answers requests.
ListPagesFairness ==
    /\ WF_listVars(EventFires) /\ WF_listVars(Fallback)
    /\ \A l \in LoadIds : WF_listVars(ListIsRead(l)) /\ WF_listVars(ListArrives(l))

----------------------------------------------------------------------------
(* Properties *)

\* Every part of the page's state has its type (containers-page.tsx:48,
\* volumes-page.tsx:37).
ListPagesTypeOK ==
    /\ kind \in ListKinds /\ listed \in 0..MaxListed /\ visible \in BOOLEAN
    /\ stream \in [open : BOOLEAN, due : BOOLEAN]
    /\ filter \in [typed : Filters, applied : Filters]
    /\ loads \in [LoadIds -> [pc : {"none", "sent", "read"}, filter : Filters,
                              value : 0..MaxListed, for : {"page", "work"}]]
    /\ list \in [value : 0..MaxListed, filter : Filters]
    /\ banner \in {"none", "load", "work"}
    /\ work \in [pc : {"idle", "preview", "confirm", "calling", "reloading"},
                 how : {"direct", "confirmed"}, left : 0..MaxBulk, failed : BOOLEAN]
    /\ browse \in [name : BrowseNames \cup {NoVolume}, entries : BrowseNames \cup {NoVolume},
                   busy : BOOLEAN, asked : SUBSET BrowseNames]
    /\ mishaps \in 0..MaxMishaps

\* The entries under a volume's name are that volume's, however panels are opened and
\* closed and answers arrive (openBrowse, volumes-page.tsx:123).
EntriesBelong ==
    (browse.name # NoVolume /\ ~browse.busy) => browse.entries \in {browse.name, NoVolume}

\* What a page says is so. The entries belong to the volume they are shown under; and the
\* compose page says that an operation has failed when it has ended, although it loads
\* the list first, and goes on saying it until the user does something or a load fails:
\* neither an event nor the timer takes the error away (load and executeConfirm,
\* compose-list-page.tsx:59, 188).
PageIsTrue ==
    [][/\ EntriesBelong'
       /\ kind = "compose" =>
          /\ (work.failed /\ work'.pc = "idle") => banner' = "work"
          /\ (banner = "work" /\ banner' # "work") =>
                \/ RefreshClicked \/ WorkAsked \/ \E n \in 1..MaxBulk : Confirms(n)
                \/ \E l \in LoadIds : ListFails(l)]_listVars

\* When what there is to list and the filter change no more, a page that reloads by itself
\* and stays visible comes to show the list, although events are lost, requests fail and
\* answers cross (useDockerLiveReload, use-docker-live-reload.ts:11).
ListCatchesUp ==
    (<>[]visible /\ kind \in SelfReloading)
        => <>[](list = [value |-> listed, filter |-> filter.applied])
================================================================================
