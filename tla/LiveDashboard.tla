----------------------------- MODULE LiveDashboard -----------------------------
(***************************************************************************)
(* The live dashboard: the overview the API memoises and pushes over a       *)
(* server-sent event stream (modules/dashboard/index.ts), and the page's     *)
(* hook, which listens to the stream and falls back to polling               *)
(* (apps/web/src/hooks/use-dashboard.ts).                                   *)
(*                                                                         *)
(* One page and its stream; what the overview shows is a number, the version *)
(* of what there is to see.                                                 *)
(***************************************************************************)
EXTENDS Naturals, Sequences, TtlMemo

CONSTANTS
    OverviewTtl,  \* OVERVIEW_TTL_MS in ticks
    MaxNews,      \* bound on the changes to be seen
    MaxBreaks,    \* bound on the breaks of the stream
    MaxHides      \* bound on how often the page is hidden

ASSUME LiveDashboardAssumption ==
    OverviewTtl \in Nat \ {0} /\ MaxNews \in Nat /\ MaxBreaks \in Nat /\ MaxHides \in Nat

VARIABLES
    news,    \* the version of what there is to see
    heard,   \* has Docker's event about it been handled: yes, not yet, or was it lost
    memo,    \* overviewMemo
    build,   \* overviews being put together, for the stream and for a GET
    sse,     \* the server's side of the stream: is it open, subscribed, sending and dirty
    pushes,  \* what the server has written to the stream, not yet read
    page,    \* the hook's state
    get,     \* the page's GET: where it stands and its answer
    breaks,  \* breaks of the stream so far
    hides    \* times the page was hidden so far

dashVars == <<news, heard, memo, build, sse, pushes, page, get, breaks, hides>>

Builders == {"stream", "get"}
MaxPushes == 2
NoBuild == [pc |-> "none", value |-> 0]

ClosedStream == [open |-> FALSE, subscribed |-> FALSE, sending |-> {}, dirty |-> FALSE]

LiveDashboardInit ==
    /\ news = 0 /\ heard = "yes"
    /\ memo = EmptyMemo(0)
    /\ build = [b \in Builders |-> NoBuild]
    /\ sse = ClosedStream
    /\ pushes = <<>>
    /\ page = [es |-> "connecting", received |-> FALSE, polling |-> FALSE,
               visible |-> TRUE, fallback |-> TRUE, shown |-> 0]
    /\ get = [pc |-> "none", on |-> {}, answer |-> 0]
    /\ breaks = 0 /\ hides = 0

----------------------------------------------------------------------------
(* The server: the memo, the builds and send() *)

\* Somebody (b) asks for the overview: `hit` answers, otherwise one waits for the build
\* under way or for one's own.
Starts(b, m, builds) == IF MemoShared(m, OverviewTtl) THEN builds
                        ELSE [builds EXCEPT ![b] = [pc |-> "sent", value |-> 0]]
Awaits(b, m) == IF MemoShared(m, OverviewTtl) THEN m.by ELSE {b}
AfterAsking(b, m) == IF MemoShared(m, OverviewTtl) THEN m ELSE MemoSent(m, b)

\* send() when the memo is m, with the builds and pushes given: a push at once, or a
\* wait for the overview.
Send(m, builds, written) ==
    IF MemoFresh(m, OverviewTtl)
    THEN /\ pushes' = Append(written, m.value)
         /\ sse' = [open |-> TRUE, subscribed |-> TRUE, sending |-> {}, dirty |-> FALSE]
         /\ memo' = m /\ build' = builds
    ELSE /\ pushes' = written
         /\ sse' = [sse EXCEPT !.open = TRUE, !.sending = Awaits("stream", m), !.dirty = FALSE]
         /\ memo' = AfterAsking("stream", m) /\ build' = Starts("stream", m, builds)

Room == Len(pushes) < MaxPushes /\ build["stream"].pc = "none"

\* The interval, which starts when the first overview has been sent.
Interval ==
    /\ sse.subscribed /\ Room
    /\ IF sse.sending # {}
       THEN /\ sse' = [sse EXCEPT !.dirty = TRUE]
            /\ UNCHANGED <<memo, build, pushes>>
       ELSE Send(memo, build, pushes)
    /\ UNCHANGED <<news, heard, page, get, breaks, hides>>

\* Docker's event clears the memo, then has the stream send; during a send that is
\* only noted, and during the first one nobody has subscribed yet.
EventHandled ==
    /\ heard = "not yet" /\ heard' = "yes"
    /\ IF sse.subscribed /\ sse.sending = {}
       THEN Room /\ Send(MemoCleared(memo), build, pushes)
       ELSE /\ memo' = MemoCleared(memo)
            /\ sse' = [sse EXCEPT !.dirty = sse.subscribed]
            /\ UNCHANGED <<build, pushes>>
    /\ UNCHANGED <<news, page, get, breaks, hides>>

\* Docker's own stream was down: nobody hears of the change.
EventMissed ==
    /\ heard = "not yet" /\ heard' = "lost"
    /\ UNCHANGED <<news, memo, build, sse, pushes, page, get, breaks, hides>>

NewsArrives ==
    /\ heard # "not yet" /\ news < MaxNews
    /\ news' = news + 1 /\ heard' = "not yet"
    /\ UNCHANGED <<memo, build, sse, pushes, page, get, breaks, hides>>

BuildReads(b) ==
    /\ build[b].pc = "sent"
    /\ build' = [build EXCEPT ![b] = [pc |-> "read", value |-> news]]
    /\ UNCHANGED <<news, heard, memo, sse, pushes, page, get, breaks, hides>>

GetAnswered(b, v) ==
    get' = IF b \in get.on THEN [pc |-> "answered", on |-> {}, answer |-> v] ELSE get

PushSent == [sse EXCEPT !.sending = {}, !.subscribed = TRUE]

\* The overview is stored and pushed; a dirty stream sends again. A stream that is gone
\* gets nothing.
BuildDone(b) ==
    LET v == build[b].value
        m == MemoFilled(memo, v)
        done == [build EXCEPT ![b] = NoBuild]
    IN  /\ build[b].pc = "read"
        /\ IF b \notin sse.sending
           THEN memo' = m /\ build' = done /\ UNCHANGED <<sse, pushes>>
           ELSE IF sse.dirty
                THEN Send(m, done, Append(pushes, v))
                ELSE /\ memo' = m /\ build' = done /\ pushes' = Append(pushes, v)
                     /\ sse' = PushSent
        /\ GetAnswered(b, v)
        /\ UNCHANGED <<news, heard, page, breaks, hides>>

\* The overview cannot be put together: the stream gets an error event.
Error == MaxNews + 1

BuildFails(b) ==
    /\ build[b].pc = "read"
    /\ LET m == MemoFailed(memo)
           done == [build EXCEPT ![b] = NoBuild]
       IN  IF b \notin sse.sending
           THEN memo' = m /\ build' = done /\ UNCHANGED <<sse, pushes>>
           ELSE IF sse.dirty
                THEN Send(m, done, Append(pushes, Error))
                ELSE /\ memo' = m /\ build' = done /\ pushes' = Append(pushes, Error)
                     /\ sse' = PushSent
    /\ get' = IF b \in get.on THEN [get EXCEPT !.pc = "none", !.on = {}] ELSE get
    /\ UNCHANGED <<news, heard, page, breaks, hides>>

----------------------------------------------------------------------------
(* The page *)

\* refresh(): nothing while a GET is under way.
Refresh(m, builds) ==
    IF get.pc # "none" \/ builds["get"].pc # "none"
    THEN UNCHANGED get /\ memo' = m /\ build' = builds
    ELSE IF MemoFresh(m, OverviewTtl)
         THEN /\ get' = [pc |-> "answered", on |-> {}, answer |-> m.value]
              /\ memo' = m /\ build' = builds
         ELSE /\ get' = [get EXCEPT !.pc = "waits", !.on = Awaits("get", m)]
              /\ memo' = AfterAsking("get", m) /\ build' = Starts("get", m, builds)

GetArrives ==
    /\ get.pc = "answered"
    /\ page' = [page EXCEPT !.shown = get.answer]
    /\ get' = [pc |-> "none", on |-> {}, answer |-> 0]
    /\ UNCHANGED <<news, heard, memo, build, sse, pushes, breaks, hides>>

\* EventSource connects, or connects again after a break: the server sends at once.
Connects ==
    /\ page.es = "connecting" /\ ~sse.open /\ Room
    /\ page' = [page EXCEPT !.es = "open"]
    /\ Send(memo, build, <<>>)
    /\ UNCHANGED <<news, heard, get, breaks, hides>>

\* The variant that gives the stream up and does not poll.
DashGivesUpForGood(after) == page' = [after EXCEPT !.es = "gone", !.received = FALSE]

\* The hook gives the stream up and polls, at once and then by its interval.
DashGivesUp(after) == page' = [after EXCEPT !.es = "gone", !.polling = TRUE, !.received = FALSE]
ServerCloses == sse' = ClosedStream

\* An overview ends the polling. An error event runs onerror as well: it is ignored by
\* a page that has had an overview.
PushArrives ==
    /\ page.es = "open" /\ pushes # <<>>
    /\ IF Head(pushes) # Error
       THEN /\ page' = [page EXCEPT !.shown = Head(pushes), !.received = TRUE,
                                    !.polling = FALSE]
            /\ pushes' = Tail(pushes)
            /\ UNCHANGED <<memo, build, sse, get>>
       ELSE IF page.received
            THEN pushes' = Tail(pushes) /\ UNCHANGED <<page, memo, build, sse, get>>
            ELSE DashGivesUp(page) /\ ServerCloses /\ pushes' = <<>> /\ Refresh(memo, build)
    /\ UNCHANGED <<news, heard, breaks, hides>>

\* The connection breaks, or cannot be made. The browser tries again by itself, unless
\* the server refused it; the hook waits for that only if it has had an overview.
StreamBreaks ==
    /\ page.es \in {"open", "connecting"} /\ breaks < MaxBreaks
    /\ breaks' = breaks + 1
    /\ ServerCloses /\ pushes' = <<>>
    /\ \/ page.received /\ page' = [page EXCEPT !.es = "connecting"]
          /\ UNCHANGED <<memo, build, get>>
       \/ DashGivesUp(page) /\ Refresh(memo, build)
    /\ UNCHANGED <<news, heard, hides>>

\* Three seconds after the page has opened nothing had come.
FallbackFires ==
    /\ page.fallback
    /\ IF page.received
       THEN /\ page' = [page EXCEPT !.fallback = FALSE]
            /\ UNCHANGED <<memo, build, sse, pushes, get>>
       ELSE /\ DashGivesUp([page EXCEPT !.fallback = FALSE])
            /\ ServerCloses /\ pushes' = <<>> /\ Refresh(memo, build)
    /\ UNCHANGED <<news, heard, breaks, hides>>

PollFires ==
    /\ page.polling /\ page.visible
    /\ Refresh(memo, build)
    /\ UNCHANGED <<news, heard, sse, pushes, page, breaks, hides>>

Hides ==
    /\ page.visible /\ hides < MaxHides
    /\ hides' = hides + 1
    /\ page' = [page EXCEPT !.visible = FALSE]
    /\ UNCHANGED <<news, heard, memo, build, sse, pushes, get, breaks>>

Shows ==
    /\ ~page.visible
    /\ page' = [page EXCEPT !.visible = TRUE]
    /\ Refresh(memo, build)
    /\ UNCHANGED <<news, heard, sse, pushes, breaks, hides>>

OverviewAges ==
    /\ memo' = MemoOlder(memo, OverviewTtl)
    /\ UNCHANGED <<news, heard, build, sse, pushes, page, get, breaks, hides>>

LiveDashboardNext ==
    \/ NewsArrives \/ EventHandled \/ EventMissed \/ Interval \/ OverviewAges
    \/ \E b \in Builders : BuildReads(b) \/ BuildDone(b) \/ BuildFails(b)
    \/ GetArrives \/ Connects \/ PushArrives \/ StreamBreaks \/ FallbackFires \/ PollFires
    \/ Hides \/ Shows

LiveDashboardSpec == LiveDashboardInit /\ [][LiveDashboardNext]_dashVars

\* Timers fire, requests are answered, the browser connects again and reads what comes;
\* an overview that is tried again and again succeeds some time. Nothing is assumed of
\* Docker's events.
LiveDashboardFairness ==
    /\ WF_dashVars(Interval) /\ WF_dashVars(OverviewAges)
    /\ \A b \in Builders : WF_dashVars(BuildReads(b)) /\ SF_dashVars(BuildDone(b))
    /\ WF_dashVars(GetArrives) /\ WF_dashVars(Connects) /\ WF_dashVars(PushArrives)
    /\ WF_dashVars(FallbackFires) /\ WF_dashVars(PollFires)

----------------------------------------------------------------------------
\* The memo, the stream and the hook have their types (use-dashboard.ts:18).
LiveDashboardTypeOK ==
    /\ news \in 0 .. MaxNews /\ heard \in {"yes", "not yet", "lost"}
    /\ memo \in [held : BOOLEAN, value : 0 .. MaxNews, age : 0 .. OverviewTtl,
                 by : SUBSET Builders]
    /\ build \in [Builders -> [pc : {"none", "sent", "read"}, value : 0 .. MaxNews]]
    /\ sse \in [open : BOOLEAN, subscribed : BOOLEAN, sending : SUBSET Builders,
               dirty : BOOLEAN]
    /\ pushes \in Seq(0 .. Error)
    /\ page \in [es : {"connecting", "open", "gone"}, received : BOOLEAN, polling : BOOLEAN,
                 visible : BOOLEAN, fallback : BOOLEAN, shown : 0 .. MaxNews]
    /\ get \in [pc : {"none", "waits", "answered"}, on : SUBSET Builders,
                answer : 0 .. MaxNews]
    /\ breaks \in 0 .. MaxBreaks /\ hides \in 0 .. MaxHides

\* A page that stays visible ends up showing what there is, whatever events are missed,
\* streams break, answers overtake pushes and stale overviews fill the memo.
DashboardCatchesUp == <>[]page.visible => <>[](page.shown = news)
================================================================================
