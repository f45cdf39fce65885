------------------------------ MODULE BrowserProofs ------------------------------
(***************************************************************************)
(* What a page keeps of the server's: the home layout, which several pages   *)
(* edit, and the dashboard, which follows a stream; for any number of pages, *)
(* edits and changes.                                                       *)
(***************************************************************************)
EXTENDS MCBrowser, SequenceTheorems, TLAPS

--------------------------------------------------------------------------------
\* The home layout

PageFields == {"shown", "local", "dirty", "timer", "hydrated", "fetch", "fetched", "effects",
               "edited", "savedSince", "crossed", "revision", "latest", "rerun", "queue",
               "snapshot", "expected", "answer"}
PageShape(p) == p = [f \in PageFields |-> p[f]] /\ p.crossed \in BOOLEAN

\* A layout is known with a revision: it is the server's or an older one, and if the server's,
\* then the layout has everything that the server's has.
Known(r, layout, s) ==
    r \in Nat /\ r <= s.revision /\ (r = s.revision => s.layout \subseteq layout)

\* What a page is loading.
LoadStands(p, s) ==
    /\ p.fetch # "none" /\ ~p.edited => ~p.dirty
    /\ p.fetch = "answered" => /\ Known(p.fetched.revision, p.fetched.layout, s)
                               /\ ~p.fetched.stored => p.fetched.revision = 0

\* What a page saves, and in the end shows, goes with the revision it knows.
SaveStands(p, s) ==
    /\ p.queue = "idle" => Known(p.revision, p.shown, s)
    /\ p.queue # "idle" => /\ p.expected = p.revision /\ Known(p.revision, p.snapshot, s)
                           /\ p.snapshot \subseteq p.latest /\ p.latest \subseteq p.shown
    /\ p.queue = "ok" => Known(p.answer.revision, p.snapshot, s)
    /\ p.queue = "reloaded" => Known(p.answer.revision, p.answer.layout, s)

PageStands(p, s) == PageShape(p) /\ (~p.crossed => LoadStands(p, s) /\ SaveStands(p, s))

ServerStands(s) ==
    s.revision \in Nat /\ (~s.stored => s.revision = 0) /\ (s.revision = 0 => s.layout = {})

HomeIInv ==
    /\ ServerStands(server)
    /\ desk = [d \in Desktops |-> desk[d]]
    /\ \A d \in Desktops : PageStands(desk[d], server)

LEMMA HomeStarts == HomeInit => HomeIInv
<1> SUFFICES ASSUME HomeInit PROVE HomeIInv
  OBVIOUS
<1>1. ServerStands(server)
  BY DEF HomeInit, ServerStands, Empty
<1>2. PICK cached \in [Desktops -> {{}, Cached}] :
         desk = [d \in Desktops |->
           [shown |-> cached[d], local |-> cached[d], dirty |-> FALSE, timer |-> FALSE,
            hydrated |-> FALSE, fetch |-> "asked", fetched |-> Empty, effects |-> 0,
            edited |-> FALSE, savedSince |-> FALSE, crossed |-> FALSE,
            revision |-> 0, latest |-> {}, rerun |-> FALSE, queue |-> "idle",
            snapshot |-> {}, expected |-> 0, answer |-> Empty]]
  BY DEF HomeInit
<1>3. ASSUME NEW d \in Desktops PROVE PageStands(desk[d], server)
  <2>1. /\ PageShape(desk[d]) /\ ~desk[d].dirty /\ desk[d].fetch = "asked"
        /\ desk[d].queue = "idle" /\ desk[d].revision = 0
    BY <1>2 DEF PageShape, PageFields
  <2>2. Known(0, desk[d].shown, server)
    BY <1>1 DEF ServerStands, Known
  <2> QED
    BY <2>1, <2>2 DEF PageStands, LoadStands, SaveStands
<1> QED
  BY <1>1, <1>2, <1>3 DEF HomeIInv

--------------------------------------------------------------------------------
\* What a page becomes

\* A layout that goes with the known revision may be sent.
LEMMA SendingStands ==
    ASSUME NEW p, NEW s, PageShape(p),
           ~p.crossed => /\ LoadStands(p, s) /\ Known(p.revision, p.latest, s)
                         /\ p.latest \subseteq p.shown
    PROVE  PageStands(Sent(p), s)
<1> DEFINE q == Sent(p)
<1>1. /\ PageShape(q) /\ q.crossed = p.crossed /\ q.fetch = p.fetch /\ q.fetched = p.fetched
      /\ q.edited = p.edited /\ q.dirty = p.dirty /\ q.queue = "sent" /\ q.expected = p.revision
      /\ q.revision = p.revision /\ q.snapshot = p.latest /\ q.latest = p.latest
      /\ q.shown = p.shown
  BY DEF Sent, PageShape, PageFields
<1> HIDE DEF q
<1>2. PageStands(q, s)
  BY <1>1 DEF PageStands, LoadStands, SaveStands
<1> QED
  BY <1>2 DEF q

\* What a page shows may be submitted.
LEMMA SubmittingStands ==
    ASSUME NEW p, NEW s, PageStands(p, s) PROVE PageStands(Submitted(p, p.shown), s)
<1>1. CASE p.queue = "idle"
  <2> DEFINE q == [p EXCEPT !.latest = p.shown]
  <2>1. /\ PageShape(q) /\ q.crossed = p.crossed /\ q.fetch = p.fetch /\ q.fetched = p.fetched
        /\ q.edited = p.edited /\ q.dirty = p.dirty /\ q.revision = p.revision
        /\ q.latest = p.shown /\ q.shown = p.shown
    BY DEF PageStands, PageShape, PageFields
  <2>2. Submitted(p, p.shown) = Sent(q)
    BY <1>1 DEF Submitted
  <2> HIDE DEF q
  <2>3. ~q.crossed => /\ LoadStands(q, s) /\ Known(q.revision, q.latest, s)
                      /\ q.latest \subseteq q.shown
    BY <1>1, <2>1 DEF PageStands, LoadStands, SaveStands
  <2>4. PageStands(Sent(q), s)
    BY <2>1, <2>3, SendingStands
  <2> QED
    BY <2>2, <2>4
<1>2. CASE p.queue # "idle"
  <2> DEFINE q == [p EXCEPT !.latest = p.shown, !.rerun = TRUE]
  <2>1. /\ PageShape(q) /\ q.crossed = p.crossed /\ q.fetch = p.fetch /\ q.fetched = p.fetched
        /\ q.edited = p.edited /\ q.dirty = p.dirty /\ q.revision = p.revision
        /\ q.latest = p.shown /\ q.shown = p.shown /\ q.queue = p.queue
        /\ q.snapshot = p.snapshot /\ q.expected = p.expected /\ q.answer = p.answer
    BY DEF PageStands, PageShape, PageFields
  <2>2. Submitted(p, p.shown) = q
    BY <1>2 DEF Submitted
  <2> HIDE DEF q
  <2>3. PageStands(q, s)
    BY <1>2, <2>1 DEF PageStands, LoadStands, SaveStands
  <2> QED
    BY <2>2, <2>3
<1> QED
  BY <1>1, <1>2

\* A save is over, and what waits goes with the known revision.
LEMMA EndingStands ==
    ASSUME NEW p, NEW s, PageShape(p),
           ~p.crossed => /\ LoadStands(p, s) /\ p.latest \subseteq p.shown
                         /\ Known(p.revision, p.latest, s)
    PROVE  PageStands(Ended(p), s)
<1>1. CASE p.rerun
  BY <1>1, SendingStands DEF Ended
<1>2. CASE ~p.rerun
  <2> DEFINE q == [p EXCEPT !.queue = "idle", !.answer = Empty]
  <2>1. /\ PageShape(q) /\ q.crossed = p.crossed /\ q.fetch = p.fetch /\ q.fetched = p.fetched
        /\ q.edited = p.edited /\ q.dirty = p.dirty /\ q.revision = p.revision
        /\ q.shown = p.shown /\ q.queue = "idle"
    BY DEF PageShape, PageFields
  <2>2. Ended(p) = q
    BY <1>2 DEF Ended
  <2> HIDE DEF q
  <2>3. PageStands(q, s)
    BY <2>1 DEF PageStands, LoadStands, SaveStands, Known
  <2> QED
    BY <2>2, <2>3
<1> QED
  BY <1>1, <1>2

\* Known layouts stay known when the server writes the next one.
LEMMA PagesOutlive ==
    ASSUME NEW p, NEW s, NEW t, ServerStands(s), t.revision = s.revision + 1, PageStands(p, s)
    PROVE  PageStands(p, t)
<1>1. ASSUME NEW r, NEW layout, Known(r, layout, s) PROVE Known(r, layout, t)
  BY <1>1 DEF Known, ServerStands
<1> QED
  BY <1>1 DEF PageStands, LoadStands, SaveStands

--------------------------------------------------------------------------------
\* The steps

\* A step after which the server is as it was, and the page as it may be.
LEMMA HomeKeeps ==
    ASSUME HomeIInv, NEW d \in Desktops, NEW p, Become(d, p), PageStands(p, server),
           UNCHANGED server
    PROVE  HomeIInv'
<1>1. desk' = [desk EXCEPT ![d] = p]
  BY DEF Become
<1>2. /\ desk' = [e \in Desktops |-> desk'[e]] /\ desk'[d] = p
      /\ \A e \in Desktops \ {d} : desk'[e] = desk[e]
  BY <1>1 DEF HomeIInv
<1> QED
  BY <1>2 DEF HomeIInv

LEMMA PutStands ==
    ASSUME HomeIInv, NEW d \in Desktops, PutLayout(d)
    PROVE  HomeIInv' /\ (~desk[d].crossed => server.layout \subseteq server'.layout)
<1> DEFINE p == desk[d]
<1>1. PageStands(p, server) /\ PageShape(p) /\ p.queue = "sent" /\ ServerStands(server)
  BY DEF HomeIInv, PageStands, PutLayout
<1>2. ASSUME NEW queue \in {"conflict", "failed"}, Become(d, [p EXCEPT !.queue = queue]),
             UNCHANGED server
      PROVE  HomeIInv' /\ (~desk[d].crossed => server.layout \subseteq server'.layout)
  <2>1. PICK q : q = [p EXCEPT !.queue = queue]
    OBVIOUS
  <2>2. /\ PageShape(q) /\ q.crossed = p.crossed /\ q.fetch = p.fetch /\ q.fetched = p.fetched
        /\ q.edited = p.edited /\ q.dirty = p.dirty /\ q.revision = p.revision
        /\ q.latest = p.latest /\ q.shown = p.shown /\ q.queue = queue
        /\ q.snapshot = p.snapshot /\ q.expected = p.expected
    BY <1>1, <2>1 DEF PageShape, PageFields
  <2>3. PageStands(q, server)
    BY <1>1, <2>2 DEF PageStands, LoadStands, SaveStands
  <2> QED
    BY <1>2, <2>1, <2>3, HomeKeeps
<1>3. ASSUME NEW queue \in {"ok", "failed"}, WriteHomeLayout(p.snapshot, p.expected),
             Become(d, [p EXCEPT !.queue = queue,
                 !.answer = [stored |-> TRUE, revision |-> server.revision + 1, layout |-> {}]])
      PROVE  HomeIInv' /\ (~desk[d].crossed => server.layout \subseteq server'.layout)
  <2>1. PICK q : q = [p EXCEPT !.queue = queue,
                 !.answer = [stored |-> TRUE, revision |-> server.revision + 1, layout |-> {}]]
    OBVIOUS
  <2>2. /\ PageShape(q) /\ q.crossed = p.crossed /\ q.fetch = p.fetch /\ q.fetched = p.fetched
        /\ q.edited = p.edited /\ q.dirty = p.dirty /\ q.revision = p.revision
        /\ q.latest = p.latest /\ q.shown = p.shown /\ q.queue = queue
        /\ q.snapshot = p.snapshot /\ q.expected = p.expected
        /\ q.answer.revision = server.revision + 1
    BY <1>1, <2>1 DEF PageShape, PageFields
  <2>3. PICK t : /\ t = [stored |-> TRUE, revision |-> server.revision + 1,
                         layout |-> p.snapshot]
                 /\ server' = t /\ p.expected = server.revision
    BY <1>3 DEF WriteHomeLayout
  <2>4. t.stored /\ t.revision = server.revision + 1 /\ t.layout = p.snapshot
    BY <2>3
  <2>5. ServerStands(t)
    BY <1>1, <2>4 DEF ServerStands
  <2>6. \A e \in Desktops : PageStands(desk[e], t)
    BY <1>1, <2>4, PagesOutlive DEF HomeIInv
  <2>7. PageStands(q, t)
    BY <1>1, <2>2, <2>4, <2>5, <2>6 DEF PageStands, LoadStands, SaveStands, Known, ServerStands
  <2>8. /\ desk' = [e \in Desktops |-> desk'[e]] /\ desk'[d] = q
        /\ \A e \in Desktops \ {d} : desk'[e] = desk[e]
    BY <1>3, <2>1 DEF HomeIInv, Become
  <2>9. HomeIInv'
    BY <2>3, <2>5, <2>6, <2>7, <2>8 DEF HomeIInv
  <2>10. ~p.crossed => server.layout \subseteq p.snapshot
    BY <1>1, <2>3 DEF PageStands, SaveStands, Known
  <2> QED
    BY <2>3, <2>4, <2>9, <2>10
<1> QED
  BY <1>2, <1>3 DEF PutLayout

\* The queue receives its answer.
LEMMA QueueStands ==
    ASSUME HomeIInv, NEW d \in Desktops,
           SaveOk(d) \/ SaveFailed(d) \/ Conflict(d) \/ Reloaded(d)
    PROVE  HomeIInv'
<1> DEFINE p == desk[d]
<1>1. PageStands(p, server) /\ PageShape(p) /\ ServerStands(server)
  BY DEF HomeIInv, PageStands
<1>2. UNCHANGED server
  BY DEF SaveOk, SaveFailed, Conflict, Reloaded
<1>3. CASE SaveOk(d)
  <2>1. PICK q : q = [p EXCEPT !.revision = p.answer.revision]
    OBVIOUS
  <2>2. /\ PageShape(q) /\ q.crossed = p.crossed /\ q.fetch = p.fetch /\ q.fetched = p.fetched
        /\ q.edited = p.edited /\ q.dirty = p.dirty /\ q.revision = p.answer.revision
        /\ q.latest = p.latest /\ q.shown = p.shown /\ q.rerun = p.rerun /\ q.timer = p.timer
    BY <1>1, <2>1 DEF PageShape, PageFields
  <2>3. ~q.crossed => /\ LoadStands(q, server) /\ q.latest \subseteq q.shown
                      /\ Known(q.revision, q.latest, server)
    BY <1>1, <1>3, <2>2 DEF SaveOk, PageStands, LoadStands, SaveStands, Known
  <2>4. CASE q.rerun
    <3>1. Become(d, Sent(q)) /\ PageStands(Sent(q), server)
      BY <1>3, <2>1, <2>2, <2>3, <2>4, SendingStands DEF SaveOk
    <3> QED
      BY <1>2, <3>1, HomeKeeps
  <2>5. CASE ~q.rerun
    <3>1. PICK n : n = [q EXCEPT !.queue = "idle", !.answer = Empty, !.savedSince = TRUE,
                                 !.dirty = q.timer /\ @]
      OBVIOUS
    <3>2. /\ PageShape(n) /\ n.crossed = q.crossed /\ n.fetch = q.fetch /\ n.fetched = q.fetched
          /\ n.edited = q.edited /\ (n.dirty => q.dirty) /\ n.revision = q.revision
          /\ n.shown = q.shown /\ n.queue = "idle"
      BY <2>2, <3>1 DEF PageShape, PageFields
    <3>3. PageStands(n, server)
      BY <2>3, <3>2 DEF PageStands, LoadStands, SaveStands, Known
    <3>4. Become(d, n)
      BY <1>3, <2>1, <2>5, <3>1 DEF SaveOk
    <3> QED
      BY <1>2, <3>3, <3>4, HomeKeeps
  <2> QED
    BY <2>4, <2>5
<1>4. ASSUME p.queue \in {"failed", "conflict"}, Become(d, Ended(p)) PROVE HomeIInv'
  <2>1. ~p.crossed => /\ LoadStands(p, server) /\ p.latest \subseteq p.shown
                      /\ Known(p.revision, p.latest, server)
    BY <1>1, <1>4 DEF PageStands, SaveStands, Known
  <2>2. PageStands(Ended(p), server)
    BY <1>1, <2>1, EndingStands
  <2> QED
    BY <1>2, <1>4, <2>2, HomeKeeps
<1>5. ASSUME p.queue = "conflict",
             Become(d, [p EXCEPT !.queue = "reloaded", !.answer = server])
      PROVE  HomeIInv'
  <2>1. PICK q : q = [p EXCEPT !.queue = "reloaded", !.answer = server]
    OBVIOUS
  <2>2. /\ PageShape(q) /\ q.crossed = p.crossed /\ q.fetch = p.fetch /\ q.fetched = p.fetched
        /\ q.edited = p.edited /\ q.dirty = p.dirty /\ q.revision = p.revision
        /\ q.latest = p.latest /\ q.shown = p.shown /\ q.queue = "reloaded"
        /\ q.snapshot = p.snapshot /\ q.expected = p.expected /\ q.answer = server
    BY <1>1, <2>1 DEF PageShape, PageFields
  <2>3. Known(server.revision, server.layout, server)
    BY <1>1 DEF Known, ServerStands
  <2>4. PageStands(q, server)
    BY <1>1, <1>5, <2>2, <2>3 DEF PageStands, LoadStands, SaveStands
  <2> QED
    BY <1>2, <1>5, <2>1, <2>4, HomeKeeps
<1>6. CASE Reloaded(d)
  <2>1. PICK q : q = [p EXCEPT !.revision = p.answer.revision, !.latest = p.answer.layout,
                               !.shown = p.answer.layout, !.dirty = FALSE]
    OBVIOUS
  <2>2. /\ PageShape(q) /\ q.crossed = p.crossed /\ q.fetch = p.fetch /\ q.fetched = p.fetched
        /\ ~q.dirty /\ q.revision = p.answer.revision
        /\ q.latest = p.answer.layout /\ q.shown = p.answer.layout
    BY <1>1, <2>1 DEF PageShape, PageFields
  <2>3. ~q.crossed => /\ LoadStands(q, server) /\ q.latest \subseteq q.shown
                      /\ Known(q.revision, q.latest, server)
    BY <1>1, <1>6, <2>2 DEF Reloaded, PageStands, LoadStands, SaveStands
  <2>4. PageStands(Ended(q), server)
    BY <2>2, <2>3, EndingStands
  <2>5. Become(d, Ended(q))
    BY <1>6, <2>1 DEF Reloaded
  <2> QED
    BY <1>2, <2>4, <2>5, HomeKeeps
<1> QED
  BY <1>3, <1>4, <1>5, <1>6 DEF SaveFailed, Conflict

\* The desktop edits, submits, and asks the server for the layout.
LEMMA DesktopStands ==
    ASSUME HomeIInv, ~DirtyEffects, NEW d \in Desktops,
           PublishQueue(d) \/ SaveTimerFires(d) \/ Effect(d) \/ Get(d)
    PROVE  HomeIInv'
<1> DEFINE p == desk[d]
<1>1. PageStands(p, server) /\ PageShape(p) /\ ServerStands(server)
  BY DEF HomeIInv, PageStands
<1>2. UNCHANGED server
  BY DEF PublishQueue, SaveTimerFires, Effect, Get
<1>3. CASE PublishQueue(d)
  <2>1. PICK e \in unmade : Become(d, [p EXCEPT !.shown = @ \cup {e}, !.dirty = TRUE,
                                        !.edited = TRUE, !.timer = p.hydrated])
    BY <1>3 DEF PublishQueue
  <2>2. PICK q : q = [p EXCEPT !.shown = @ \cup {e}, !.dirty = TRUE, !.edited = TRUE,
                               !.timer = p.hydrated]
    OBVIOUS
  <2>3. /\ PageShape(q) /\ q.crossed = p.crossed /\ q.fetch = p.fetch /\ q.fetched = p.fetched
        /\ q.edited /\ q.revision = p.revision /\ q.answer = p.answer
        /\ q.latest = p.latest /\ q.shown = p.shown \cup {e} /\ q.queue = p.queue
        /\ q.snapshot = p.snapshot /\ q.expected = p.expected
    BY <1>1, <2>2 DEF PageShape, PageFields
  <2>4. PageStands(q, server)
    BY <1>1, <2>3 DEF PageStands, LoadStands, SaveStands, Known
  <2> QED
    BY <1>2, <2>1, <2>2, <2>4, HomeKeeps
<1>4. CASE SaveTimerFires(d)
  <2>1. PICK q : q = [p EXCEPT !.timer = FALSE]
    OBVIOUS
  <2>2. /\ PageShape(q) /\ q.crossed = p.crossed /\ q.fetch = p.fetch /\ q.fetched = p.fetched
        /\ q.edited = p.edited /\ q.dirty = p.dirty /\ q.revision = p.revision
        /\ q.latest = p.latest /\ q.shown = p.shown /\ q.queue = p.queue
        /\ q.snapshot = p.snapshot /\ q.expected = p.expected /\ q.answer = p.answer
    BY <1>1, <2>1 DEF PageShape, PageFields
  <2>3. PageStands(q, server)
    BY <1>1, <2>2 DEF PageStands, LoadStands, SaveStands
  <2>4. Become(d, Submitted(q, q.shown))
    BY <1>4, <2>1, <2>2 DEF SaveTimerFires
  <2>5. PageStands(Submitted(q, q.shown), server)
    BY <2>3, SubmittingStands
  <2> QED
    BY <1>2, <2>4, <2>5, HomeKeeps
<1>5. CASE Effect(d)
  <2>1. ~p.dirty
    BY <1>5 DEF Effect
  <2>2. PICK q : q = [p EXCEPT !.effects = @ + 1, !.fetch = "asked", !.fetched = Empty,
                               !.local = p.shown, !.edited = FALSE, !.savedSince = FALSE]
    OBVIOUS
  <2>3. /\ PageShape(q) /\ q.crossed = p.crossed /\ q.fetch = "asked"
        /\ q.dirty = p.dirty /\ q.revision = p.revision /\ q.answer = p.answer
        /\ q.latest = p.latest /\ q.shown = p.shown /\ q.queue = p.queue
        /\ q.snapshot = p.snapshot /\ q.expected = p.expected
    BY <1>1, <2>2 DEF PageShape, PageFields
  <2>4. PageStands(q, server)
    BY <1>1, <2>1, <2>3 DEF PageStands, LoadStands, SaveStands
  <2>5. Become(d, q)
    BY <1>5, <2>2 DEF Effect
  <2> QED
    BY <1>2, <2>4, <2>5, HomeKeeps
<1>6. CASE Get(d)
  <2>1. PICK q : q = [p EXCEPT !.fetch = "answered", !.fetched = server]
    OBVIOUS
  <2>2. /\ PageShape(q) /\ q.crossed = p.crossed /\ q.fetch = "answered" /\ q.fetched = server
        /\ q.edited = p.edited /\ q.dirty = p.dirty /\ q.revision = p.revision
        /\ q.latest = p.latest /\ q.shown = p.shown /\ q.queue = p.queue
        /\ q.snapshot = p.snapshot /\ q.expected = p.expected /\ q.answer = p.answer
    BY <1>1, <2>1 DEF PageShape, PageFields
  <2>3. Known(server.revision, server.layout, server)
    BY <1>1 DEF Known, ServerStands
  <2>4. PageStands(q, server)
    BY <1>1, <1>6, <2>2, <2>3 DEF Get, PageStands, LoadStands, SaveStands, ServerStands
  <2>5. Become(d, q)
    BY <1>6, <2>1 DEF Get
  <2> QED
    BY <1>2, <2>4, <2>5, HomeKeeps
<1> QED
  BY <1>3, <1>4, <1>5, <1>6

\* A loading request is over.
LEMMA LoadingStands ==
    ASSUME NEW p, NEW s, PageStands(p, s) PROVE PageStands(Loaded(p), s)
<1>1. PICK q : q = Loaded(p)
  OBVIOUS
<1>2. /\ PageShape(q) /\ q.crossed = p.crossed /\ q.fetch = "none"
      /\ q.revision = p.revision /\ q.answer = p.answer
      /\ q.latest = p.latest /\ q.shown = p.shown /\ q.queue = p.queue
      /\ q.snapshot = p.snapshot /\ q.expected = p.expected
  BY <1>1 DEF Loaded, PageStands, PageShape, PageFields
<1>3. PageStands(q, s)
  BY <1>2 DEF PageStands, LoadStands, SaveStands
<1> QED
  BY <1>1, <1>3

\* What the answer makes of the page.
LEMMA HydratingStands ==
    ASSUME NEW p, NEW s, ServerStands(s), PageStands(p, s), p.fetch = "answered"
    PROVE  PageStands(Hydrated(p), s)
<1>1. CASE p.savedSince \/ p.edited
  BY <1>1, SubmittingStands DEF Hydrated
<1>2. CASE ~p.savedSince /\ ~p.edited
  <2>1. PICK q : q = [p EXCEPT !.revision = p.fetched.revision, !.shown = Picked(p),
                               !.crossed = @ \/ p.queue # "idle"]
    OBVIOUS
  <2>2. /\ PageShape(q) /\ q.crossed = (p.crossed \/ p.queue # "idle")
        /\ q.fetch = p.fetch /\ q.fetched = p.fetched
        /\ q.edited = p.edited /\ q.dirty = p.dirty /\ q.revision = p.fetched.revision
        /\ q.shown = Picked(p) /\ q.queue = p.queue
    BY <2>1 DEF PageStands, PageShape, PageFields
  <2>3. ~q.crossed => ~p.crossed /\ q.queue = "idle" /\ ~p.dirty
    BY <1>2, <2>2 DEF PageStands, LoadStands, PageShape
  <2>4. ~q.crossed => Known(q.revision, q.shown, s)
    <3>1. CASE p.fetched.stored
      BY <2>2, <2>3, <3>1 DEF PageStands, LoadStands, Picked
    <3>2. CASE ~p.fetched.stored
      BY <2>2, <2>3, <3>2 DEF PageStands, LoadStands, Known, ServerStands
    <3> QED
      BY <3>1, <3>2
  <2>5. PageStands(q, s)
    BY <2>2, <2>3, <2>4 DEF PageStands, LoadStands, SaveStands
  <2>6. Hydrated(p) = IF Uploads(p) THEN Submitted(q, q.shown) ELSE q
    BY <1>2, <2>1 DEF Hydrated
  <2> QED
    BY <2>5, <2>6, SubmittingStands
<1> QED
  BY <1>1, <1>2

LEMMA HydrateStands ==
    ASSUME HomeIInv, NEW d \in Desktops, Hydrate(d)
    PROVE  HomeIInv'
<1>1. PageStands(desk[d], server) /\ ServerStands(server)
  BY DEF HomeIInv
<1>2. UNCHANGED server
  BY DEF Hydrate
<1>3. CASE desk[d].fetch = "answered" /\ Become(d, Loaded(Hydrated(desk[d])))
  <2>1. PageStands(Loaded(Hydrated(desk[d])), server)
    BY <1>1, <1>3, HydratingStands, LoadingStands
  <2> QED
    BY <1>2, <1>3, <2>1, HomeKeeps
<1>4. CASE Become(d, Loaded(desk[d]))
  <2>1. PageStands(Loaded(desk[d]), server)
    BY <1>1, LoadingStands
  <2> QED
    BY <1>2, <1>4, <2>1, HomeKeeps
<1> QED
  BY <1>3, <1>4 DEF Hydrate

LEMMA HomeHolds ==
    ASSUME ~DirtyEffects, HomeIInv, [HomeNext]_homeVars
    PROVE  HomeIInv' /\ [(\A d \in Desktops : ~desk[d].crossed) =>
                            server.layout \subseteq server'.layout]_homeVars
<1>1. ASSUME NEW d \in Desktops, PutLayout(d)
      PROVE  HomeIInv' /\ (~desk[d].crossed => server.layout \subseteq server'.layout)
  BY SMTT(30), <1>1, PutStands
<1>2. ASSUME NEW d \in Desktops,
             \/ SaveOk(d) \/ SaveFailed(d) \/ Conflict(d) \/ Reloaded(d) \/ SaveTimerFires(d)
             \/ Get(d) \/ Hydrate(d) \/ PublishQueue(d) \/ Effect(d)
      PROVE  HomeIInv' /\ UNCHANGED server
  BY <1>2, QueueStands, DesktopStands, HydrateStands
  DEF SaveOk, SaveFailed, Conflict, Reloaded, PublishQueue, SaveTimerFires, Effect, Get, Hydrate
<1>3. CASE UNCHANGED homeVars
  BY <1>3 DEF HomeIInv, homeVars
<1> QED
  BY <1>1, <1>2, <1>3 DEF HomeNext, DesktopStep

\* The revision that a page knows goes with a layout it shows or is saving, or is one that the
\* server has left behind: so a save that passes the comparison of writeHomeLayout
\* (home/index.ts:139) brings everything that the server has, for any number of pages and edits,
\* whatever requests fail, or fail and are done, as long as the loading effect does not run over
\* an unsaved edit.
THEOREM EditsAreKept ==
    ASSUME ~DirtyEffects
    PROVE  HomeSpec => NoEditLost
<1>1. HomeIInv /\ [HomeNext]_homeVars =>
        HomeIInv' /\ [(\A d \in Desktops : ~desk[d].crossed) =>
                         server.layout \subseteq server'.layout]_homeVars
  BY HomeHolds
<1> QED
  BY <1>1, HomeStarts, PTL DEF HomeSpec, NoEditLost

--------------------------------------------------------------------------------
\* Types of the home layout

Pages == [shown : Layouts, local : Layouts, dirty : BOOLEAN, timer : BOOLEAN, hydrated : BOOLEAN,
          fetch : {"none", "asked", "answered"}, fetched : Stored, effects : 0 .. MaxEffects,
          edited : BOOLEAN, savedSince : BOOLEAN, crossed : BOOLEAN,
          revision : Nat, latest : Layouts, rerun : BOOLEAN,
          queue : {"idle", "sent", "ok", "conflict", "failed", "reloaded"},
          snapshot : Layouts, expected : Nat, answer : Stored]

\* A page has its types, and saves only after it has loaded.
PageOK(p) == p \in Pages /\ (p.timer => p.hydrated)

LEMMA EmptyIsStored == Empty \in Stored
BY DEF Empty, Stored, Layouts

\* What the steps of a desktop write into a page.
Answered(p, queue, answer) == [p EXCEPT !.queue = queue, !.answer = answer]
Failed(p, queue) == [p EXCEPT !.queue = queue]
Saved(p) == [p EXCEPT !.queue = "idle", !.answer = Empty, !.savedSince = TRUE,
                      !.dirty = p.timer /\ p.dirty]
Numbered(p, number) == [p EXCEPT !.revision = number]
Taken(p, remote) == [p EXCEPT !.revision = remote.revision, !.latest = remote.layout,
                              !.shown = remote.layout, !.dirty = FALSE]
Fired(p) == [p EXCEPT !.timer = FALSE]
Fetched(p) == [p EXCEPT !.fetch = "answered", !.fetched = server]
Edited(p, e) == [p EXCEPT !.shown = p.shown \cup {e}, !.dirty = TRUE, !.edited = TRUE,
                          !.timer = p.hydrated]
Asked(p) == [p EXCEPT !.effects = p.effects + 1, !.fetch = "asked", !.fetched = Empty,
                      !.local = p.shown, !.edited = FALSE, !.savedSince = FALSE]

LEMMA AnsweredPages ==
    ASSUME NEW p, PageOK(p), NEW answer \in Stored,
           NEW queue \in {"ok", "failed", "conflict", "reloaded"}
    PROVE  PageOK(Answered(p, queue, answer)) /\ (queue # "reloaded" => PageOK(Failed(p, queue)))
  BY DEF PageOK, Pages, Answered, Failed

LEMMA SavedPages == ASSUME NEW p, PageOK(p) PROVE PageOK(Saved(p))
<1>1. PICK dirty \in BOOLEAN : dirty = (p.timer /\ p.dirty)
  BY DEF PageOK, Pages
<1>2. Saved(p) = [p EXCEPT !.queue = "idle", !.answer = Empty, !.savedSince = TRUE,
                           !.dirty = dirty]
  BY <1>1 DEF Saved
<1> QED
  BY ZenonT(30), <1>2, EmptyIsStored DEF PageOK, Pages

LEMMA NumberedPages ==
    ASSUME NEW p, PageOK(p)
    PROVE  PageOK(Numbered(p, p.answer.revision)) /\ PageOK(Taken(p, p.answer))
<1>1. PICK number \in Nat, layout \in Layouts :
        number = p.answer.revision /\ layout = p.answer.layout
  BY DEF PageOK, Pages, Stored
<1>2. PageOK(Numbered(p, number))
  BY DEF PageOK, Pages, Numbered
<1>3. PageOK([p EXCEPT !.revision = number, !.latest = layout, !.shown = layout, !.dirty = FALSE])
  BY DEF PageOK, Pages
<1> QED
  BY <1>1, <1>2, <1>3 DEF Taken

LEMMA FiredPages == ASSUME NEW p, PageOK(p) PROVE PageOK(Fired(p)) /\ p.shown \in Layouts
  BY DEF PageOK, Pages, Fired

LEMMA FetchedPages == ASSUME NEW p, PageOK(p), server \in Stored PROVE PageOK(Fetched(p))
  BY DEF PageOK, Pages, Fetched

LEMMA EditedPages == ASSUME NEW p, PageOK(p), NEW e \in Edits PROVE PageOK(Edited(p, e))
<1>1. PICK layout \in Layouts : layout = p.shown \cup {e}
  BY DEF PageOK, Pages, Layouts
<1>2. PageOK([p EXCEPT !.shown = layout, !.dirty = TRUE, !.edited = TRUE, !.timer = p.hydrated])
  BY DEF PageOK, Pages
<1> QED
  BY <1>1, <1>2 DEF Edited

LEMMA AskedPages ==
    ASSUME NEW p, PageOK(p), p.effects < MaxEffects
    PROVE  PageOK(Asked(p))
<1>1. PICK n \in 0 .. MaxEffects : n = p.effects + 1
  BY CachedAssumption DEF PageOK, Pages
<1>2. PICK layout \in Layouts : layout = p.shown
  BY DEF PageOK, Pages
<1>3. PageOK([p EXCEPT !.effects = n, !.fetch = "asked", !.fetched = Empty, !.local = layout,
                      !.edited = FALSE, !.savedSince = FALSE])
  BY EmptyIsStored DEF PageOK, Pages
<1> QED
  BY <1>1, <1>2, <1>3 DEF Asked

\* What the queue makes of a page.
LEMMA QueuePages ==
    ASSUME NEW p, PageOK(p)
    PROVE  /\ PageOK(Sent(p)) /\ PageOK(Ended(p))
           /\ \A layout \in Layouts : PageOK(Submitted(p, layout))
<1>1. ASSUME NEW q, PageOK(q) PROVE PageOK(Sent(q))
  BY <1>1, EmptyIsStored DEF PageOK, Pages, Sent
<1>2. PageOK(Ended(p))
  BY <1>1, EmptyIsStored DEF PageOK, Pages, Ended
<1>3. ASSUME NEW layout \in Layouts PROVE PageOK(Submitted(p, layout))
  <2>1. PageOK([p EXCEPT !.latest = layout]) /\ PageOK([p EXCEPT !.latest = layout, !.rerun = TRUE])
    BY DEF PageOK, Pages
  <2> QED
    BY <1>1, <2>1 DEF Submitted
<1> QED
  BY <1>1, <1>2, <1>3

\* What the answer to the loading request makes of it.
LEMMA HydratedPages ==
    ASSUME NEW p, PageOK(p)
    PROVE  PageOK(Hydrated(p)) /\ (p.crossed => Hydrated(p).crossed)
<1>1. /\ p.shown \in Layouts /\ p.fetched.layout \in Layouts /\ p.local \in Layouts
      /\ p.fetched.revision \in Nat /\ (p.crossed \/ p.queue # "idle") \in BOOLEAN
  BY DEF PageOK, Pages, Stored
<1>2. PICK q : q = [p EXCEPT !.revision = p.fetched.revision, !.shown = Picked(p),
                             !.crossed = p.crossed \/ p.queue # "idle"]
  OBVIOUS
<1>3. PageOK(q) /\ q.shown \in Layouts
  BY ZenonT(30), <1>1, <1>2 DEF PageOK, Pages, Picked
<1>4. p.crossed => q.crossed
  BY <1>2 DEF PageOK, Pages
<1>5. Hydrated(p) \in {p, q, Submitted(p, p.shown), Submitted(q, q.shown)}
  BY <1>2 DEF Hydrated
<1>6. ASSUME NEW r, PageOK(r) PROVE Submitted(r, r.shown).crossed = r.crossed
  BY <1>6 DEF Submitted, Sent, PageOK, Pages
<1> QED
  BY <1>1, <1>3, <1>4, <1>5, <1>6, QueuePages

LEMMA LoadedPages == ASSUME NEW p, PageOK(p) PROVE PageOK(Loaded(p)) /\ PageOK(Loaded(Hydrated(p)))
<1>1. ASSUME NEW q, PageOK(q) PROVE PageOK(Loaded(q))
  BY <1>1, EmptyIsStored DEF PageOK, Pages, Loaded
<1> QED
  BY <1>1, HydratedPages

LEMMA HomeTypesAtFirst == HomeInit => HomeTypeOK
<1> SUFFICES ASSUME HomeInit PROVE HomeTypeOK
  OBVIOUS
<1>1. server \in Stored /\ unmade \in Layouts
  <2>1. [stored |-> TRUE, revision |-> 1, layout |-> {}] \in Stored
    BY DEF Stored, Layouts
  <2> QED
    BY <2>1, EmptyIsStored DEF HomeInit, Layouts
<1>2. {} \in Layouts /\ Cached \in Layouts /\ 0 \in 0 .. MaxEffects
  BY CachedAssumption DEF Layouts
<1>3. PICK cached \in [Desktops -> {{}, Cached}] :
         desk = [d \in Desktops |->
           [shown |-> cached[d], local |-> cached[d], dirty |-> FALSE, timer |-> FALSE,
            hydrated |-> FALSE, fetch |-> "asked", fetched |-> Empty, effects |-> 0,
            edited |-> FALSE, savedSince |-> FALSE, crossed |-> FALSE,
            revision |-> 0, latest |-> {}, rerun |-> FALSE, queue |-> "idle",
            snapshot |-> {}, expected |-> 0, answer |-> Empty]]
  BY DEF HomeInit
<1>4. \A d \in Desktops : cached[d] \in Layouts
  BY <1>2
<1> QED
  BY <1>1, <1>2, <1>3, <1>4, EmptyIsStored DEF HomeTypeOK

LEMMA HomeTypesStep == HomeTypeOK /\ [HomeNext]_homeVars => HomeTypeOK'
<1> SUFFICES ASSUME HomeTypeOK, [HomeNext]_homeVars PROVE HomeTypeOK'
  OBVIOUS
<1>0. /\ server \in Stored /\ unmade \in Layouts /\ desk \in [Desktops -> Pages]
      /\ \A d \in Desktops : PageOK(desk[d])
  BY DEF HomeTypeOK, Pages, PageOK
<1>1. ASSUME NEW d \in Desktops, NEW p, Become(d, p), PageOK(p), server' \in Stored,
             unmade' \in Layouts
      PROVE  HomeTypeOK'
  <2>1. /\ desk' \in [Desktops -> Pages] /\ \A e \in Desktops : PageOK(desk'[e])
    BY <1>0, <1>1 DEF Become, PageOK
  <2> QED
    BY <1>1, <2>1 DEF HomeTypeOK, Pages, PageOK
<1>2. ASSUME NEW d \in Desktops, PutLayout(d) PROVE HomeTypeOK'
  <2> DEFINE next == [stored |-> TRUE, revision |-> server.revision + 1, layout |-> {}]
  <2>1. next \in Stored
    BY <1>0 DEF Stored, Layouts
  <2>2. server' \in Stored /\ UNCHANGED unmade
    <3>1. desk[d].snapshot \in Layouts
      BY <1>0 DEF Pages
    <3>2. [stored |-> TRUE, revision |-> server.revision + 1, layout |-> desk[d].snapshot]
            \in Stored
      BY <1>0, <3>1 DEF Stored
    <3> QED
      BY <1>0, <1>2, <3>2 DEF PutLayout, WriteHomeLayout
  <2>3. \/ \E queue \in {"ok", "failed"} : Become(d, Answered(desk[d], queue, next))
        \/ \E queue \in {"conflict", "failed"} : Become(d, Failed(desk[d], queue))
    BY <1>2 DEF PutLayout, Answered, Failed
  <2> HIDE DEF next
  <2> QED
    BY <1>0, <1>1, <2>1, <2>2, <2>3, AnsweredPages
<1>3. ASSUME NEW d \in Desktops, SaveOk(d) PROVE HomeTypeOK'
  <2>1. PICK p : p = Numbered(desk[d], desk[d].answer.revision)
    OBVIOUS
  <2>2. PageOK(p)
    BY <1>0, <2>1, NumberedPages
  <2>3. Become(d, IF p.rerun THEN Sent(p) ELSE Saved(p)) /\ UNCHANGED <<server, unmade>>
    BY <1>3, <2>1 DEF SaveOk, Saved, Numbered
  <2> QED
    BY <1>0, <1>1, <2>2, <2>3, QueuePages, SavedPages
<1>4. ASSUME NEW d \in Desktops, SaveFailed(d) PROVE HomeTypeOK'
  BY <1>0, <1>1, <1>4, QueuePages DEF SaveFailed
<1>5. ASSUME NEW d \in Desktops, Conflict(d) PROVE HomeTypeOK'
  <2>1. PageOK(Answered(desk[d], "reloaded", server))
    BY <1>0, AnsweredPages
  <2>2. /\ Become(d, Answered(desk[d], "reloaded", server)) \/ Become(d, Ended(desk[d]))
        /\ UNCHANGED <<server, unmade>>
    BY <1>5 DEF Conflict, Answered
  <2> QED
    BY <1>0, <1>1, <2>1, <2>2, QueuePages
<1>6. ASSUME NEW d \in Desktops, Reloaded(d) PROVE HomeTypeOK'
  <2>1. Become(d, Ended(Taken(desk[d], desk[d].answer))) /\ UNCHANGED <<server, unmade>>
    BY <1>6 DEF Reloaded, Taken
  <2> QED
    BY <1>0, <1>1, <2>1, NumberedPages, QueuePages
<1>7. ASSUME NEW d \in Desktops, SaveTimerFires(d) PROVE HomeTypeOK'
  <2>1. Become(d, Submitted(Fired(desk[d]), desk[d].shown)) /\ UNCHANGED <<server, unmade>>
    BY <1>7 DEF SaveTimerFires, Fired
  <2> QED
    BY <1>0, <1>1, <2>1, FiredPages, QueuePages
<1>8. ASSUME NEW d \in Desktops, Get(d) PROVE HomeTypeOK'
  <2>1. Become(d, Fetched(desk[d])) /\ UNCHANGED <<server, unmade>>
    BY <1>8 DEF Get, Fetched
  <2> QED
    BY <1>0, <1>1, <2>1, FetchedPages
<1>9. ASSUME NEW d \in Desktops, Hydrate(d) PROVE HomeTypeOK'
  BY <1>0, <1>1, <1>9, LoadedPages DEF Hydrate
<1>10. ASSUME NEW d \in Desktops, PublishQueue(d) PROVE HomeTypeOK'
  <2>1. PICK e \in unmade : unmade' = unmade \ {e} /\ Become(d, Edited(desk[d], e))
    BY <1>10 DEF PublishQueue, Edited
  <2>2. e \in Edits /\ unmade' \in Layouts /\ UNCHANGED server
    BY <1>0, <1>10, <2>1 DEF Layouts, PublishQueue
  <2> QED
    BY <1>0, <1>1, <2>1, <2>2, EditedPages
<1>11. ASSUME NEW d \in Desktops, Effect(d) PROVE HomeTypeOK'
  <2>1. /\ desk[d].effects < MaxEffects /\ Become(d, Asked(desk[d]))
        /\ UNCHANGED <<server, unmade>>
    BY <1>11 DEF Effect, Asked
  <2> QED
    BY <1>0, <1>1, <2>1, AskedPages
<1>12. CASE UNCHANGED homeVars
  BY <1>12 DEF homeVars, HomeTypeOK
<1> QED
  BY <1>2, <1>3, <1>4, <1>5, <1>6, <1>7, <1>8, <1>9, <1>10, <1>11, <1>12
  DEF HomeNext, DesktopStep

\* The server's layout and the pages keep their types, and a page starts its save timer only
\* once it has loaded (publish and the loading effect of casa-desktop.tsx:160).
THEOREM HomeTypesStay == HomeSpec => []HomeTypeOK
BY HomeTypesAtFirst, HomeTypesStep, PTL DEF HomeSpec

--------------------------------------------------------------------------------
\* What a page takes for saved

\* Its flag is right now, and will be when what is loaded is shown and when the timer fires:
\* a timer that runs without an unsaved edit is left over from before a conflict.
FlagStands(p, s) ==
    /\ ~p.dirty /\ p.revision > 0 => p.shown \subseteq s.layout
    /\ p.fetch = "answered" => p.fetched.layout \subseteq s.layout
    /\ p.timer /\ ~p.dirty => p.revision > 0
    /\ p.timer /\ ~p.edited /\ p.fetch # "none" => s.revision > 0
    /\ p.timer /\ ~p.edited /\ p.fetch = "answered" => p.fetched.revision > 0

\* What is saved is what is shown, or a timer runs, or the queue is going to run again.
ShowsLatest(p) == p.queue # "idle" /\ ~p.timer => p.shown \subseteq p.latest
SendsLatest(p, s) ==
    /\ p.queue = "idle" => ~p.rerun
    /\ p.queue # "idle" /\ ~p.rerun => p.latest \subseteq p.snapshot
    /\ p.queue = "ok" => p.snapshot \subseteq s.layout /\ p.answer.revision > 0
    /\ p.queue = "conflict" => s.revision > 0
    /\ p.queue = "reloaded" => p.answer.layout \subseteq s.layout /\ p.answer.revision > 0
    /\ p.rerun /\ ~p.dirty => p.revision > 0

Believes(p, s) ==
    /\ FlagStands(p, s) /\ ShowsLatest(p) /\ SendsLatest(p, s)
    /\ ~p.hydrated => p.queue = "idle"

NobodyCrossed == \A d \in Desktops : ~desk[d].crossed
BeliefInv == NobodyCrossed => \A d \in Desktops : Believes(desk[d], server)

LEMMA BeliefStarts == HomeInit => BeliefInv
<1> SUFFICES ASSUME HomeInit, NEW d \in Desktops PROVE Believes(desk[d], server)
  BY DEF BeliefInv
<1>1. PICK cached \in [Desktops -> {{}, Cached}] :
         desk = [e \in Desktops |->
           [shown |-> cached[e], local |-> cached[e], dirty |-> FALSE, timer |-> FALSE,
            hydrated |-> FALSE, fetch |-> "asked", fetched |-> Empty, effects |-> 0,
            edited |-> FALSE, savedSince |-> FALSE, crossed |-> FALSE,
            revision |-> 0, latest |-> {}, rerun |-> FALSE, queue |-> "idle",
            snapshot |-> {}, expected |-> 0, answer |-> Empty]]
  BY DEF HomeInit
<1>2. /\ ~desk[d].timer /\ desk[d].fetch = "asked" /\ desk[d].revision = 0
      /\ ~desk[d].rerun /\ desk[d].queue = "idle"
  BY <1>1
<1> QED
  BY <1>2 DEF Believes, FlagStands, ShowsLatest, SendsLatest

\* What the server gets beyond what it had harms no belief.
LEMMA BeliefOutlives ==
    ASSUME NEW p, NEW s \in Stored, NEW t \in Stored, PageOK(p), Believes(p, s),
           s.layout \subseteq t.layout, s.revision <= t.revision
    PROVE  Believes(p, t)
<1>1. s.revision > 0 => t.revision > 0
  BY DEF Stored
<1> QED
  BY <1>1 DEF Believes, FlagStands, ShowsLatest, SendsLatest

\* A page sends.
LEMMA SendingBelieves ==
    ASSUME NEW p, NEW s, PageOK(p), FlagStands(p, s), ~p.timer => p.shown \subseteq p.latest
    PROVE  /\ FlagStands(Sent(p), s) /\ ShowsLatest(Sent(p)) /\ SendsLatest(Sent(p), s)
           /\ Sent(p).crossed = p.crossed /\ Sent(p).hydrated = p.hydrated
<1>1. PICK q : q = Sent(p)
  OBVIOUS
<1>2. /\ q.crossed = p.crossed /\ q.fetch = p.fetch /\ q.fetched = p.fetched /\ q.timer = p.timer
      /\ q.edited = p.edited /\ q.dirty = p.dirty /\ q.hydrated = p.hydrated
      /\ q.revision = p.revision /\ q.latest = p.latest /\ q.shown = p.shown
      /\ q.queue = "sent" /\ q.snapshot = p.latest /\ ~q.rerun
  BY <1>1 DEF Sent, PageOK, Pages
<1>3. FlagStands(q, s) /\ ShowsLatest(q) /\ SendsLatest(q, s)
  BY <1>2 DEF FlagStands, ShowsLatest, SendsLatest
<1> QED
  BY <1>1, <1>2, <1>3

\* A page submits what it shows.
LEMMA SubmittingBelieves ==
    ASSUME NEW p, NEW s, PageOK(p), FlagStands(p, s), SendsLatest(p, s),
           p.queue # "idle" /\ ~p.dirty => p.revision > 0
    PROVE  LET q == Submitted(p, p.shown)
           IN  /\ FlagStands(q, s) /\ ShowsLatest(q) /\ SendsLatest(q, s)
               /\ q.crossed = p.crossed /\ q.hydrated = p.hydrated
<1>0. p.shown \in Layouts
  BY DEF PageOK, Pages
<1>1. CASE p.queue = "idle"
  <2>1. PICK q : q = [p EXCEPT !.latest = p.shown]
    OBVIOUS
  <2>2. /\ PageOK(q) /\ q.crossed = p.crossed /\ q.fetch = p.fetch /\ q.fetched = p.fetched
        /\ q.timer = p.timer /\ q.edited = p.edited /\ q.dirty = p.dirty
        /\ q.hydrated = p.hydrated /\ q.revision = p.revision /\ q.latest = q.shown
        /\ q.shown = p.shown
    BY <1>0, <2>1 DEF PageOK, Pages
  <2>3. FlagStands(q, s)
    BY <2>2 DEF FlagStands
  <2>4. Submitted(p, p.shown) = Sent(q)
    BY <1>1, <2>1 DEF Submitted
  <2> QED
    BY <2>2, <2>3, <2>4, SendingBelieves
<1>2. CASE p.queue # "idle"
  <2>1. PICK q : q = [p EXCEPT !.latest = p.shown, !.rerun = TRUE]
    OBVIOUS
  <2>2. /\ q.crossed = p.crossed /\ q.fetch = p.fetch /\ q.fetched = p.fetched
        /\ q.timer = p.timer /\ q.edited = p.edited /\ q.dirty = p.dirty
        /\ q.hydrated = p.hydrated /\ q.revision = p.revision /\ q.latest = q.shown
        /\ q.shown = p.shown /\ q.rerun /\ q.queue = p.queue /\ q.snapshot = p.snapshot
        /\ q.answer = p.answer
    BY <1>0, <2>1 DEF PageOK, Pages
  <2>3. FlagStands(q, s) /\ ShowsLatest(q) /\ SendsLatest(q, s)
    BY <1>2, <2>2 DEF FlagStands, ShowsLatest, SendsLatest
  <2>4. Submitted(p, p.shown) = q
    BY <1>2, <2>1 DEF Submitted
  <2> QED
    BY <2>2, <2>3, <2>4
<1> QED
  BY <1>1, <1>2

\* A save is over.
LEMMA EndingBelieves ==
    ASSUME NEW p, NEW s, PageOK(p), FlagStands(p, s), ~p.timer => p.shown \subseteq p.latest,
           p.hydrated
    PROVE  Believes(Ended(p), s) /\ Ended(p).crossed = p.crossed
<1>1. CASE p.rerun
  BY <1>1, SendingBelieves DEF Ended, Believes
<1>2. CASE ~p.rerun
  <2>1. PICK q : q = Ended(p)
    OBVIOUS
  <2>2. /\ q.crossed = p.crossed /\ q.fetch = p.fetch /\ q.fetched = p.fetched
        /\ q.timer = p.timer /\ q.edited = p.edited /\ q.dirty = p.dirty
        /\ q.hydrated = p.hydrated /\ q.revision = p.revision
        /\ q.shown = p.shown /\ ~q.rerun /\ q.queue = "idle"
    BY <1>2, <2>1 DEF Ended, PageOK, Pages
  <2>3. Believes(q, s)
    BY <2>2 DEF Believes, FlagStands, ShowsLatest, SendsLatest
  <2> QED
    BY <2>1, <2>2, <2>3
<1> QED
  BY <1>1, <1>2

\* A step of one page that leaves the server as it is.
LEMMA BeliefKeeps ==
    ASSUME HomeTypeOK, BeliefInv, NEW d \in Desktops, NEW p, Become(d, p), UNCHANGED server,
           desk[d].crossed => p.crossed,
           NobodyCrossed /\ ~p.crossed => Believes(p, server)
    PROVE  BeliefInv'
<1>1. desk'[d] = p /\ \A e \in Desktops \ {d} : desk'[e] = desk[e]
  BY DEF Become, HomeTypeOK
<1>2. NobodyCrossed' => NobodyCrossed /\ ~p.crossed
  BY <1>1 DEF NobodyCrossed
<1> QED
  BY <1>1, <1>2 DEF BeliefInv

LEMMA PutBelieves ==
    ASSUME HomeTypeOK, HomeIInv, BeliefInv, NEW d \in Desktops, PutLayout(d)
    PROVE  BeliefInv'
<1> DEFINE p == desk[d]
<1>0. /\ PageOK(p) /\ p.queue = "sent" /\ server \in Stored /\ PageStands(p, server)
      /\ \A e \in Desktops : PageOK(desk[e])
  BY DEF HomeTypeOK, PageOK, Pages, PutLayout, HomeIInv
<1>1. ASSUME NEW queue \in {"conflict", "failed"}, Become(d, Failed(p, queue)),
             UNCHANGED server, queue = "conflict" => p.expected # server.revision
      PROVE  BeliefInv'
  <2>1. PICK q : q = Failed(p, queue)
    OBVIOUS
  <2>2. /\ q.crossed = p.crossed /\ q.fetch = p.fetch /\ q.fetched = p.fetched
        /\ q.timer = p.timer /\ q.edited = p.edited /\ q.dirty = p.dirty
        /\ q.hydrated = p.hydrated /\ q.revision = p.revision /\ q.latest = p.latest
        /\ q.shown = p.shown /\ q.rerun = p.rerun /\ q.queue = queue /\ q.snapshot = p.snapshot
    BY <1>0, <2>1 DEF Failed, PageOK, Pages
  <2>3. NobodyCrossed /\ queue = "conflict" => server.revision > 0
    <3>1. NobodyCrossed => p.revision \in Nat /\ p.revision <= server.revision
                           /\ p.expected = p.revision
      BY <1>0 DEF NobodyCrossed, PageStands, SaveStands, Known
    <3>2. server.revision \in Nat
      BY <1>0 DEF Stored
    <3> QED
      BY <1>1, <3>1, <3>2
  <2>4. NobodyCrossed => Believes(q, server)
    BY <1>0, <1>1, <2>2, <2>3 DEF BeliefInv, Believes, FlagStands, ShowsLatest, SendsLatest
  <2> QED
    BY <1>1, <2>1, <2>2, <2>4, BeliefKeeps
<1>2. ASSUME NEW queue \in {"ok", "failed"}, WriteHomeLayout(p.snapshot, p.expected),
             Become(d, Answered(p, queue,
                 [stored |-> TRUE, revision |-> server.revision + 1, layout |-> {}]))
      PROVE  BeliefInv'
  <2>1. PICK answer \in Stored :
          answer = [stored |-> TRUE, revision |-> server.revision + 1, layout |-> {}]
    <3>1. server.revision + 1 \in Nat /\ {} \in Layouts
      BY <1>0 DEF Stored, Layouts
    <3> QED
      BY <3>1 DEF Stored
  <2>2. PICK q : q = Answered(p, queue, answer)
    OBVIOUS
  <2>3. /\ q.crossed = p.crossed /\ q.fetch = p.fetch /\ q.fetched = p.fetched
        /\ q.timer = p.timer /\ q.edited = p.edited /\ q.dirty = p.dirty
        /\ q.hydrated = p.hydrated /\ q.revision = p.revision /\ q.latest = p.latest
        /\ q.shown = p.shown /\ q.rerun = p.rerun /\ q.queue = queue /\ q.snapshot = p.snapshot
        /\ q.answer = answer
    BY <1>0, <2>2 DEF Answered, PageOK, Pages
  <2>4. PICK t \in Stored :
          /\ t = [stored |-> TRUE, revision |-> server.revision + 1, layout |-> p.snapshot]
          /\ server' = t
    <3>1. server.revision + 1 \in Nat /\ p.snapshot \in Layouts
      BY <1>0 DEF Stored, PageOK, Pages
    <3>2. [stored |-> TRUE, revision |-> server.revision + 1, layout |-> p.snapshot] \in Stored
      BY <3>1 DEF Stored
    <3> QED
      BY <1>2, <3>2 DEF WriteHomeLayout
  <2>5. t.layout = p.snapshot /\ server.revision <= t.revision /\ answer.revision > 0
    BY <1>0, <2>1, <2>4 DEF Stored
  <2>6. desk'[d] = q /\ \A e \in Desktops \ {d} : desk'[e] = desk[e]
    BY <1>2, <2>1, <2>2 DEF Become, HomeTypeOK
  <2>7. NobodyCrossed' => NobodyCrossed
    BY <2>3, <2>6 DEF NobodyCrossed
  <2>8. NobodyCrossed => server.layout \subseteq t.layout
    BY <1>0, <2>5, PutStands, <2>4 DEF NobodyCrossed
  <2>9. NobodyCrossed => \A e \in Desktops : Believes(desk[e], t)
    BY <1>0, <2>5, <2>8, BeliefOutlives DEF BeliefInv
  <2>10. NobodyCrossed => Believes(q, t)
    BY <1>0, <1>2, <2>3, <2>5, <2>9 DEF Believes, FlagStands, ShowsLatest, SendsLatest
  <2> QED
    BY <2>4, <2>6, <2>7, <2>9, <2>10 DEF BeliefInv
<1> QED
  BY <1>1, <1>2 DEF PutLayout, Answered, Failed

\* The queue receives its answer.
LEMMA QueueBelieves ==
    ASSUME HomeTypeOK, BeliefInv, NEW d \in Desktops,
           SaveOk(d) \/ SaveFailed(d) \/ Conflict(d) \/ Reloaded(d)
    PROVE  BeliefInv'
<1> DEFINE p == desk[d]
<1>0. /\ PageOK(p) /\ server \in Stored /\ UNCHANGED server /\ p.queue # "idle"
      /\ NobodyCrossed => Believes(p, server) /\ p.hydrated
  BY DEF HomeTypeOK, PageOK, Pages, BeliefInv, Believes, SaveOk, SaveFailed, Conflict, Reloaded
<1>1. CASE SaveOk(d)
  <2>1. PICK q : q = Numbered(p, p.answer.revision)
    OBVIOUS
  <2>2. /\ PageOK(q) /\ q.crossed = p.crossed /\ q.fetch = p.fetch /\ q.fetched = p.fetched
        /\ q.timer = p.timer /\ q.edited = p.edited /\ q.dirty = p.dirty
        /\ q.hydrated = p.hydrated /\ q.revision = p.answer.revision /\ q.latest = p.latest
        /\ q.shown = p.shown /\ q.rerun = p.rerun /\ q.queue = p.queue
        /\ q.snapshot = p.snapshot
    <3>1. PageOK(q)
      BY <1>0, <2>1, NumberedPages
    <3> QED
      BY <1>0, <2>1, <3>1 DEF Numbered, PageOK, Pages
  <2>3. Become(d, IF q.rerun THEN Sent(q) ELSE Saved(q)) /\ p.queue = "ok"
    BY <1>1, <2>1 DEF SaveOk, Saved, Numbered
  <2>4. NobodyCrossed => q.revision > 0 /\ (~q.timer => q.shown \subseteq q.latest)
    BY <1>0, <2>2, <2>3 DEF Believes, ShowsLatest, SendsLatest
  <2>5. ASSUME NobodyCrossed, ~q.dirty PROVE q.shown \subseteq server.layout
    <3>1. CASE p.rerun \/ p.timer
      BY <1>0, <2>2, <2>5, <3>1 DEF Believes, FlagStands, SendsLatest
    <3>2. CASE ~p.rerun /\ ~p.timer
      <4>1. /\ p.shown \subseteq p.latest /\ p.latest \subseteq p.snapshot
            /\ p.snapshot \subseteq server.layout
        BY <1>0, <2>3, <2>5, <3>2 DEF Believes, ShowsLatest, SendsLatest
      <4> QED
        BY <2>2, <4>1
    <3> QED
      BY <3>1, <3>2
  <2>6. NobodyCrossed => FlagStands(q, server)
    BY <1>0, <2>2, <2>4, <2>5 DEF Believes, FlagStands
  <2>7. CASE q.rerun
    <3>1. Become(d, Sent(q)) /\ Sent(q).crossed = q.crossed /\ Sent(q).hydrated = q.hydrated
      BY <2>2, <2>3, <2>7 DEF Sent, PageOK, Pages
    <3>2. NobodyCrossed => Believes(Sent(q), server)
      BY <1>0, <2>2, <2>4, <2>6, <3>1, SendingBelieves DEF Believes
    <3> QED
      BY <1>0, <2>2, <3>1, <3>2, BeliefKeeps
  <2>8. CASE ~q.rerun
    <3>1. PICK n : n = Saved(q)
      OBVIOUS
    <3>2. PageOK(n)
      BY <2>2, <3>1, SavedPages
    <3>3. /\ n.crossed = q.crossed /\ n.fetch = q.fetch /\ n.fetched = q.fetched
          /\ n.timer = q.timer /\ n.edited = q.edited /\ (n.dirty <=> q.timer /\ q.dirty)
          /\ n.hydrated = q.hydrated /\ n.revision = q.revision
          /\ n.shown = q.shown /\ n.rerun = q.rerun /\ n.queue = "idle"
      BY <2>2, <3>1 DEF Saved, PageOK, Pages
    <3>4. NobodyCrossed /\ ~p.timer => p.shown \subseteq server.layout
      BY <1>0, <2>2, <2>3, <2>8 DEF Believes, ShowsLatest, SendsLatest
    <3>5. NobodyCrossed => FlagStands(n, server)
      BY <2>2, <2>4, <2>5, <2>6, <3>3, <3>4 DEF FlagStands
    <3>6. NobodyCrossed => Believes(n, server)
      BY <1>0, <2>2, <2>8, <3>3, <3>5 DEF Believes, ShowsLatest, SendsLatest
    <3> QED
      BY <1>0, <2>2, <2>3, <2>8, <3>1, <3>3, <3>6, BeliefKeeps
  <2> QED
    BY <2>7, <2>8
<1>2. ASSUME p.queue \in {"failed", "conflict"}, Become(d, Ended(p)) PROVE BeliefInv'
  <2>1. NobodyCrossed => FlagStands(p, server) /\ (~p.timer => p.shown \subseteq p.latest)
    BY <1>0, <1>2 DEF Believes, ShowsLatest
  <2>2. NobodyCrossed => Believes(Ended(p), server)
    BY <1>0, <2>1, EndingBelieves
  <2>3. Ended(p).crossed = p.crossed
    BY <1>0 DEF Ended, Sent, PageOK, Pages
  <2> QED
    BY <1>0, <1>2, <2>2, <2>3, BeliefKeeps
<1>3. ASSUME p.queue = "conflict", Become(d, Answered(p, "reloaded", server)) PROVE BeliefInv'
  <2>1. PICK q : q = Answered(p, "reloaded", server)
    OBVIOUS
  <2>2. /\ q.crossed = p.crossed /\ q.fetch = p.fetch /\ q.fetched = p.fetched
        /\ q.timer = p.timer /\ q.edited = p.edited /\ q.dirty = p.dirty
        /\ q.hydrated = p.hydrated /\ q.revision = p.revision /\ q.latest = p.latest
        /\ q.shown = p.shown /\ q.rerun = p.rerun /\ q.queue = "reloaded"
        /\ q.snapshot = p.snapshot /\ q.answer = server
    BY <1>0, <2>1 DEF Answered, PageOK, Pages
  <2>3. NobodyCrossed => Believes(q, server)
    BY <1>0, <1>3, <2>2 DEF Believes, FlagStands, ShowsLatest, SendsLatest
  <2> QED
    BY <1>0, <1>3, <2>1, <2>2, <2>3, BeliefKeeps
<1>4. CASE Reloaded(d)
  <2>1. PICK q : q = Taken(p, p.answer)
    OBVIOUS
  <2>2. /\ PageOK(q) /\ q.crossed = p.crossed /\ q.fetch = p.fetch /\ q.fetched = p.fetched
        /\ q.timer = p.timer /\ q.edited = p.edited /\ ~q.dirty
        /\ q.hydrated = p.hydrated /\ q.revision = p.answer.revision
        /\ q.latest = p.answer.layout /\ q.shown = p.answer.layout
    <3>1. PageOK(q)
      BY <1>0, <2>1, NumberedPages
    <3> QED
      BY <1>0, <2>1, <3>1 DEF Taken, PageOK, Pages
  <2>3. p.queue = "reloaded" /\ Become(d, Ended(q))
    BY <1>4, <2>1 DEF Reloaded, Taken
  <2>4. NobodyCrossed => FlagStands(q, server)
    BY <1>0, <2>2, <2>3 DEF Believes, FlagStands, SendsLatest
  <2>5. NobodyCrossed => Believes(Ended(q), server)
    BY <1>0, <2>2, <2>4, EndingBelieves
  <2>6. Ended(q).crossed = q.crossed
    BY <2>2 DEF Ended, Sent, PageOK, Pages
  <2> QED
    BY <1>0, <2>2, <2>3, <2>5, <2>6, BeliefKeeps
<1> QED
  BY <1>1, <1>2, <1>3, <1>4 DEF SaveFailed, Conflict, Answered

\* The desktop edits, submits, and asks the server for the layout.
LEMMA DesktopBelieves ==
    ASSUME HomeTypeOK, HomeIInv, BeliefInv, ~DirtyEffects, NEW d \in Desktops,
           PublishQueue(d) \/ SaveTimerFires(d) \/ Effect(d) \/ Get(d)
    PROVE  BeliefInv'
<1> DEFINE p == desk[d]
<1>0. /\ PageOK(p) /\ server \in Stored /\ UNCHANGED server /\ PageStands(p, server)
      /\ NobodyCrossed => Believes(p, server) /\ ~p.crossed
  BY DEF HomeTypeOK, PageOK, Pages, BeliefInv, HomeIInv, NobodyCrossed, PublishQueue,
         SaveTimerFires, Effect, Get
<1>1. CASE PublishQueue(d)
  <2>1. PICK e \in unmade : Become(d, Edited(p, e))
    BY <1>1 DEF PublishQueue, Edited
  <2>2. PICK q : q = Edited(p, e)
    OBVIOUS
  <2>3. /\ q.crossed = p.crossed /\ q.fetch = p.fetch /\ q.fetched = p.fetched
        /\ q.timer = p.hydrated /\ q.edited /\ q.dirty
        /\ q.hydrated = p.hydrated /\ q.revision = p.revision /\ q.latest = p.latest
        /\ q.rerun = p.rerun /\ q.queue = p.queue
        /\ q.snapshot = p.snapshot /\ q.answer = p.answer
    BY <1>0, <2>2 DEF Edited, PageOK, Pages
  <2>4. NobodyCrossed => Believes(q, server)
    BY <1>0, <2>3 DEF Believes, FlagStands, ShowsLatest, SendsLatest
  <2> QED
    BY <1>0, <2>1, <2>2, <2>3, <2>4, BeliefKeeps
<1>2. CASE SaveTimerFires(d)
  <2>1. PICK q : q = Fired(p)
    OBVIOUS
  <2>2. /\ PageOK(q) /\ q.crossed = p.crossed /\ q.fetch = p.fetch /\ q.fetched = p.fetched
        /\ ~q.timer /\ q.edited = p.edited /\ q.dirty = p.dirty
        /\ q.hydrated = p.hydrated /\ q.revision = p.revision /\ q.latest = p.latest
        /\ q.shown = p.shown /\ q.rerun = p.rerun /\ q.queue = p.queue
        /\ q.snapshot = p.snapshot /\ q.answer = p.answer
    <3>1. PageOK(q)
      BY <1>0, <2>1, FiredPages
    <3> QED
      BY <1>0, <2>1, <3>1 DEF Fired, PageOK, Pages
  <2>3. p.timer /\ p.hydrated /\ Become(d, Submitted(q, q.shown))
    BY <1>0, <1>2, <2>1, <2>2 DEF SaveTimerFires, Fired, PageOK
  <2>4. NobodyCrossed => /\ FlagStands(q, server) /\ SendsLatest(q, server)
                         /\ (~q.dirty => q.revision > 0)
    BY <1>0, <2>2, <2>3 DEF Believes, FlagStands, SendsLatest
  <2>5. NobodyCrossed => Believes(Submitted(q, q.shown), server)
    BY <2>2, <2>3, <2>4, SubmittingBelieves DEF Believes
  <2>6. Submitted(q, q.shown).crossed = q.crossed
    BY <2>2 DEF Submitted, Sent, PageOK, Pages
  <2> QED
    BY <1>0, <2>2, <2>3, <2>5, <2>6, BeliefKeeps
<1>3. CASE Effect(d)
  <2>1. ~p.dirty /\ Become(d, Asked(p))
    BY <1>3 DEF Effect, Asked
  <2>2. PICK q : q = Asked(p)
    OBVIOUS
  <2>3. /\ q.crossed = p.crossed /\ q.fetch = "asked" /\ q.timer = p.timer /\ q.dirty = p.dirty
        /\ q.hydrated = p.hydrated /\ q.revision = p.revision /\ q.latest = p.latest
        /\ q.shown = p.shown /\ q.rerun = p.rerun /\ q.queue = p.queue
        /\ q.snapshot = p.snapshot /\ q.answer = p.answer
    BY <1>0, <2>2 DEF Asked, PageOK, Pages
  <2>4. NobodyCrossed /\ p.timer => server.revision > 0
    <3>1. NobodyCrossed => /\ p.revision \in Nat /\ p.revision <= server.revision
                           /\ p.timer => p.revision > 0
      BY <1>0, <2>1 DEF PageStands, SaveStands, Known, Believes, FlagStands
    <3>2. server.revision \in Nat
      BY <1>0 DEF Stored
    <3> QED
      BY <3>1, <3>2
  <2>5. NobodyCrossed => Believes(q, server)
    BY <1>0, <2>3, <2>4 DEF Believes, FlagStands, ShowsLatest, SendsLatest
  <2> QED
    BY <1>0, <2>1, <2>2, <2>3, <2>5, BeliefKeeps
<1>4. CASE Get(d)
  <2>1. p.fetch = "asked" /\ Become(d, Fetched(p))
    BY <1>4 DEF Get, Fetched
  <2>2. PICK q : q = Fetched(p)
    OBVIOUS
  <2>3. /\ q.crossed = p.crossed /\ q.fetch = "answered" /\ q.fetched = server
        /\ q.timer = p.timer /\ q.edited = p.edited /\ q.dirty = p.dirty
        /\ q.hydrated = p.hydrated /\ q.revision = p.revision /\ q.latest = p.latest
        /\ q.shown = p.shown /\ q.rerun = p.rerun /\ q.queue = p.queue
        /\ q.snapshot = p.snapshot /\ q.answer = p.answer
    BY <1>0, <2>2 DEF Fetched, PageOK, Pages
  <2>4. NobodyCrossed => Believes(q, server)
    BY <1>0, <2>1, <2>3 DEF Believes, FlagStands, ShowsLatest, SendsLatest
  <2> QED
    BY <1>0, <2>1, <2>2, <2>3, <2>4, BeliefKeeps
<1> QED
  BY <1>1, <1>2, <1>3, <1>4

\* A loading request is over.
LEMMA LoadingBelieves ==
    ASSUME NEW p, NEW s, PageOK(p), FlagStands(p, s), ShowsLatest(p), SendsLatest(p, s)
    PROVE  Believes(Loaded(p), s)
<1>1. PICK q : q = Loaded(p)
  OBVIOUS
<1>2. /\ q.fetch = "none" /\ q.hydrated
      /\ q.timer = p.timer /\ q.dirty = p.dirty /\ q.revision = p.revision
      /\ q.latest = p.latest /\ q.shown = p.shown /\ q.rerun = p.rerun /\ q.queue = p.queue
      /\ q.snapshot = p.snapshot /\ q.answer = p.answer
  BY <1>1 DEF Loaded, PageOK, Pages
<1>3. Believes(q, s)
  BY <1>2 DEF Believes, FlagStands, ShowsLatest, SendsLatest
<1> QED
  BY <1>1, <1>3

\* What the answer makes of a page.
LEMMA HydratingBelieves ==
    ASSUME NEW p, NEW s, PageOK(p), p.fetch = "answered", PageStands(p, s),
           ~p.crossed => Believes(p, s), ~Hydrated(p).crossed
    PROVE  ~p.crossed /\ Believes(Loaded(Hydrated(p)), s)
<1>1. CASE p.savedSince \/ (p.edited /\ ~p.dirty)
  <2>1. Hydrated(p) = p
    BY <1>1 DEF Hydrated
  <2> QED
    BY <2>1, LoadingBelieves DEF Believes
<1>2. CASE ~p.savedSince /\ p.edited /\ p.dirty
  <2>1. Hydrated(p) = Submitted(p, p.shown)
    BY <1>2 DEF Hydrated
  <2>2. ~p.crossed
    BY <2>1 DEF Submitted, Sent, PageOK, Pages
  <2>3. PageOK(Hydrated(p))
    BY <2>1, QueuePages DEF PageOK, Pages
  <2>4. LET q == Hydrated(p) IN FlagStands(q, s) /\ ShowsLatest(q) /\ SendsLatest(q, s)
    BY <1>2, <2>1, <2>2, SubmittingBelieves DEF Believes
  <2> QED
    BY <2>2, <2>3, <2>4, LoadingBelieves
<1>3. CASE ~p.savedSince /\ ~p.edited
  <2>1. PICK q : q = [p EXCEPT !.revision = p.fetched.revision, !.shown = Picked(p),
                               !.crossed = p.crossed \/ p.queue # "idle"]
    OBVIOUS
  <2>2. /\ p.shown \in Layouts /\ p.fetched.layout \in Layouts /\ p.local \in Layouts
        /\ p.fetched.revision \in Nat /\ (p.crossed \/ p.queue # "idle") \in BOOLEAN
    BY DEF PageOK, Pages, Stored
  <2>3. PageOK(q) /\ q.shown \in Layouts
    BY ZenonT(30), <2>1, <2>2 DEF PageOK, Pages, Picked
  <2>4. /\ q.crossed = (p.crossed \/ p.queue # "idle") /\ q.fetch = p.fetch
        /\ q.fetched = p.fetched /\ q.timer = p.timer /\ q.edited = p.edited
        /\ q.dirty = p.dirty /\ q.revision = p.fetched.revision /\ q.shown = Picked(p)
        /\ q.rerun = p.rerun /\ q.queue = p.queue
    BY <2>1 DEF PageOK, Pages
  <2>5. Hydrated(p) = IF Uploads(p) THEN Submitted(q, q.shown) ELSE q
    BY <1>3, <2>1, <2>4 DEF Hydrated
  <2>6. ~q.crossed
    BY <2>3, <2>5 DEF Submitted, Sent, PageOK, Pages
  <2>7. ~p.crossed /\ p.queue = "idle" /\ ~p.dirty /\ Believes(p, s) /\ LoadStands(p, s)
    BY <1>3, <2>4, <2>6 DEF PageStands, LoadStands
  <2>8. q.revision > 0 => q.shown \subseteq s.layout
    <3>1. CASE p.fetched.stored
      BY <2>4, <2>7, <3>1 DEF Picked, Believes, FlagStands
    <3>2. CASE ~p.fetched.stored
      BY <2>4, <2>7, <3>2 DEF LoadStands
    <3> QED
      BY <3>1, <3>2
  <2>9. FlagStands(q, s) /\ SendsLatest(q, s) /\ ShowsLatest(q) /\ q.queue = "idle"
    BY <1>3, <2>4, <2>7, <2>8 DEF Believes, FlagStands, SendsLatest, ShowsLatest
  <2>10. PageOK(Submitted(q, q.shown))
    BY <2>3, QueuePages
  <2>11. Believes(Loaded(Submitted(q, q.shown)), s)
    BY <2>3, <2>9, <2>10, SubmittingBelieves, LoadingBelieves
  <2>12. Believes(Loaded(q), s)
    BY <2>3, <2>9, LoadingBelieves
  <2> QED
    BY <2>5, <2>7, <2>11, <2>12
<1> QED
  BY <1>1, <1>2, <1>3 DEF PageOK, Pages

LEMMA HydrateBelieves ==
    ASSUME HomeTypeOK, HomeIInv, BeliefInv, NEW d \in Desktops, Hydrate(d)
    PROVE  BeliefInv'
<1> DEFINE p == desk[d]
<1>0. /\ PageOK(p) /\ UNCHANGED server /\ PageStands(p, server)
      /\ NobodyCrossed => Believes(p, server)
  BY DEF HomeTypeOK, PageOK, Pages, BeliefInv, HomeIInv, Hydrate
<1>1. ASSUME NEW q, PageOK(q) PROVE Loaded(q).crossed = q.crossed
  BY <1>1 DEF Loaded, PageOK, Pages
<1>2. CASE p.fetch = "answered" /\ Become(d, Loaded(Hydrated(p)))
  <2>1. PageOK(Hydrated(p))
    BY <1>0, HydratedPages
  <2>2. Loaded(Hydrated(p)).crossed = Hydrated(p).crossed
    BY <1>1, <2>1
  <2>3. p.crossed => Hydrated(p).crossed
    BY <1>0, HydratedPages
  <2>4. NobodyCrossed /\ ~Hydrated(p).crossed => Believes(Loaded(Hydrated(p)), server)
    BY <1>0, <1>2, HydratingBelieves
  <2> QED
    BY <1>0, <1>2, <2>2, <2>3, <2>4, BeliefKeeps
<1>3. CASE Become(d, Loaded(p))
  <2>1. NobodyCrossed => Believes(Loaded(p), server)
    BY <1>0, LoadingBelieves DEF Believes
  <2> QED
    BY <1>0, <1>1, <1>3, <2>1, BeliefKeeps
<1> QED
  BY <1>2, <1>3 DEF Hydrate

LEMMA BeliefHolds ==
    ASSUME ~DirtyEffects, HomeTypeOK, HomeIInv, BeliefInv, [HomeNext]_homeVars
    PROVE  BeliefInv'
<1>1. CASE UNCHANGED homeVars
  BY <1>1 DEF homeVars, BeliefInv, NobodyCrossed
<1> QED
  BY <1>1, PutBelieves, QueueBelieves, DesktopBelieves, HydrateBelieves
  DEF HomeNext, DesktopStep

\* A page whose dirtyRef is not set shows only what the server has, although the flag is taken
\* back by the answer to a save (onSaved, casa-desktop.tsx:243) and by a conflict (onReloaded,
\* :238), while edits, timers and other saves go on: for any number of pages and edits, and
\* whatever requests fail, as long as the loading effect does not run over an unsaved edit.
THEOREM CleanPagesAreSaved ==
    ASSUME ~DirtyEffects
    PROVE  HomeSpec => []CleanIsSaved
<1>1. HomeTypeOK /\ HomeIInv /\ BeliefInv /\ [HomeNext]_homeVars => HomeIInv' /\ BeliefInv'
  BY HomeHolds, BeliefHolds
<1>2. BeliefInv => CleanIsSaved
  BY DEF BeliefInv, NobodyCrossed, CleanIsSaved, Believes, FlagStands
<1> QED
  BY <1>1, <1>2, HomeStarts, BeliefStarts, HomeTypesStay, PTL DEF HomeSpec

\* Whatever the pages save, miss or reload, no edit is lost and none is taken for saved
\* (home-layout-save.ts:18), as long as the loading effect does not run over an unsaved one: that
\* it does not is needed, as the run home_layout_effect shows.
THEOREM EditsAreSafe ==
    ASSUME ~DirtyEffects
    PROVE  HomeSpec => EditsHold
BY EditsAreKept, CleanPagesAreSaved, PTL DEF EditsHold

--------------------------------------------------------------------------------
\* Types of the dashboard

Overviews == 0 .. MaxNews
Memos == [held : BOOLEAN, value : Overviews, age : 0 .. OverviewTtl, by : SUBSET Builders]
Builds == [Builders -> [pc : {"none", "sent", "read"}, value : Overviews]]
Streams == [open : BOOLEAN, subscribed : BOOLEAN, sending : SUBSET Builders, dirty : BOOLEAN]
Written == Seq(0 .. Error)
DashPages == [es : {"connecting", "open", "gone"}, received : BOOLEAN, polling : BOOLEAN,
              visible : BOOLEAN, fallback : BOOLEAN, shown : Overviews]
Gets == [pc : {"none", "waits", "answered"}, on : SUBSET Builders, answer : Overviews]

ServerTypes == memo \in Memos /\ build \in Builds /\ sse \in Streams /\ pushes \in Written
RestTypes ==
    /\ news \in Overviews /\ heard \in {"yes", "not yet", "lost"}
    /\ breaks \in 0 .. MaxBreaks /\ hides \in 0 .. MaxHides

LEMMA DashboardTypes ==
    /\ LiveDashboardTypeOK <=> ServerTypes /\ RestTypes /\ page \in DashPages /\ get \in Gets
    /\ LiveDashboardTypeOK' <=> (ServerTypes /\ RestTypes /\ page \in DashPages /\ get \in Gets)'
BY DEF LiveDashboardTypeOK, ServerTypes, RestTypes, Overviews, Memos, Builds, Streams, Written,
       DashPages, Gets

LEMMA DashValues ==
    /\ 0 \in Overviews /\ 0 \in 0 .. OverviewTtl /\ Overviews \subseteq 0 .. Error
    /\ Error \in 0 .. Error /\ \A v \in 0 .. Error : v # Error => v \in Overviews
BY LiveDashboardAssumption DEF Overviews, Error

\* What becomes of the memo.
LEMMA MemoTypes ==
    ASSUME NEW m \in Memos
    PROVE  /\ MemoCleared(m) \in Memos /\ MemoFailed(m) \in Memos
           /\ MemoOlder(m, OverviewTtl) \in Memos
           /\ \A v \in Overviews : MemoFilled(m, v) \in Memos
           /\ \A b \in Builders : AfterAsking(b, m) \in Memos /\ Awaits(b, m) \subseteq Builders
<1>1. MemoOlder(m, OverviewTtl) \in Memos
  <2>1. CASE m.held /\ m.age < OverviewTtl
    <3>1. m.age + 1 \in 0 .. OverviewTtl
      BY <2>1, LiveDashboardAssumption DEF Memos
    <3>2. MemoOlder(m, OverviewTtl) = [m EXCEPT !.age = m.age + 1]
      BY <2>1 DEF MemoOlder
    <3> QED
      BY <3>1, <3>2 DEF Memos
  <2>2. CASE ~(m.held /\ m.age < OverviewTtl)
    BY <2>2 DEF MemoOlder
  <2> QED
    BY <2>1, <2>2
<1>2. /\ MemoCleared(m) \in Memos /\ MemoFailed(m) \in Memos
      /\ \A v \in Overviews : MemoFilled(m, v) \in Memos
  BY DashValues DEF Memos, MemoCleared, EmptyMemo, MemoFailed, MemoFilled
<1>3. ASSUME NEW b \in Builders PROVE AfterAsking(b, m) \in Memos /\ Awaits(b, m) \subseteq Builders
  BY <1>3 DEF Memos, AfterAsking, MemoSent, Awaits
<1> QED
  BY <1>1, <1>2, <1>3

LEMMA BuildTypes ==
    ASSUME NEW builds \in Builds, NEW b \in Builders, NEW m
    PROVE  /\ Starts(b, m, builds) \in Builds /\ [builds EXCEPT ![b] = NoBuild] \in Builds
           /\ builds[b].value \in Overviews
           /\ \A v \in Overviews : [builds EXCEPT ![b] = [pc |-> "read", value |-> v]] \in Builds
BY DashValues DEF Builds, Starts, NoBuild

LEMMA SendTypes ==
    ASSUME sse \in Streams, NEW m \in Memos, NEW builds \in Builds, NEW written \in Written,
           Send(m, builds, written)
    PROVE  ServerTypes'
<1>1. "stream" \in Builders
  BY DEF Builders
<1>2. CASE MemoFresh(m, OverviewTtl)
  <2>1. m.value \in 0 .. Error
    BY DashValues DEF Memos
  <2>2. Append(written, m.value) \in Written
    BY <2>1 DEF Written
  <2> QED
    <3>1. [open |-> TRUE, subscribed |-> TRUE, sending |-> {}, dirty |-> FALSE] \in Streams
      BY DEF Streams
    <3>2. /\ pushes' = Append(written, m.value) /\ memo' = m /\ build' = builds
          /\ sse' = [open |-> TRUE, subscribed |-> TRUE, sending |-> {}, dirty |-> FALSE]
      BY <1>2 DEF Send
    <3> QED
      BY <2>2, <3>1, <3>2 DEF ServerTypes
<1>3. CASE ~MemoFresh(m, OverviewTtl)
  <2>1. /\ AfterAsking("stream", m) \in Memos /\ Awaits("stream", m) \subseteq Builders
        /\ Starts("stream", m, builds) \in Builds
    BY <1>1, MemoTypes, BuildTypes
  <2>2. sse' \in Streams
    BY <1>3, <2>1 DEF Send, Streams
  <2> QED
    BY <1>3, <2>1, <2>2 DEF Send, ServerTypes
<1> QED
  BY <1>2, <1>3

LEMMA RefreshTypes ==
    ASSUME get \in Gets, memo \in Memos, build \in Builds, Refresh(memo, build)
    PROVE  get' \in Gets /\ memo' \in Memos /\ build' \in Builds
<1>1. "get" \in Builders
  BY DEF Builders
<1>2. /\ AfterAsking("get", memo) \in Memos /\ Awaits("get", memo) \subseteq Builders
      /\ Starts("get", memo, build) \in Builds /\ memo.value \in Overviews
  BY <1>1, MemoTypes, BuildTypes DEF Memos
<1>3. [get EXCEPT !.pc = "waits", !.on = Awaits("get", memo)] \in Gets
  BY <1>2 DEF Gets
<1>4. [pc |-> "answered", on |-> {}, answer |-> memo.value] \in Gets
  BY <1>2 DEF Gets
<1> QED
  BY <1>2, <1>3, <1>4 DEF Refresh

LEMMA DashTypesAtFirst == LiveDashboardInit => LiveDashboardTypeOK
<1> SUFFICES ASSUME LiveDashboardInit PROVE LiveDashboardTypeOK
  OBVIOUS
<1>1. ServerTypes
  BY DashValues DEF LiveDashboardInit, ServerTypes, Memos, EmptyMemo, Builds, NoBuild, Streams,
                    ClosedStream, Written
<1>2. RestTypes
  BY DashValues, LiveDashboardAssumption DEF LiveDashboardInit, RestTypes
<1>3. page \in DashPages /\ get \in Gets
  BY DashValues DEF LiveDashboardInit, DashPages, Gets
<1> QED
  BY <1>1, <1>2, <1>3, DashboardTypes

\* The steps of the server.
LEMMA ServerTypesStep ==
    ASSUME LiveDashboardTypeOK,
           Interval \/ EventHandled \/ EventMissed \/ NewsArrives \/ OverviewAges
    PROVE  LiveDashboardTypeOK'
<1>1. ServerTypes /\ RestTypes /\ page \in DashPages /\ get \in Gets
  BY DashboardTypes
<1>2. UNCHANGED <<page, get, breaks, hides>>
  BY DEF Interval, EventHandled, EventMissed, NewsArrives, OverviewAges
<1>3. RestTypes'
  <2>1. CASE NewsArrives
    <3>1. news' \in Overviews
      <4>1. news \in 0 .. MaxNews /\ news < MaxNews /\ news' = news + 1
        BY <1>1, <2>1 DEF RestTypes, NewsArrives, Overviews
      <4>2. MaxNews \in Nat
        BY LiveDashboardAssumption
      <4> QED
        BY <4>1, <4>2 DEF Overviews
    <3> QED
      BY <1>1, <1>2, <2>1, <3>1 DEF RestTypes, NewsArrives
  <2>2. CASE ~NewsArrives
    BY <1>1, <1>2, <2>2 DEF RestTypes, Interval, EventHandled, EventMissed, OverviewAges
  <2> QED
    BY <2>1, <2>2
<1>4. ServerTypes'
  <2>1. CASE Interval
    <3>1. CASE sse.sending # {}
      BY <1>1, <2>1, <3>1 DEF Interval, ServerTypes, Streams
    <3>2. CASE sse.sending = {}
      BY <1>1, <2>1, <3>2, SendTypes DEF Interval, ServerTypes
    <3> QED
      BY <3>1, <3>2
  <2>2. CASE EventHandled
    <3>1. MemoCleared(memo) \in Memos
      BY <1>1, MemoTypes DEF ServerTypes
    <3>2. CASE sse.subscribed /\ sse.sending = {}
      BY <1>1, <2>2, <3>1, <3>2, SendTypes DEF EventHandled, ServerTypes
    <3>3. CASE ~(sse.subscribed /\ sse.sending = {})
      BY <1>1, <2>2, <3>1, <3>3 DEF EventHandled, ServerTypes, Streams
    <3> QED
      BY <3>2, <3>3
  <2>3. CASE EventMissed \/ NewsArrives
    BY <1>1, <2>3 DEF EventMissed, NewsArrives, ServerTypes
  <2>4. CASE OverviewAges
    BY <1>1, <2>4, MemoTypes DEF OverviewAges, ServerTypes
  <2> QED
    BY <2>1, <2>2, <2>3, <2>4
<1> QED
  BY <1>1, <1>2, <1>3, <1>4, DashboardTypes

\* A build goes on, or ends.
LEMMA BuildTypesStep ==
    ASSUME LiveDashboardTypeOK, NEW b \in Builders, BuildReads(b) \/ BuildDone(b) \/ BuildFails(b)
    PROVE  LiveDashboardTypeOK'
<1>1. ServerTypes /\ RestTypes /\ page \in DashPages /\ get \in Gets
  BY DashboardTypes
<1>2. UNCHANGED <<news, heard, page, breaks, hides>>
  BY DEF BuildReads, BuildDone, BuildFails
<1>3. build[b].value \in Overviews /\ [build EXCEPT ![b] = NoBuild] \in Builds
  BY <1>1, BuildTypes DEF ServerTypes
<1>4. PushSent \in Streams
  BY <1>1 DEF PushSent, ServerTypes, Streams
<1>5. ASSUME NEW m \in Memos, NEW v \in 0 .. Error,
             IF b \notin sse.sending
             THEN memo' = m /\ build' = [build EXCEPT ![b] = NoBuild] /\ UNCHANGED <<sse, pushes>>
             ELSE IF sse.dirty
                  THEN Send(m, [build EXCEPT ![b] = NoBuild], Append(pushes, v))
                  ELSE /\ memo' = m /\ build' = [build EXCEPT ![b] = NoBuild]
                       /\ pushes' = Append(pushes, v) /\ sse' = PushSent
      PROVE  ServerTypes'
  <2>1. Append(pushes, v) \in Written
    BY <1>1, <1>5 DEF ServerTypes, Written
  <2>2. CASE b \notin sse.sending
    BY <1>1, <1>3, <1>5, <2>2 DEF ServerTypes
  <2>3. CASE b \in sse.sending /\ sse.dirty
    BY <1>1, <1>3, <1>5, <2>1, <2>3, SendTypes DEF ServerTypes
  <2>4. CASE b \in sse.sending /\ ~sse.dirty
    BY <1>3, <1>4, <1>5, <2>1, <2>4 DEF ServerTypes
  <2> QED
    BY <2>2, <2>3, <2>4
<1>6. ServerTypes'
  <2>1. CASE BuildReads(b)
    BY <1>1, <2>1, BuildTypes DEF BuildReads, ServerTypes, RestTypes
  <2>2. CASE BuildDone(b)
    <3>1. MemoFilled(memo, build[b].value) \in Memos /\ build[b].value \in 0 .. Error
      BY <1>1, <1>3, MemoTypes, DashValues DEF ServerTypes
    <3> QED
      BY <1>5, <2>2, <3>1 DEF BuildDone
  <2>3. CASE BuildFails(b)
    <3>1. MemoFailed(memo) \in Memos /\ Error \in 0 .. Error
      BY <1>1, MemoTypes, DashValues DEF ServerTypes
    <3> QED
      BY <1>5, <2>3, <3>1 DEF BuildFails
  <2> QED
    BY <2>1, <2>2, <2>3
<1>7. get' \in Gets
  <2>1. [pc |-> "answered", on |-> {}, answer |-> build[b].value] \in Gets
    BY <1>3 DEF Gets
  <2>2. [get EXCEPT !.pc = "none", !.on = {}] \in Gets
    BY <1>1 DEF Gets
  <2> QED
    BY <1>1, <2>1, <2>2 DEF BuildReads, BuildDone, BuildFails, GetAnswered
<1> QED
  <2>1. RestTypes'
    BY <1>1, <1>2 DEF RestTypes
  <2> QED
    BY <1>1, <1>2, <1>6, <1>7, <2>1, DashboardTypes

\* The steps of the page.
LEMMA PageTypesStep ==
    ASSUME LiveDashboardTypeOK,
           GetArrives \/ Connects \/ PushArrives \/ StreamBreaks \/ FallbackFires \/ PollFires
           \/ Hides \/ Shows
    PROVE  LiveDashboardTypeOK'
<1>1. ServerTypes /\ RestTypes /\ page \in DashPages /\ get \in Gets
  BY DashboardTypes
<1>2. RestTypes'
  <2>1. UNCHANGED <<news, heard>>
    BY DEF GetArrives, Connects, PushArrives, StreamBreaks, FallbackFires, PollFires, Hides, Shows
  <2>2. breaks' \in 0 .. MaxBreaks
    <3>1. UNCHANGED breaks \/ (breaks < MaxBreaks /\ breaks' = breaks + 1)
      BY DEF GetArrives, Connects, PushArrives, StreamBreaks, FallbackFires, PollFires, Hides, Shows
    <3>2. breaks \in 0 .. MaxBreaks
      BY <1>1 DEF RestTypes
    <3>3. MaxBreaks \in Nat
      BY LiveDashboardAssumption
    <3> QED
      BY <3>1, <3>2, <3>3
  <2>3. hides' \in 0 .. MaxHides
    <3>1. UNCHANGED hides \/ (hides < MaxHides /\ hides' = hides + 1)
      BY DEF GetArrives, Connects, PushArrives, StreamBreaks, FallbackFires, PollFires, Hides, Shows
    <3>2. hides \in 0 .. MaxHides
      BY <1>1 DEF RestTypes
    <3>3. MaxHides \in Nat
      BY LiveDashboardAssumption
    <3> QED
      BY <3>1, <3>2, <3>3
  <2> QED
    BY <1>1, <2>1, <2>2, <2>3 DEF RestTypes
<1>3. << >> \in Written /\ ClosedStream \in Streams
  BY DEF Written, ClosedStream, Streams
<1>4. \A after \in DashPages : DashGivesUp(after) => page' \in DashPages
  BY DEF DashGivesUp, DashPages
\* A stream that is given up, and the refresh that follows.
<1>5. ASSUME ServerCloses, pushes' = << >>, Refresh(memo, build) PROVE ServerTypes' /\ get' \in Gets
  BY <1>1, <1>3, <1>5, RefreshTypes DEF ServerCloses, ServerTypes
<1>6. ServerTypes' /\ page' \in DashPages /\ get' \in Gets
  <2>1. CASE GetArrives
    BY <1>1, <2>1, DashValues DEF GetArrives, ServerTypes, DashPages, Gets
  <2>2. CASE Connects
    <3>1. ServerTypes'
      BY <1>1, <1>3, <2>2, SendTypes DEF Connects, ServerTypes
    <3> QED
      BY <1>1, <2>2, <3>1 DEF Connects, DashPages
  <2>3. CASE PushArrives
    <3>1. Head(pushes) \in 0 .. Error /\ Tail(pushes) \in Written
      <4>1. pushes \in Seq(0 .. Error) /\ pushes # << >>
        BY <1>1, <2>3 DEF PushArrives, ServerTypes, Written
      <4>2. ASSUME NEW S, NEW q \in Seq(S), q # << >> PROVE Head(q) \in S /\ Tail(q) \in Seq(S)
        BY <4>2, HeadTailProperties
      <4> QED
        BY <4>1, <4>2 DEF Written
    <3>2. CASE Head(pushes) # Error
      <4>1. Head(pushes) \in Overviews
        BY <3>1, <3>2, DashValues
      <4>2. page' \in DashPages
        BY <1>1, <2>3, <3>2, <4>1 DEF PushArrives, DashPages
      <4> QED
        BY <1>1, <2>3, <3>1, <3>2, <4>2 DEF PushArrives, ServerTypes
    <3>3. CASE Head(pushes) = Error /\ page.received
      BY <1>1, <2>3, <3>1, <3>3 DEF PushArrives, ServerTypes
    <3>4. CASE Head(pushes) = Error /\ ~page.received
      BY <1>1, <1>4, <1>5, <2>3, <3>4 DEF PushArrives
    <3> QED
      BY <3>2, <3>3, <3>4
  <2>4. CASE StreamBreaks
    <3>1. [page EXCEPT !.es = "connecting"] \in DashPages
      BY <1>1 DEF DashPages
    <3>2. CASE page' = [page EXCEPT !.es = "connecting"] /\ UNCHANGED <<memo, build, get>>
      BY <1>1, <1>3, <2>4, <3>1, <3>2 DEF StreamBreaks, ServerCloses, ServerTypes
    <3>3. CASE DashGivesUp(page) /\ Refresh(memo, build)
      BY <1>1, <1>4, <1>5, <2>4, <3>3 DEF StreamBreaks
    <3> QED
      BY <2>4, <3>2, <3>3 DEF StreamBreaks
  <2>5. CASE FallbackFires
    <3>1. [page EXCEPT !.fallback = FALSE] \in DashPages
      BY <1>1 DEF DashPages
    <3> QED
      BY <1>1, <1>4, <1>5, <2>5, <3>1 DEF FallbackFires, ServerTypes
  <2>6. CASE PollFires
    BY <1>1, <2>6, RefreshTypes DEF PollFires, ServerTypes
  <2>7. CASE Hides
    BY <1>1, <2>7 DEF Hides, ServerTypes, DashPages
  <2>8. CASE Shows
    <3>1. get' \in Gets /\ memo' \in Memos /\ build' \in Builds
      BY <1>1, <2>8, RefreshTypes DEF Shows, ServerTypes
    <3> QED
      BY <1>1, <2>8, <3>1 DEF Shows, ServerTypes, DashPages
  <2> QED
    BY <2>1, <2>2, <2>3, <2>4, <2>5, <2>6, <2>7, <2>8
<1> QED
  BY <1>2, <1>6, DashboardTypes

LEMMA DashTypesStep == LiveDashboardTypeOK /\ [LiveDashboardNext]_dashVars => LiveDashboardTypeOK'
<1>1. ASSUME LiveDashboardTypeOK, UNCHANGED dashVars PROVE LiveDashboardTypeOK'
  <2>1. ServerTypes' /\ RestTypes' /\ page' \in DashPages /\ get' \in Gets
    BY <1>1, DashboardTypes DEF dashVars, ServerTypes, RestTypes
  <2> QED
    BY <2>1, DashboardTypes
<1> QED
  BY <1>1, ServerTypesStep, BuildTypesStep, PageTypesStep DEF LiveDashboardNext

\* The memo, the builds, the stream and the page keep their types, and an error event is never
\* taken for an overview (modules/dashboard/index.ts, use-dashboard.ts:18).
THEOREM DashboardTypesStay == LiveDashboardSpec => []LiveDashboardTypeOK
BY DashTypesAtFirst, DashTypesStep, PTL DEF LiveDashboardSpec

--------------------------------------------------------------------------------
\* Nobody waits in vain

\* All of the builders in B have a build under way.
Runs(builds, B) == \A b \in B : builds[b].pc # "none"

\* The page polls if it has given the stream up, has a stream that the server knows, or tries to
\* connect; until an overview has come the timer that gives up is set (use-dashboard.ts:90).
PageIsFed ==
    /\ page.es = "gone" <=> page.polling
    /\ page.es = "open" <=> sse.open
    /\ page.es # "gone" /\ ~page.received => page.fallback

\* An open stream has its interval and its events, or the first overview is on its way to it.
StreamIsFed ==
    /\ sse.open <=> sse.subscribed \/ sse.sending # {}
    /\ sse.dirty => sse.open

\* What somebody waits for is being put together.
AnswersCome ==
    /\ Runs(build, sse.sending) /\ Runs(build, get.on) /\ Runs(build, memo.by)
    /\ get.pc = "waits" <=> get.on # {}

NobodyWaitsInVain == PageIsFed /\ StreamIsFed /\ AnswersCome

\* Who asks starts a build or joins one that runs, and stops none.
LEMMA AskingServes ==
    ASSUME NEW m \in Memos, NEW builds \in Builds, NEW b \in Builders, Runs(builds, m.by)
    PROVE  /\ Runs(Starts(b, m, builds), Awaits(b, m)) /\ Awaits(b, m) # {}
           /\ ~MemoFresh(m, OverviewTtl) => Runs(Starts(b, m, builds), AfterAsking(b, m).by)
           /\ \A B \in SUBSET Builders : Runs(builds, B) => Runs(Starts(b, m, builds), B)
<1>1. CASE MemoShared(m, OverviewTtl)
  BY <1>1 DEF MemoShared, Starts, Awaits, AfterAsking
<1>2. CASE ~MemoShared(m, OverviewTtl)
  <2>1. Starts(b, m, builds) = [builds EXCEPT ![b] = [pc |-> "sent", value |-> 0]]
    BY <1>2 DEF Starts
  <2>2. \A c \in Builders : builds[c].pc # "none" => Starts(b, m, builds)[c].pc # "none"
    BY <2>1 DEF Builds
  <2>3. Starts(b, m, builds)[b].pc = "sent"
    BY <2>1 DEF Builds
  <2>4. Awaits(b, m) = {b} /\ AfterAsking(b, m).by = {b}
    BY <1>2 DEF Awaits, AfterAsking, MemoSent, Memos
  <2> QED
    BY <2>2, <2>3, <2>4 DEF Runs
<1> QED
  BY <1>1, <1>2

LEMMA SendServes ==
    ASSUME sse \in Streams, NEW m \in Memos, NEW builds \in Builds, NEW written,
           Runs(builds, m.by), Send(m, builds, written)
    PROVE  /\ sse'.open /\ (sse'.subscribed \/ sse'.sending # {}) /\ sse'.sending \subseteq Builders
           /\ Runs(build', sse'.sending) /\ Runs(build', memo'.by)
           /\ \A B \in SUBSET Builders : Runs(builds, B) => Runs(build', B)
<1>0. "stream" \in Builders
  BY DEF Builders
<1>1. CASE MemoFresh(m, OverviewTtl)
  <2>1. /\ sse' = [open |-> TRUE, subscribed |-> TRUE, sending |-> {}, dirty |-> FALSE]
        /\ memo' = m /\ build' = builds
    BY <1>1 DEF Send
  <2> QED
    BY <2>1 DEF Runs
<1>2. CASE ~MemoFresh(m, OverviewTtl)
  <2>1. /\ sse' = [sse EXCEPT !.open = TRUE, !.sending = Awaits("stream", m), !.dirty = FALSE]
        /\ memo' = AfterAsking("stream", m) /\ build' = Starts("stream", m, builds)
    BY <1>2 DEF Send
  <2>2. sse'.open /\ sse'.sending = Awaits("stream", m)
    BY <2>1 DEF Streams
  <2> QED
    BY <1>0, <1>2, <2>1, <2>2, AskingServes, MemoTypes
<1> QED
  BY <1>1, <1>2

LEMMA RefreshServes ==
    ASSUME get \in Gets, memo \in Memos, build \in Builds, AnswersCome, Refresh(memo, build)
    PROVE  /\ Runs(build', get'.on) /\ Runs(build', memo'.by)
           /\ get'.pc = "waits" <=> get'.on # {}
           /\ \A B \in SUBSET Builders : Runs(build, B) => Runs(build', B)
<1>0. "get" \in Builders
  BY DEF Builders
<1>1. CASE get' = get /\ memo' = memo /\ build' = build
  BY <1>1 DEF AnswersCome
<1>2. CASE /\ get' = [pc |-> "answered", on |-> {}, answer |-> memo.value]
           /\ memo' = memo /\ build' = build
  BY <1>2 DEF AnswersCome, Runs
<1>3. CASE /\ ~MemoFresh(memo, OverviewTtl)
           /\ get' = [get EXCEPT !.pc = "waits", !.on = Awaits("get", memo)]
           /\ memo' = AfterAsking("get", memo) /\ build' = Starts("get", memo, build)
  <2>1. get'.pc = "waits" /\ get'.on = Awaits("get", memo)
    BY <1>3 DEF Gets
  <2> QED
    BY <1>0, <1>3, <2>1, AskingServes DEF AnswersCome
<1> QED
  BY <1>1, <1>2, <1>3 DEF Refresh

LEMMA ServedAtFirst == LiveDashboardInit => NobodyWaitsInVain
BY DEF LiveDashboardInit, NobodyWaitsInVain, PageIsFed, StreamIsFed, AnswersCome, Runs,
       ClosedStream, EmptyMemo

\* The stream's steps.
LEMMA StreamServes ==
    ASSUME LiveDashboardTypeOK, NobodyWaitsInVain,
           Interval \/ EventHandled \/ EventMissed \/ NewsArrives \/ OverviewAges
    PROVE  NobodyWaitsInVain'
<1>1. ServerTypes /\ get \in Gets
  BY DashboardTypes
<1>2. sse \in Streams /\ memo \in Memos /\ build \in Builds
  BY <1>1 DEF ServerTypes
<1>3. UNCHANGED <<page, get>> /\ get.on \subseteq Builders
  BY <1>1 DEF Interval, EventHandled, EventMissed, NewsArrives, OverviewAges, Gets
<1>4. ASSUME sse.subscribed, NEW m \in Memos, Runs(build, m.by), Send(m, build, pushes)
      PROVE  NobodyWaitsInVain'
  <2>1. /\ sse'.open /\ (sse'.subscribed \/ sse'.sending # {})
        /\ Runs(build', sse'.sending) /\ Runs(build', memo'.by) /\ Runs(build', get.on)
    BY <1>2, <1>3, <1>4, SendServes DEF NobodyWaitsInVain, AnswersCome
  <2> QED
    BY <1>3, <1>4, <2>1 DEF NobodyWaitsInVain, PageIsFed, StreamIsFed, AnswersCome
<1>5. CASE Interval
  <2>1. CASE sse.sending # {}
    <3>1. /\ sse' = [sse EXCEPT !.dirty = TRUE] /\ UNCHANGED <<memo, build>>
      BY <1>5, <2>1 DEF Interval
    <3>2. sse'.open = sse.open /\ sse'.subscribed = sse.subscribed /\ sse'.sending = sse.sending
      BY <1>2, <3>1 DEF Streams
    <3> QED
      BY <1>3, <2>1, <3>1, <3>2 DEF NobodyWaitsInVain, PageIsFed, StreamIsFed, AnswersCome
  <2>2. CASE sse.sending = {}
    BY <1>2, <1>4, <1>5, <2>2 DEF Interval, NobodyWaitsInVain, AnswersCome
  <2> QED
    BY <2>1, <2>2
<1>6. CASE EventHandled
  <2>1. MemoCleared(memo) \in Memos /\ MemoCleared(memo).by = {}
    BY <1>2, MemoTypes DEF MemoCleared, EmptyMemo
  <2>2. CASE sse.subscribed /\ sse.sending = {}
    BY <1>4, <1>6, <2>1, <2>2 DEF EventHandled, Runs
  <2>3. CASE ~(sse.subscribed /\ sse.sending = {})
    <3>1. /\ memo' = MemoCleared(memo) /\ UNCHANGED build
          /\ sse' = [sse EXCEPT !.dirty = sse.subscribed]
      BY <1>6, <2>3 DEF EventHandled
    <3>2. /\ sse'.open = sse.open /\ sse'.subscribed = sse.subscribed /\ sse'.sending = sse.sending
          /\ sse'.dirty = sse.subscribed
      BY <1>2, <3>1 DEF Streams
    <3> QED
      BY <1>3, <2>1, <3>1, <3>2 DEF NobodyWaitsInVain, PageIsFed, StreamIsFed, AnswersCome, Runs
  <2> QED
    BY <2>2, <2>3
<1>7. CASE EventMissed \/ NewsArrives
  BY <1>3, <1>7 DEF EventMissed, NewsArrives, NobodyWaitsInVain, PageIsFed, StreamIsFed, AnswersCome
<1>8. CASE OverviewAges
  <2>1. memo'.by = memo.by /\ UNCHANGED <<build, sse>>
    BY <1>2, <1>8 DEF OverviewAges, MemoOlder, Memos
  <2> QED
    BY <1>3, <2>1 DEF NobodyWaitsInVain, PageIsFed, StreamIsFed, AnswersCome
<1> QED
  BY <1>5, <1>6, <1>7, <1>8

\* A build goes on, or ends: then nobody waits for it any more.
LEMMA BuildServes ==
    ASSUME LiveDashboardTypeOK, NobodyWaitsInVain, NEW b \in Builders,
           BuildReads(b) \/ BuildDone(b) \/ BuildFails(b)
    PROVE  NobodyWaitsInVain'
<1>1. ServerTypes /\ get \in Gets
  BY DashboardTypes
<1>2. sse \in Streams /\ memo \in Memos /\ build \in Builds
  BY <1>1 DEF ServerTypes
<1>3. UNCHANGED page
  BY DEF BuildReads, BuildDone, BuildFails
<1>4. /\ sse.sending \subseteq Builders /\ get.on \subseteq Builders
      /\ Runs(build, sse.sending) /\ Runs(build, get.on)
  BY <1>1, <1>2 DEF Streams, Gets, NobodyWaitsInVain, AnswersCome
<1>5. CASE BuildReads(b)
  <2>1. \A c \in Builders : build[c].pc # "none" => build'[c].pc # "none"
    BY <1>2, <1>5 DEF BuildReads, Builds
  <2>2. UNCHANGED <<memo, sse, get>> /\ memo.by \subseteq Builders
    BY <1>2, <1>5 DEF BuildReads, Memos
  <2> QED
    BY <1>3, <1>4, <2>1, <2>2 DEF NobodyWaitsInVain, PageIsFed, StreamIsFed, AnswersCome, Runs
<1>6. ASSUME NEW m \in Memos, m.by = {}, NEW v,
             IF b \notin sse.sending
             THEN memo' = m /\ build' = [build EXCEPT ![b] = NoBuild] /\ UNCHANGED <<sse, pushes>>
             ELSE IF sse.dirty
                  THEN Send(m, [build EXCEPT ![b] = NoBuild], Append(pushes, v))
                  ELSE /\ memo' = m /\ build' = [build EXCEPT ![b] = NoBuild]
                       /\ pushes' = Append(pushes, v) /\ sse' = PushSent,
             b \in get.on => get'.on = {} /\ get'.pc # "waits",
             b \notin get.on => get' = get
      PROVE  NobodyWaitsInVain'
  <2> DEFINE done == [build EXCEPT ![b] = NoBuild]
  <2>1. done \in Builds /\ \A c \in Builders \ {b} : done[c] = build[c]
    BY <1>2, BuildTypes DEF Builds
  <2>2. /\ get'.on \subseteq Builders /\ Runs(done, get'.on)
        /\ get'.pc = "waits" <=> get'.on # {}
    BY <1>4, <1>6, <2>1 DEF NobodyWaitsInVain, AnswersCome, Runs
  <2>3. Runs(done, m.by) /\ Runs(done, {})
    BY <1>6 DEF Runs
  <2> HIDE DEF done
  <2>4. CASE b \notin sse.sending
    <3>1. Runs(done, sse.sending)
      BY <1>4, <2>1, <2>4 DEF Runs
    <3> QED
      BY <1>3, <1>6, <2>2, <2>3, <2>4, <3>1
      DEF NobodyWaitsInVain, PageIsFed, StreamIsFed, AnswersCome, done
  <2>5. CASE b \in sse.sending /\ sse.dirty
    <3>1. Send(m, done, Append(pushes, v))
      BY <1>6, <2>5 DEF done
    <3>2. /\ sse'.open /\ (sse'.subscribed \/ sse'.sending # {})
          /\ Runs(build', sse'.sending) /\ Runs(build', memo'.by)
          /\ \A B \in SUBSET Builders : Runs(done, B) => Runs(build', B)
      BY <1>2, <2>1, <2>3, <3>1, SendServes
    <3> QED
      BY <1>3, <2>2, <2>5, <3>2 DEF NobodyWaitsInVain, PageIsFed, StreamIsFed, AnswersCome
  <2>6. CASE b \in sse.sending /\ ~sse.dirty
    <3>1. memo' = m /\ build' = done /\ sse' = [sse EXCEPT !.sending = {}, !.subscribed = TRUE]
      BY <1>6, <2>6 DEF done, PushSent
    <3>2. sse'.open = sse.open /\ sse'.subscribed /\ sse'.sending = {} /\ sse'.dirty = sse.dirty
      BY <1>2, <3>1 DEF Streams
    <3> QED
      BY <1>3, <2>2, <2>3, <2>6, <3>1, <3>2
      DEF NobodyWaitsInVain, PageIsFed, StreamIsFed, AnswersCome
  <2> QED
    BY <2>4, <2>5, <2>6
<1>7. CASE BuildDone(b)
  <2>1. MemoFilled(memo, build[b].value) \in Memos /\ MemoFilled(memo, build[b].value).by = {}
    BY <1>2, BuildTypes, MemoTypes DEF MemoFilled
  <2>2. /\ b \in get.on => get'.on = {} /\ get'.pc # "waits"
        /\ b \notin get.on => get' = get
    BY <1>7 DEF BuildDone, GetAnswered
  <2> QED
    BY <1>6, <1>7, <2>1, <2>2 DEF BuildDone
<1>8. CASE BuildFails(b)
  <2>1. MemoFailed(memo) \in Memos /\ MemoFailed(memo).by = {}
    BY <1>2, MemoTypes DEF MemoFailed, Memos
  <2>2. /\ b \in get.on => get'.on = {} /\ get'.pc # "waits"
        /\ b \notin get.on => get' = get
    BY <1>1, <1>8 DEF BuildFails, Gets
  <2> QED
    BY <1>6, <1>8, <2>1, <2>2 DEF BuildFails
<1> QED
  BY <1>5, <1>7, <1>8

\* The page's steps.
LEMMA PageServes ==
    ASSUME LiveDashboardTypeOK, NobodyWaitsInVain,
           GetArrives \/ Connects \/ PushArrives \/ StreamBreaks \/ FallbackFires \/ PollFires
           \/ Hides \/ Shows
    PROVE  NobodyWaitsInVain'
<1>1. ServerTypes /\ page \in DashPages /\ get \in Gets
  BY DashboardTypes
<1>2. sse \in Streams /\ memo \in Memos /\ build \in Builds
  BY <1>1 DEF ServerTypes
<1>3. /\ sse.sending \subseteq Builders /\ get.on \subseteq Builders
      /\ Runs(build, sse.sending) /\ Runs(build, get.on) /\ Runs(build, memo.by) /\ AnswersCome
  BY <1>1, <1>2 DEF Streams, Gets, NobodyWaitsInVain, AnswersCome
\* The stream is given up.
<1>4. ASSUME NEW after \in DashPages, DashGivesUp(after), ServerCloses, Refresh(memo, build)
      PROVE  NobodyWaitsInVain'
  <2>1. page'.es = "gone" /\ page'.polling
    BY <1>4 DEF DashGivesUp, DashPages
  <2>2. sse' = ClosedStream
    BY <1>4 DEF ServerCloses
  <2>3. /\ Runs(build', get'.on) /\ Runs(build', memo'.by)
        /\ get'.pc = "waits" <=> get'.on # {}
    BY <1>1, <1>2, <1>3, <1>4, RefreshServes
  <2> QED
    BY <2>1, <2>2, <2>3
    DEF NobodyWaitsInVain, PageIsFed, StreamIsFed, AnswersCome, ClosedStream, Runs
\* The page asks, and nothing else of its changes that counts.
<1>5. ASSUME Refresh(memo, build), UNCHANGED sse, page'.es = page.es,
             page'.polling = page.polling, page'.received = page.received,
             page'.fallback = page.fallback
      PROVE  NobodyWaitsInVain'
  <2>1. /\ Runs(build', get'.on) /\ Runs(build', memo'.by) /\ Runs(build', sse.sending)
        /\ get'.pc = "waits" <=> get'.on # {}
    BY <1>1, <1>2, <1>3, <1>5, RefreshServes
  <2> QED
    BY <1>5, <2>1 DEF NobodyWaitsInVain, PageIsFed, StreamIsFed, AnswersCome
\* The stream and the builds stay.
<1>6. ASSUME UNCHANGED <<sse, memo, build, get>>, PageIsFed' PROVE NobodyWaitsInVain'
  BY <1>6 DEF NobodyWaitsInVain, StreamIsFed, AnswersCome
<1>7. CASE GetArrives
  <2>1. /\ UNCHANGED <<sse, memo, build>> /\ get'.on = {} /\ get'.pc = "none"
        /\ page' = [page EXCEPT !.shown = get.answer]
    BY <1>7 DEF GetArrives
  <2>2. /\ page'.es = page.es /\ page'.polling = page.polling /\ page'.received = page.received
        /\ page'.fallback = page.fallback
    BY <1>1, <2>1 DEF DashPages
  <2> QED
    BY <2>1, <2>2 DEF NobodyWaitsInVain, PageIsFed, StreamIsFed, AnswersCome, Runs
<1>8. CASE Connects
  <2>1. /\ UNCHANGED get /\ page' = [page EXCEPT !.es = "open"] /\ page.es = "connecting"
        /\ Send(memo, build, << >>)
    BY <1>8 DEF Connects
  <2>2. /\ page'.es = "open" /\ page'.polling = page.polling /\ page'.received = page.received
        /\ page'.fallback = page.fallback
    BY <1>1, <2>1 DEF DashPages
  <2>3. /\ sse'.open /\ (sse'.subscribed \/ sse'.sending # {})
        /\ Runs(build', sse'.sending) /\ Runs(build', memo'.by) /\ Runs(build', get.on)
    BY <1>2, <1>3, <2>1, SendServes
  <2> QED
    BY <2>1, <2>2, <2>3 DEF NobodyWaitsInVain, PageIsFed, StreamIsFed, AnswersCome
<1>9. CASE PushArrives
  <2>1. CASE Head(pushes) # Error
    <3>1. /\ page' = [page EXCEPT !.shown = Head(pushes), !.received = TRUE, !.polling = FALSE]
          /\ UNCHANGED <<sse, memo, build, get>> /\ page.es = "open"
      BY <1>9, <2>1 DEF PushArrives
    <3>2. page'.es = page.es /\ page'.received /\ ~page'.polling
      BY <1>1, <3>1 DEF DashPages
    <3> QED
      BY <1>6, <3>1, <3>2 DEF NobodyWaitsInVain, PageIsFed
  <2>2. CASE Head(pushes) = Error /\ page.received
    BY <1>6, <1>9, <2>2 DEF PushArrives, NobodyWaitsInVain, PageIsFed
  <2>3. CASE Head(pushes) = Error /\ ~page.received
    BY <1>1, <1>4, <1>9, <2>3 DEF PushArrives
  <2> QED
    BY <2>1, <2>2, <2>3
<1>10. CASE StreamBreaks
  <2>1. CASE /\ page.received /\ page' = [page EXCEPT !.es = "connecting"]
             /\ UNCHANGED <<memo, build, get>>
    <3>1. sse' = ClosedStream /\ page.es # "gone"
      BY <1>10 DEF StreamBreaks, ServerCloses
    <3>2. /\ page'.es = "connecting" /\ page'.polling = page.polling
          /\ page'.received = page.received
      BY <1>1, <2>1 DEF DashPages
    <3> QED
      BY <2>1, <3>1, <3>2
      DEF NobodyWaitsInVain, PageIsFed, StreamIsFed, AnswersCome, ClosedStream, Runs
  <2>2. CASE DashGivesUp(page) /\ Refresh(memo, build)
    BY <1>1, <1>4, <1>10, <2>2 DEF StreamBreaks
  <2> QED
    BY <1>10, <2>1, <2>2 DEF StreamBreaks
<1>11. CASE FallbackFires
  <2>1. CASE page.received
    <3>1. page' = [page EXCEPT !.fallback = FALSE] /\ UNCHANGED <<sse, memo, build, get>>
      BY <1>11, <2>1 DEF FallbackFires
    <3>2. page'.es = page.es /\ page'.polling = page.polling /\ page'.received = page.received
      BY <1>1, <3>1 DEF DashPages
    <3> QED
      BY <1>6, <2>1, <3>1, <3>2 DEF NobodyWaitsInVain, PageIsFed
  <2>2. CASE ~page.received
    <3>1. [page EXCEPT !.fallback = FALSE] \in DashPages
      BY <1>1 DEF DashPages
    <3> QED
      BY <1>4, <1>11, <2>2, <3>1 DEF FallbackFires
  <2> QED
    BY <2>1, <2>2
<1>12. CASE PollFires
  BY <1>5, <1>12 DEF PollFires
<1>13. CASE Hides
  <2>1. page' = [page EXCEPT !.visible = FALSE] /\ UNCHANGED <<sse, memo, build, get>>
    BY <1>13 DEF Hides
  <2>2. /\ page'.es = page.es /\ page'.polling = page.polling /\ page'.received = page.received
        /\ page'.fallback = page.fallback
    BY <1>1, <2>1 DEF DashPages
  <2> QED
    BY <1>6, <2>1, <2>2 DEF NobodyWaitsInVain, PageIsFed
<1>14. CASE Shows
  <2>1. page' = [page EXCEPT !.visible = TRUE] /\ Refresh(memo, build) /\ UNCHANGED sse
    BY <1>14 DEF Shows
  <2>2. /\ page'.es = page.es /\ page'.polling = page.polling /\ page'.received = page.received
        /\ page'.fallback = page.fallback
    BY <1>1, <2>1 DEF DashPages
  <2> QED
    BY <1>5, <2>1, <2>2
<1> QED
  BY <1>7, <1>8, <1>9, <1>10, <1>11, <1>12, <1>13, <1>14

LEMMA ServingStands ==
    LiveDashboardTypeOK /\ NobodyWaitsInVain /\ [LiveDashboardNext]_dashVars => NobodyWaitsInVain'
<1>1. ASSUME NobodyWaitsInVain, UNCHANGED dashVars PROVE NobodyWaitsInVain'
  BY <1>1 DEF dashVars, NobodyWaitsInVain, PageIsFed, StreamIsFed, AnswersCome
<1> QED
  BY <1>1, StreamServes, BuildServes, PageServes DEF LiveDashboardNext

\* Whatever is refused, missed, cleared or breaks, in any order: the page never stands still with
\* nobody to feed it. It polls, or has an open stream at the server that is fed, or connects, and
\* nothing waits for an overview that is not being put together. That is the safety half of
\* DashboardCatchesUp (startPolling and onerror, use-dashboard.ts:59, 96, and send,
\* modules/dashboard/index.ts).
THEOREM PageIsServed == LiveDashboardSpec => []NobodyWaitsInVain
BY ServedAtFirst, ServingStands, DashboardTypesStay, PTL DEF LiveDashboardSpec

--------------------------------------------------------------------------------
\* The two together

\* A behaviour of one of them is, for the other, one in which nothing happens.
THEOREM BrowserIsItsParts == BrowserSpec => HomeSpec /\ LiveDashboardSpec
<1>1. BrowserInit => HomeInit /\ LiveDashboardInit
  BY DEF BrowserInit
<1>2. [BrowserNext]_browserVars => [HomeNext]_homeVars /\ [LiveDashboardNext]_dashVars
  BY DEF BrowserNext, browserVars
<1> QED
  BY <1>1, <1>2, PTL DEF BrowserSpec, HomeSpec, LiveDashboardSpec

\* All of their state keeps its types, for any number of pages, edits and changes
\* (home-layout-save.ts:18, use-dashboard.ts:18).
THEOREM BrowserTypesStay == BrowserSpec => []BrowserTypeOK
<1>1. BrowserInit => part \in Parts
  BY DEF BrowserInit
<1>2. part \in Parts /\ [BrowserNext]_browserVars => (part \in Parts)'
  BY DEF BrowserNext, browserVars
<1>3. part \in Parts /\ HomeTypeOK /\ LiveDashboardTypeOK => BrowserTypeOK
  BY DEF BrowserTypeOK
<1>4. BrowserSpec => [](part \in Parts)
  BY <1>1, <1>2, PTL DEF BrowserSpec
<1> QED
  BY <1>3, <1>4, BrowserIsItsParts, HomeTypesStay, DashboardTypesStay, PTL

\* Together, too, no edit is lost or taken for saved as long as the loading effect does not run
\* over an unsaved one, and nobody waits in vain
\* (home-layout-save.ts:18, use-dashboard.ts:59).
COROLLARY BrowserHolds ==
    ASSUME ~DirtyEffects
    PROVE  BrowserSpec => EditsHold /\ []NobodyWaitsInVain
BY BrowserIsItsParts, EditsAreSafe, PageIsServed, PTL
================================================================================
