------------------------------ MODULE ImageUpdates ------------------------------
(***************************************************************************)
(* UpdatesService for one container name: checking its image against the   *)
(* registry (checkAll), and applying an update (applyUpdate): pull, move   *)
(* the tag, recreate, wait for health, roll back or refresh the cached     *)
(* row.  A container that is recreated gets a new id, and the cached rows  *)
(* and the in-flight guard are keyed by id.                                *)
(*                                                                         *)
(* A digest is a number: the registry publishes 1, 2, ... under the tag.   *)
(* An image reference is Tag, or the number of the digest it is pinned to. *)
(***************************************************************************)
EXTENDS Naturals, FiniteSets

CONSTANTS
    Applies,        \* calls of applyUpdate
    Checks,         \* calls of checkAll, and prunes by listCached
    Objects,        \* UpdatesService objects
    Kinds,          \* of "service", "project", "standalone": how it may be recreated
    MaxDigest,      \* bound: digests the registry publishes
    ApplyFaults     \* BOOLEAN: inspecting, pulling and recreating may fail

ASSUME AppliesAssumption == IsFiniteSet(Applies) /\ MaxDigest \in Nat \ {0}

Tag == 0
NoDigest == 0
NoId == 0
\* Every apply makes at most two containers.
Ids == 1 .. 1 + 2 * Cardinality(Applies)
Digests == 1 .. MaxDigest

VARIABLES
    remote,         \* what the tag names at the registry
    tag,            \* what the tag names on the host
    container,      \* the container of that name: id, image reference, digest it runs
    lastId,         \* the last container id given out
    rows,           \* UpdateCheckCache, one row per id
    applyInFlight,  \* [Objects -> SUBSET Ids]
    apply,          \* the local state of each applyUpdate
    check,          \* the local state of each checkAll
    overlapped      \* history: the calls that were under way together with another

vars == <<remote, tag, container, lastId, rows, applyInFlight, apply, check, overlapped>>

Row == [id : Ids, image : {Tag} \cup Digests, current : {NoDigest} \cup Digests,
        remote : {NoDigest} \cup Digests, available : BOOLEAN]
NoRow == [id |-> NoId]
Container == [id : {NoId} \cup Ids, image : {Tag} \cup Digests, digest : Digests]

\* What a checkContainer has read when it asks the registry: the container, its
\* image on the host, and the remote digest of the previous row.
Look == [seen : Container \cup {NoRow}, local : {NoDigest} \cup Digests,
         previous : {NoDigest} \cup Digests]
NoLook == [seen |-> NoRow, local |-> NoDigest, previous |-> NoDigest]

ApplyLabels == {"idle", "read", "pull", "recreate", "create", "health", "refresh", "write",
                "forget", "tidy", "rbPull", "rbRecreate", "rbCreate", "rbEnd", "done"}
CheckLabels == {"idle", "inspect", "write", "prune", "done"}

TypeOK ==
    /\ remote \in Digests /\ tag \in Digests /\ container \in Container /\ lastId \in Ids
    /\ rows \subseteq Row /\ \A r, q \in rows : r.id = q.id => r = q
    /\ applyInFlight \in [Objects -> SUBSET Ids]
    /\ apply \in [Applies -> [pc : ApplyLabels, obj : Objects, target : {NoId} \cup Ids,
                    row : Row \cup {NoRow}, kind : Kinds \cup {"standalone"}, look : Look,
                    before : {NoDigest} \cup Digests,
                    result : {"none", "busy", "failed", "ok", "rolledBack", "rollbackFailed"}]]
    /\ check \in [Checks -> [pc : CheckLabels, look : Look]]
    /\ overlapped \subseteq Applies

\* A container runs the first digest, and a first check has been made of it.
Init ==
    /\ remote = 1 /\ tag = 1 /\ lastId = 1
    /\ container = [id |-> 1, image |-> Tag, digest |-> 1]
    /\ rows = {[id |-> 1, image |-> Tag, current |-> 1, remote |-> 1, available |-> FALSE]}
    /\ applyInFlight = [o \in Objects |-> {}]
    /\ \E kind \in Kinds :
         apply \in [Applies -> [pc : {"idle"}, obj : Objects, target : {NoId}, row : {NoRow},
                      kind : {kind}, look : {NoLook}, before : {NoDigest}, result : {"none"}]]
    /\ check = [k \in Checks |-> [pc |-> "idle", look |-> NoLook]]
    /\ overlapped = {}

\* Somebody pushes a new image under the tag.
Publish ==
    /\ remote < MaxDigest
    /\ remote' = remote + 1
    /\ UNCHANGED <<tag, container, lastId, rows, applyInFlight, apply, check, overlapped>>

--------------------------------------------------------------------------------
\* The cached rows

RowOf(i) == IF \E r \in rows : r.id = i THEN CHOOSE r \in rows : r.id = i ELSE NoRow
Without(i) == {r \in rows : r.id # i}

\* checkContainer up to the registry request; its image may not be found on the host.
LookAt(c, found) ==
             [seen |-> c,
              local |-> IF c.id = NoId \/ ~ found THEN NoDigest
                        ELSE IF c.image = Tag THEN tag ELSE c.image,
              previous |-> IF RowOf(c.id) = NoRow THEN NoDigest ELSE RowOf(c.id).remote]

\* mergeRemoteCheck, and checkContainer's upsert: a failed or rate limited fetch
\* keeps the digest of the previous row.
Checked(look, fetched) ==
    LET rd == IF fetched THEN remote ELSE look.previous
    IN  {[id |-> look.seen.id, image |-> look.seen.image, current |-> look.local,
          remote |-> rd,
          available |-> NoDigest \notin {look.local, rd} /\ look.local # rd]}
          \cup Without(look.seen.id)

--------------------------------------------------------------------------------
\* checkAll, and pruneStaleCache

OnlyCheck == UNCHANGED <<remote, tag, container, lastId, applyInFlight, apply, overlapped>>

\* The containers are listed; listCached goes on with pruning.
CheckList(k) ==
    /\ check[k].pc = "idle"
    /\ \E next \in {"inspect", "prune"} :
         check' = [check EXCEPT ![k] = [pc |-> IF container.id = NoId THEN "prune" ELSE next,
                                        look |-> [NoLook EXCEPT !.seen = container]]]
    /\ OnlyCheck /\ UNCHANGED rows

CheckInspect(k) ==
    /\ check[k].pc = "inspect"
    /\ \E found \in BOOLEAN :
         check' = [check EXCEPT ![k] = [pc |-> "write", look |-> LookAt(@.look.seen, found)]]
    /\ OnlyCheck /\ UNCHANGED rows

\* The registry answers, is rate limited, or fails.
CheckWrite(k) ==
    /\ check[k].pc = "write"
    /\ check' = [check EXCEPT ![k].pc = "prune"]
    /\ \E fetched \in BOOLEAN : rows' = Checked(check[k].look, fetched)
    /\ OnlyCheck

\* pruneStaleCache: the rows of ids that were not listed go, and of the rows of
\* one name all but the newest.  (The host has other containers, so the list of
\* ids is never empty.)
CheckPrune(k) ==
    /\ check[k].pc = "prune"
    /\ check' = [check EXCEPT ![k].pc = "done"]
    /\ rows' = {r \in rows : r.id = check[k].look.seen.id}
    /\ OnlyCheck

--------------------------------------------------------------------------------
\* applyUpdate

At(a, label) == apply[a].pc = label
Goto(a, label) == apply' = [apply EXCEPT ![a].pc = label]

InFlight(a) == apply[a].pc \notin {"idle", "done"}

\* The calls that are under way together once a is accepted.
Meeting(a) == LET others == {b \in Applies : InFlight(b)}
              IN  IF others = {} THEN {} ELSE others \cup {a}

Return(a, result) ==
    /\ apply' = [apply EXCEPT ![a] = [apply[a] EXCEPT !.pc = "done", !.result = result]]
    /\ applyInFlight' = [applyInFlight EXCEPT ![apply[a].obj] = @ \ {apply[a].target}]

\* Mutated form: the guard looks at the set but the id is never put in.
ApplyCallUnmarked(a) ==
    /\ At(a, "idle")
    /\ \E r \in rows :
         /\ r.id \notin applyInFlight[apply[a].obj]
         /\ apply' = [apply EXCEPT ![a] = [apply[a] EXCEPT !.pc = "read", !.target = r.id]]
         /\ overlapped' = overlapped \cup Meeting(a)
         /\ UNCHANGED applyInFlight
    /\ UNCHANGED <<remote, tag, container, lastId, rows, check>>

\* A user, or the image_update job, picks a row; the check and the mark of the
\* in-flight guard are one synchronous step.
ApplyCall(a) ==
    /\ At(a, "idle")
    /\ \E id \in {r.id : r \in rows} :
         IF id \in applyInFlight[apply[a].obj]
         THEN /\ apply' = [apply EXCEPT ![a] = [apply[a] EXCEPT !.pc = "done", !.target = id,
                                                                !.result = "busy"]]
              /\ UNCHANGED <<applyInFlight, overlapped>>
         ELSE /\ apply' = [apply EXCEPT ![a] = [apply[a] EXCEPT !.pc = "read", !.target = id]]
              /\ applyInFlight' = [applyInFlight EXCEPT ![apply[a].obj] = @ \cup {id}]
              /\ overlapped' = overlapped \cup Meeting(a)
    /\ UNCHANGED <<remote, tag, container, lastId, rows, check>>

\* The row is read, then the container is inspected: one that is gone, or whose
\* inspection fails, is taken for a standalone container. Listing the projects may fail.
ApplyRead(a) ==
    /\ At(a, "read")
    /\ LET row == RowOf(apply[a].target) IN
       IF row # NoRow /\ row.available
       THEN \/ /\ \E kind \in {apply[a].kind, "standalone"} :
                    /\ kind # apply[a].kind => ApplyFaults \/ container.id # apply[a].target
                    /\ kind # "standalone" => container.id = apply[a].target
                    /\ apply' = [apply EXCEPT ![a] = [apply[a] EXCEPT !.pc = "pull", !.row = row,
                                                                      !.kind = kind]]
               /\ UNCHANGED applyInFlight
            \/ ApplyFaults /\ Return(a, "failed")
       ELSE Return(a, "failed")
    /\ UNCHANGED <<remote, tag, container, lastId, rows, check, overlapped>>

\* Mutated form: the digest is pulled but the tag stays where it was.
ApplyPullUntagged(a) ==
    /\ At(a, "pull")
    /\ Goto(a, "recreate")
    /\ UNCHANGED <<remote, tag, container, lastId, rows, applyInFlight, check, overlapped>>

\* The recorded digest is pulled and tagged.  If that pull fails the tag is
\* pulled, which helps only if it still names the recorded digest; a pinned
\* reference is pulled as it is.
ApplyPull(a) ==
    /\ At(a, "pull")
    /\ \/ /\ tag' = IF apply[a].row.image = Tag THEN apply[a].row.remote ELSE tag
          /\ Goto(a, "recreate") /\ UNCHANGED applyInFlight
       \/ /\ ApplyFaults /\ Return(a, "failed")
          /\ tag' \in {tag, IF apply[a].row.image = Tag THEN remote ELSE tag}
    /\ UNCHANGED <<remote, container, lastId, rows, check, overlapped>>

\* The container that an image reference makes.
Made(image) == [id |-> lastId + 1, image |-> image,
                digest |-> IF image = Tag THEN tag ELSE image]
Lost == [container EXCEPT !.id = NoId]

\* Recreating from `image`.  A Compose service or project replaces whatever has
\* the name, and a failing `up` may lose it.  Standalone, the container with the
\* given id, which must be there, is removed, and its successor is created in a
\* second step.
Recreate(a, id, image, create, next, failed, faults) ==
    \/ /\ apply[a].kind # "standalone"
       /\ container' = Made(IF apply[a].kind = "project" THEN Tag ELSE image)
       /\ lastId' = lastId + 1
       /\ Goto(a, next) /\ UNCHANGED applyInFlight
    \/ /\ apply[a].kind # "standalone" /\ faults
       /\ container' \in {container, Lost} /\ UNCHANGED lastId
       /\ Return(a, failed)
    \/ /\ apply[a].kind = "standalone" /\ container.id = id /\ id # NoId
       /\ container' = Lost /\ UNCHANGED lastId
       /\ Goto(a, create) /\ UNCHANGED applyInFlight
    \/ /\ apply[a].kind = "standalone" /\ (container.id # id \/ faults)
       /\ UNCHANGED <<container, lastId>>
       /\ Return(a, failed)

\* Mutated form: a leftover is removed and creating is tried again without end.
CreateForever(a, image, next, failed, faults) ==
    /\ container' = Made(image) /\ lastId' = lastId + 1
    /\ Goto(a, next) \/ (faults /\ UNCHANGED apply)
    /\ UNCHANGED applyInFlight

\* createContainer and start, up to three times; another container may have
\* taken the name meanwhile, and one that does not start is left behind.
Create(a, image, next, failed, faults) ==
    \/ /\ container.id = NoId
       /\ container' = Made(image) /\ lastId' = lastId + 1
       /\ \/ Goto(a, next) /\ UNCHANGED applyInFlight
          \/ faults /\ Return(a, failed)
    \/ /\ faults \/ container.id # NoId
       /\ UNCHANGED <<container, lastId>>
       /\ Return(a, failed)

\* The history component `before` keeps what ran before.
ApplyBegin(a) ==
    /\ At(a, "recreate") /\ apply[a].before = NoDigest
    /\ apply' = [apply EXCEPT ![a].before = container.digest]
    /\ UNCHANGED <<remote, tag, container, lastId, rows, applyInFlight, check, overlapped>>

ApplyRecreate(a) ==
    /\ \/ /\ At(a, "recreate") /\ apply[a].before # NoDigest
          /\ Recreate(a, apply[a].target, apply[a].row.image, "create", "health", "failed",
                      ApplyFaults)
       \/ /\ At(a, "create")
          /\ Create(a, apply[a].row.image, "health", "failed", ApplyFaults)
    /\ UNCHANGED <<remote, tag, rows, check, overlapped>>

\* Mutated form: polling has no deadline, and an answer may never come.
ApplyHealthForever(a) ==
    /\ At(a, "health")
    /\ \/ container.id # NoId /\ Goto(a, "refresh")
       \/ apply' = [apply EXCEPT ![a].look = IF @ = NoLook THEN LookAt(container, TRUE)
                                                    ELSE NoLook]
    /\ UNCHANGED <<remote, tag, container, lastId, rows, applyInFlight, check, overlapped>>

\* waitForContainerHealthy polls the container of that name until it is healthy,
\* unhealthy, or 90 s have passed.
ApplyHealth(a) ==
    /\ At(a, "health")
    /\ \/ container.id # NoId /\ Goto(a, "refresh")
       \/ Goto(a, "rbPull")
    /\ UNCHANGED <<remote, tag, container, lastId, rows, applyInFlight, check, overlapped>>

\* The row is refreshed: the container is looked up and checked ...
ApplyRefresh(a) ==
    /\ At(a, "refresh")
    /\ \E found \in BOOLEAN :
         apply' = [apply EXCEPT ![a] =
                     [apply[a] EXCEPT !.pc = "write", !.look = LookAt(container, found)]]
    /\ UNCHANGED <<remote, tag, container, lastId, rows, applyInFlight, check, overlapped>>

\* The row of the container that was to be updated, if there is one, offers nothing any more.
Withdrawn(i) ==
    IF RowOf(i) = NoRow THEN rows ELSE {[RowOf(i) EXCEPT !.available = FALSE]} \cup Without(i)

\* ... and its row is written. If the container is not found, or anything fails, its old row
\* offers nothing any more, or that fails as well.
ApplyWrite(a) ==
    /\ At(a, "write")
    /\ LET look == apply[a].look IN
       \/ /\ look.seen.id # NoId
          /\ \E fetched \in BOOLEAN : rows' = Checked(look, fetched)
          /\ Goto(a, IF look.seen.id = apply[a].target THEN "tidy" ELSE "forget")
       \/ /\ look.seen.id = NoId \/ ApplyFaults
          /\ \/ rows' = Withdrawn(apply[a].target)
             \/ ApplyFaults /\ UNCHANGED rows
          /\ Goto(a, "tidy")
    /\ UNCHANGED <<remote, tag, container, lastId, applyInFlight, check, overlapped>>

\* The row of the container that was replaced is deleted.
ApplyForget(a) ==
    /\ At(a, "forget") /\ Goto(a, "tidy")
    /\ rows' = Without(apply[a].target) \/ (ApplyFaults /\ UNCHANGED rows)
    /\ UNCHANGED <<remote, tag, container, lastId, applyInFlight, check, overlapped>>

\* Images that nothing uses are pruned, whatever comes of it.
ApplyTidy(a) ==
    /\ At(a, "tidy") /\ Return(a, "ok")
    /\ UNCHANGED <<remote, tag, container, lastId, rows, check, overlapped>>

\* Mutated form: the rollback names the image by its tag, which has moved.
PreviousImageByTag(a) == apply[a].row.image

\* rollbackUpdate names the previous image by its digest.
PreviousImage(a) == IF apply[a].row.image = Tag THEN apply[a].row.current ELSE apply[a].row.image

\* The previous image is pulled, or else its tag; the container is recreated.
\* rolledBack is set whatever came of it; only the message tells a failed rollback.
ApplyRollback(a) ==
    /\ \/ /\ At(a, "rbPull")
          /\ \/ Goto(a, "rbRecreate") /\ UNCHANGED <<tag, applyInFlight>>
             \/ /\ ApplyFaults
                /\ tag' \in {tag, IF apply[a].row.image = Tag THEN remote ELSE tag}
                /\ Return(a, "rollbackFailed") \/ (Goto(a, "rbRecreate") /\ UNCHANGED applyInFlight)
          /\ UNCHANGED <<container, lastId>>
       \/ /\ At(a, "rbRecreate")
          /\ IF apply[a].kind = "standalone" /\ container.id = NoId
             THEN Goto(a, "rbEnd") /\ UNCHANGED <<container, lastId, applyInFlight>>
             ELSE Recreate(a, container.id, PreviousImage(a), "rbCreate", "rbEnd",
                           "rollbackFailed", ApplyFaults)
          /\ UNCHANGED tag
       \/ /\ At(a, "rbCreate")
          /\ Create(a, PreviousImage(a), "rbEnd", "rollbackFailed", ApplyFaults)
          /\ UNCHANGED tag
       \/ At(a, "rbEnd") /\ Return(a, "rolledBack") /\ UNCHANGED <<tag, container, lastId>>
    /\ UNCHANGED <<remote, rows, check, overlapped>>

ApplyStep(a) ==
    \/ ApplyRead(a) \/ ApplyPull(a) \/ ApplyBegin(a) \/ ApplyRecreate(a) \/ ApplyHealth(a)
    \/ ApplyRefresh(a) \/ ApplyWrite(a) \/ ApplyForget(a) \/ ApplyTidy(a) \/ ApplyRollback(a)
CheckStep(k) == CheckInspect(k) \/ CheckWrite(k) \/ CheckPrune(k)

Next ==
    \/ Publish
    \/ \E a \in Applies : ApplyCall(a) \/ ApplyStep(a)
    \/ \E k \in Checks : CheckList(k) \/ CheckStep(k)

Spec == Init /\ [][Next]_vars

\* A call is in a request to Docker that has no time limit: it pulls, stops, removes, creates or
\* starts a container by itself, or prunes images.
AwaitsDocker(a) ==
    \/ apply[a].pc \in {"pull", "rbPull", "tidy"}
    \/ apply[a].kind = "standalone"
       /\ apply[a].pc \in {"recreate", "create", "rbRecreate", "rbCreate"}

\* The other steps have one: listing and inspecting (withTimeout), asking the registry
\* (AbortSignal.timeout), compose (execFile's timeout), and the wait for health. Docker may
\* leave a request without a limit open for ever.
StepInTime(a) == ~ AwaitsDocker(a) /\ ApplyStep(a)

FairSpec == Spec /\ \A a \in Applies : WF_vars(StepInTime(a))

--------------------------------------------------------------------------------
\* Properties

\* One container is never updated by two calls at once: the second would remove
\* the container the first one is waiting for.
OneApplyPerContainer ==
    \A a, b \in Applies :
        InFlight(a) /\ InFlight(b) /\ apply[a].target = apply[b].target => a = b

\* The in-flight marks are exactly the targets of the calls under way: a refused
\* or failed call neither clears the mark of another nor leaves one behind that
\* would lock the container out of updates until a restart.
MarksExact ==
    \A o \in Objects :
        applyInFlight[o] =
            {apply[a].target : a \in {b \in Applies : InFlight(b) /\ apply[b].obj = o}}

Reports(a, result) == apply[a].result = "none" /\ apply'[a].result = result

RunsOffer(a) == container.id # NoId /\ container.digest >= apply[a].row.remote
RunsOffered(a) == container.id # NoId /\ container.digest = apply[a].row.remote
RunsPrevious(a) == container'.id # NoId /\ container'.digest = apply[a].before

\* An update that reports success leaves the container running the image that
\* was offered, or a newer one, whatever was published or checked meanwhile.
SuccessRunsOffer == [][\A a \in Applies : Reports(a, "ok") => RunsOffer(a)]_vars

\* What an update reports is true, whatever was published or checked meanwhile, if no other
\* update crossed it, of the same container under its next id (applyUpdate,
\* updates.service.ts:243). With "ok" the container runs the image that was offered; but see
\* SuccessRunsOffer for one that is pinned to a digest. With rolledBack, and not that rolling
\* back failed, it runs what it ran before, although the tag has moved on by then; except one
\* recreated by its Compose project, which is rolled back by tag, and one whose tag had been
\* moved by a failed update before the check.
ReportIsTrue ==
    [][\A a \in Applies \ overlapped :
         /\ Reports(a, "ok") /\ apply[a].row.image = Tag => RunsOffered(a)
         /\ /\ Reports(a, "rolledBack") /\ apply[a].kind # "project"
            /\ apply[a].row.current = apply[a].before
            => RunsPrevious(a)]_vars

\* Every update that is started ends, with one of its results, unless Docker leaves one of its
\* requests without a time limit open for ever (pullImage, dockerode-client.ts:306, and
\* recreateStandaloneContainer, updates.service.ts:765); then its mark stays, too, and the
\* container cannot be updated until the API is restarted.
EveryApplyEnds ==
    \A a \in Applies :
        InFlight(a) ~> \/ apply[a].result # "none"
                       \/ [](AwaitsDocker(a) /\ apply[a].target \in applyInFlight[apply[a].obj])
================================================================================
