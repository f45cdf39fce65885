----------------------------- MODULE DockerClient -----------------------------
(***************************************************************************)
(* The API's view of Docker (infrastructure/docker/dockerode-client.ts): the *)
(* short caches of lists and disk usage with the requests that fill them,    *)
(* what empties them (the client's own actions, Docker's events), and the    *)
(* event stream with its reconnection.                                       *)
(*                                                                         *)
(* Everything the lists show is one number, the version of what Docker has;  *)
(* each key has a time to live of its own in the code, one here.             *)
(***************************************************************************)
EXTENDS Naturals, Sequences

CONSTANTS
    Readers,        \* requests of the API that use the client at the same time
    DockerTtl,      \* ticks a cached answer is good for (2.5 s, 5 s and 45 s)
    DockerTimeout,  \* ticks a request to Docker may take (15 s and 20 s)
    MaxAsks,        \* bound on the readings
    MaxChanges      \* bound on the changes in Docker

ASSUME DockerClientAssumption ==
    /\ DockerTtl \in Nat \ {0} /\ DockerTimeout \in Nat \ {0}
    /\ MaxAsks \in Nat /\ MaxChanges \in Nat

VARIABLES
    version,     \* what Docker has
    superseded,  \* per version, the ticks since it was replaced
    cache,       \* listCache, imageCache, dfCache: per key, what is held, and whose
                 \* request is to fill it (by, empty or one reader)
    fetch,       \* requests to Docker on their way, by the reader that sent them
    reader,      \* what each reader waits for
    promised,    \* history: per key, the last version an invalidation was about
    faults,      \* history: what was wrong with an answer
    asks,        \* readings so far
    stream,      \* this.stream: is a stream remembered
    attached,    \* event streams that deliver to the client
    attaching,   \* getEvents is under way
    timer,       \* reconnectTimer
    events       \* events Docker has sent on the stream, not yet handled

dockerVars == <<version, superseded, cache, fetch, reader, promised, faults, asks,
                stream, attached, attaching, timer, events>>
cacheVars == <<cache, fetch, reader, promised, faults, asks>>
streamVars == <<stream, attached, attaching, timer, events>>

DockerKeys == {"all", "running", "images", "df"}
DockerKinds == {"container", "image", "volume"}
Versions == 0 .. MaxChanges
Overdue == DockerTtl + DockerTimeout
NoAnswer == [held |-> FALSE, value |-> 0, age |-> 0, by |-> {}, overtaken |-> FALSE]
NoFetch == [pc |-> "none", key |-> "all", value |-> 0, age |-> 0, overtaken |-> FALSE]
AtRest == [pc |-> "idle", key |-> "all", on |-> {}, floor |-> 0]

DockerInit ==
    /\ version = 0
    /\ superseded = [v \in Versions |-> 0]
    /\ cache = [k \in DockerKeys |-> NoAnswer]
    /\ fetch = [r \in Readers |-> NoFetch]
    /\ reader = [r \in Readers |-> AtRest]
    /\ promised = [k \in DockerKeys |-> 0]
    /\ faults = {}
    /\ asks = 0
    /\ stream = FALSE /\ attached = 0 /\ attaching = TRUE /\ timer = FALSE
    /\ events = <<>>

----------------------------------------------------------------------------
(* Invalidation *)

\* What an event of a kind clears: the container lists, the images, the disk usage.
Clears(kind) ==
    CASE kind = "container" -> {"all", "running", "images"}
      [] kind = "image" -> {"images"}
      [] kind = "volume" -> {"all", "running", "df"}

\* The entries go; a request for the disk usage stays to be shared, the others are
\* forgotten by those who come later. No request is stopped.
CacheWithout(keys) ==
    [k \in DockerKeys |-> IF k \notin keys THEN cache[k]
                    ELSE IF k = "df" THEN [cache[k] EXCEPT !.held = FALSE]
                    ELSE NoAnswer]

Invalidate(keys, about) ==
    /\ cache' = CacheWithout(keys)
    /\ fetch' = [r \in Readers |-> IF fetch[r].pc # "none" /\ fetch[r].key \in keys
                                   THEN [fetch[r] EXCEPT !.overtaken = TRUE]
                                   ELSE fetch[r]]
    /\ promised' = [k \in DockerKeys |-> IF k \in keys THEN about ELSE promised[k]]

----------------------------------------------------------------------------
(* Reading: listContainers, listImages, getSystemDf *)

FreshAnswer(k) == cache[k].held /\ cache[k].age < DockerTtl
Fetching(k) == cache[k].by # {}

\* What is wrong with answering v to a reader that asked when `floor` was promised.
Verdict(v, overtaken, floor) ==
    (IF v # version /\ superseded[v] >= Overdue THEN {"old"} ELSE {})
      \cup (IF v < floor /\ ~overtaken THEN {"unkept"} ELSE {})

\* The running containers are taken from the list of all of them, when that is fresh
\* or on its way.
Served(k) == IF k = "running" /\ (FreshAnswer("all") \/ Fetching("all")) THEN "all" ELSE k

AskHit(r, k) ==
    /\ reader[r].pc = "idle" /\ asks < MaxAsks /\ FreshAnswer(Served(k))
    /\ asks' = asks + 1
    /\ faults' = faults \cup Verdict(cache[Served(k)].value, cache[Served(k)].overtaken,
                                     promised[k])
    /\ UNCHANGED <<version, superseded, cache, fetch, reader, promised, streamVars>>

AskShared(r, k) ==
    /\ reader[r].pc = "idle" /\ asks < MaxAsks /\ ~FreshAnswer(Served(k)) /\ Fetching(Served(k))
    /\ asks' = asks + 1
    /\ reader' = [reader EXCEPT ![r] = [pc |-> "waits", key |-> k,
                                        on |-> cache[Served(k)].by, floor |-> promised[k]]]
    /\ UNCHANGED <<version, superseded, cache, fetch, promised, faults, streamVars>>

\* The entry keeps the old value and its time while the request runs.
Placeholder(k, r) == [cache[k] EXCEPT !.by = {r}]

AskDocker(r, k) ==
    /\ reader[r].pc = "idle" /\ asks < MaxAsks
    /\ ~FreshAnswer(Served(k)) /\ ~Fetching(Served(k))
    /\ asks' = asks + 1
    /\ cache' = [cache EXCEPT ![k] = Placeholder(k, r)]
    /\ fetch' = [fetch EXCEPT ![r] = [NoFetch EXCEPT !.pc = "sent", !.key = k]]
    /\ reader' = [reader EXCEPT ![r] = [pc |-> "waits", key |-> k, on |-> {r},
                                        floor |-> promised[k]]]
    /\ UNCHANGED <<version, superseded, promised, faults, streamVars>>

\* Docker reads its state for the answer.
DockerReads(r) ==
    /\ fetch[r].pc = "sent"
    /\ fetch' = [fetch EXCEPT ![r] = [fetch[r] EXCEPT !.pc = "read", !.value = version]]
    /\ UNCHANGED <<version, superseded, cache, reader, promised, faults, asks, streamVars>>

WaitersOf(r) == {w \in Readers : reader[w].pc = "waits" /\ reader[w].on = {r}}
ReaderAnswered(r) == [w \in Readers |-> IF w \in WaitersOf(r) THEN AtRest ELSE reader[w]]

\* The answer fills the cache, whoever has emptied it since, and goes to all who wait.
\* The list of all containers also fills the running ones.
FetchDone(r) ==
    LET f == fetch[r]
        filled == [held |-> TRUE, value |-> f.value, age |-> 0, by |-> {},
                   overtaken |-> f.overtaken]
    IN  /\ f.pc = "read"
        /\ cache' = [k \in DockerKeys |-> IF k = f.key \/ (k = "running" /\ f.key = "all")
                                    THEN filled ELSE cache[k]]
        /\ fetch' = [fetch EXCEPT ![r] = NoFetch]
        /\ reader' = ReaderAnswered(r)
        /\ faults' = faults \cup UNION {Verdict(f.value, f.overtaken, reader[w].floor) :
                                        w \in WaitersOf(r)}
        /\ UNCHANGED <<version, superseded, promised, asks, streamVars>>

\* An error or the timeout: the key's entry is dropped, even one that a later request
\* has made; the disk usage keeps its last value.
FetchFails(r) ==
    LET k == fetch[r].key
    IN  /\ fetch[r].pc # "none"
        /\ cache' = [cache EXCEPT ![k] = IF k = "df" THEN [@ EXCEPT !.by = {}]
                                         ELSE NoAnswer]
        /\ fetch' = [fetch EXCEPT ![r] = NoFetch]
        /\ reader' = ReaderAnswered(r)
        /\ UNCHANGED <<version, superseded, promised, faults, asks, streamVars>>

----------------------------------------------------------------------------
(* Changes in Docker *)

\* Something changes; the event goes to every stream that is attached.
DockerChanges(kind) ==
    /\ version < MaxChanges
    /\ version' = version + 1
    /\ events' = IF attached > 0 THEN Append(events, [kind |-> kind, about |-> version'])
                 ELSE events

\* Another client of Docker, or Docker itself.
OthersChange(kind) ==
    /\ DockerChanges(kind)
    /\ UNCHANGED <<superseded, cacheVars, stream, attached, attaching, timer>>

\* containerAction; pullImage, tagImage, removeImage and pruneImages. The caches are
\* cleared when Docker has answered.
Act(r, kind) ==
    /\ reader[r].pc = "idle" /\ kind # "volume"
    /\ DockerChanges(kind)
    /\ reader' = [reader EXCEPT ![r] = [AtRest EXCEPT !.pc = kind, !.floor = version']]
    /\ UNCHANGED <<superseded, cache, fetch, promised, faults, asks, stream, attached,
                   attaching, timer>>

\* The variant in which an action leaves the lists of stopped containers in place.
ClearsRunningOnly(kind) == IF kind = "container" THEN {"running"} ELSE {"images"}

ClearsAfterAction(kind) == IF kind = "container" THEN {"all", "running"} ELSE {"images"}

ActDone(r) ==
    /\ reader[r].pc \in DockerKinds
    /\ Invalidate(ClearsAfterAction(reader[r].pc), reader[r].floor)
    /\ reader' = [reader EXCEPT ![r] = AtRest]
    /\ UNCHANGED <<version, superseded, faults, asks, streamVars>>

\* handleResourceEvent
HandleEvent ==
    /\ events # <<>>
    /\ events' = Tail(events)
    /\ Invalidate(Clears(Head(events).kind), Head(events).about)
    /\ UNCHANGED <<version, superseded, reader, faults, asks, stream, attached, attaching,
                   timer>>

----------------------------------------------------------------------------
(* The event stream: attachEventStream, scheduleReconnect *)

ScheduleReconnect == stream' = FALSE /\ timer' = TRUE

Attach ==
    /\ attaching /\ attaching' = FALSE
    /\ stream' = TRUE /\ attached' = attached + 1
    /\ UNCHANGED <<version, superseded, cacheVars, timer, events>>

AttachFails ==
    /\ attaching /\ attaching' = FALSE
    /\ ScheduleReconnect
    /\ UNCHANGED <<version, superseded, cacheVars, attached, events>>

\* A stream ends or fails, with what it had not delivered.
StreamEnds ==
    /\ attached > 0 /\ attached' = attached - 1
    /\ events' = <<>>
    /\ ScheduleReconnect
    /\ UNCHANGED <<version, superseded, cacheVars, attaching>>

\* The timer clears itself, and attaches if there is no stream by then.
ReconnectFires ==
    /\ timer /\ timer' = FALSE
    /\ attaching' = (attaching \/ ~stream)
    /\ UNCHANGED <<version, superseded, cacheVars, stream, attached, events>>

----------------------------------------------------------------------------
\* Time passes for what is held, on its way or superseded; no request outlives its
\* timeout, and a version's age is counted up to Overdue.
Older(n, limit) == IF n < limit THEN n + 1 ELSE n

DockerTick ==
    /\ \A r \in Readers : fetch[r].pc # "none" => fetch[r].age < DockerTimeout
    /\ superseded' = [v \in Versions |-> IF v < version THEN Older(superseded[v], Overdue)
                                         ELSE 0]
    /\ cache' = [k \in DockerKeys |-> IF cache[k].held
                                THEN [cache[k] EXCEPT !.age = Older(@, DockerTtl)]
                                ELSE cache[k]]
    /\ fetch' = [r \in Readers |-> IF fetch[r].pc # "none"
                                   THEN [fetch[r] EXCEPT !.age = @ + 1] ELSE fetch[r]]
    /\ UNCHANGED <<version, reader, promised, faults, asks, streamVars>>

DockerNext ==
    \/ \E r \in Readers, k \in DockerKeys : AskHit(r, k) \/ AskShared(r, k) \/ AskDocker(r, k)
    \/ \E r \in Readers : DockerReads(r) \/ FetchDone(r) \/ FetchFails(r) \/ ActDone(r)
    \/ \E kind \in DockerKinds : OthersChange(kind) \/ \E r \in Readers : Act(r, kind)
    \/ HandleEvent
    \/ Attach \/ AttachFails \/ StreamEnds \/ ReconnectFires
    \/ DockerTick

DockerSpec == DockerInit /\ [][DockerNext]_dockerVars

----------------------------------------------------------------------------
\* Caches, requests and the stream have their types (dockerode-client.ts:55).
DockerTypeOK ==
    /\ version \in Versions
    /\ superseded \in [Versions -> 0 .. Overdue]
    /\ cache \in [DockerKeys -> [held : BOOLEAN, value : Versions, age : 0 .. DockerTtl,
                           by : SUBSET Readers, overtaken : BOOLEAN]]
    /\ fetch \in [Readers -> [pc : {"none", "sent", "read"}, key : DockerKeys, value : Versions,
                              age : 0 .. DockerTimeout, overtaken : BOOLEAN]]
    /\ reader \in [Readers -> [pc : {"idle", "waits"} \cup DockerKinds, key : DockerKeys,
                               on : SUBSET Readers, floor : Versions]]
    /\ promised \in [DockerKeys -> Versions]
    /\ faults \subseteq {"old", "unkept"}
    /\ asks \in 0 .. MaxAsks
    /\ stream \in BOOLEAN /\ attached \in Nat /\ attaching \in BOOLEAN /\ timer \in BOOLEAN
    /\ events \in Seq([kind : DockerKinds, about : Versions])

\* No answer shows what Docker had longer ago than a cache's time to live and a request's
\* timeout together, although requests are shared, fill the cache after it was emptied,
\* and fail while newer ones run.
AnswersAreRecent == "old" \notin faults

\* Who asks after an action of this client has ended, or after an event has been
\* handled, sees what it was about; except from a request that was already on its way
\* when the caches were cleared (dockerode-client.ts:154).
OwnChangesAreSeen == "unkept" \notin faults

\* The client is never deaf for good: without a stream, one is being attached or a timer
\* will do so; and it never listens twice, which would count each event twice.
NeverDeaf ==
    /\ ~stream => attaching \/ timer
    /\ attached = (IF stream THEN 1 ELSE 0)

\* The client follows Docker: it never stops listening for good, and no cache hides what
\* it has heard or done itself, or for long what it has not (dockerode-client.ts:583, 643).
DockerIsFollowed == NeverDeaf /\ OwnChangesAreSeen /\ AnswersAreRecent
================================================================================
