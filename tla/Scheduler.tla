------------------------------- MODULE Scheduler -------------------------------
(***************************************************************************)
(* SchedulerService: the rows of the scheduled jobs, the cron task made    *)
(* for each of them, changes of a job by an administrator, and the runs    *)
(* that cron or an operator asks for.                                      *)
(*                                                                         *)
(* A cron task is named after what made it: the job, when start made it,   *)
(* or the update that rescheduled the job.  A job's callback is abstract:  *)
(* it ends or throws.                                                      *)
(***************************************************************************)
EXTENDS FiniteSets

CONSTANTS
    Jobs,           \* ids of the rows (not empty)
    Crons,          \* valid cron expressions
    Invalid,        \* an expression that node-cron refuses
    Keep,           \* a field that a patch does not name
    NoCronTask,           \* no task
    Updates,        \* bound: calls of updateJob
    Runs            \* bound: calls of runJob

ASSUME NamesAssumption ==
    /\ Jobs # {} /\ Jobs \cap Updates = {} /\ NoCronTask \notin Jobs \cup Updates
    /\ Invalid \notin Crons /\ Keep \notin Crons \cup {Invalid} \cup BOOLEAN

VARIABLES
    rows,           \* the table: cron and enabled of each job
    started,        \* the field started
    closing,        \* the server is closing
    tasks,          \* the map tasks
    live,           \* cron tasks that are not stopped
    cronOf,         \* the expression of each task
    running,        \* the set running
    failed,         \* keys of the map lastErrors
    update,         \* the calls of updateJob
    run,            \* the calls of runJob
    crossed         \* history: jobs with two changes written, neither answered

vars == <<rows, started, closing, tasks, live, cronOf, running, failed, update, run, crossed>>

Expressions == Crons \cup {Invalid}
Row == [cron : Expressions, enabled : BOOLEAN]
Tasks == Jobs \cup Updates
Update == [at : {"new", "asked", "written", "done"}, job : Jobs, cron : Expressions \cup {Keep},
           enabled : BOOLEAN \cup {Keep}, row : Row]
Run == [at : {"new", "asked", "found", "inCallback", "saving", "done"}, job : Jobs]

TypeOK ==
    /\ rows \in [Jobs -> Row] /\ started \in BOOLEAN /\ closing \in BOOLEAN
    /\ tasks \in [Jobs -> Tasks \cup {NoCronTask}] /\ live \in SUBSET Tasks
    /\ cronOf \in [Tasks -> Expressions]
    /\ running \in SUBSET Jobs /\ failed \in SUBSET Jobs /\ crossed \in SUBSET Jobs
    /\ update \in [Updates -> Update] /\ run \in [Runs -> Run]

\* The calls before they are made; AJob stands for a field without a meaning.
AJob == CHOOSE j \in Jobs : TRUE
NoUpdate == [at |-> "new", job |-> AJob, cron |-> Keep, enabled |-> Keep,
             row |-> [cron |-> Invalid, enabled |-> FALSE]]

Init ==
    /\ rows \in [Jobs -> Row]
    /\ started = FALSE /\ closing = FALSE
    /\ tasks = [j \in Jobs |-> NoCronTask] /\ live = {}
    /\ cronOf = [t \in Tasks |-> Invalid]
    /\ update = [u \in Updates |-> NoUpdate]
    /\ run = [r \in Runs |-> [at |-> "new", job |-> AJob]]
    /\ running = {} /\ failed = {} /\ crossed = {}

--------------------------------------------------------------------------------
\* Starting and stopping

Schedulable(row) == row.enabled /\ row.cron \in Crons

\* start, in the onReady hook: requests are not accepted before it has ended.
StartScheduler ==
    /\ ~ started /\ ~ closing
    /\ LET made == {j \in Jobs : Schedulable(rows[j])} IN
         /\ tasks' = [j \in Jobs |-> IF j \in made THEN j ELSE NoCronTask]
         /\ live' = made
         /\ cronOf' = [t \in Tasks |-> IF t \in made THEN rows[t].cron ELSE cronOf[t]]
    /\ started' = TRUE
    /\ UNCHANGED <<rows, closing, running, failed, update, run, crossed>>

\* stop, in the onClose hook.
Stop ==
    /\ started
    /\ live' = live \ {tasks[j] : j \in Jobs}
    /\ tasks' = [j \in Jobs |-> NoCronTask]
    /\ started' = FALSE /\ closing' = TRUE
    /\ UNCHANGED <<rows, cronOf, running, failed, update, run, crossed>>

--------------------------------------------------------------------------------
\* updateJob

\* The call ends; a task that it made keeps its job.
UpdateDone(u) ==
    update' = [update EXCEPT ![u] = [NoUpdate EXCEPT !.at = "done", !.job = update[u].job]]

\* PATCH /scheduler/jobs/:id
AskUpdate(u, j, cron, enabled) ==
    /\ update[u].at = "new" /\ started
    /\ update' = [update EXCEPT ![u] = [update[u] EXCEPT !.at = "asked", !.job = j, !.cron = cron,
                                                         !.enabled = enabled]]
    /\ UNCHANGED <<rows, started, closing, tasks, live, cronOf, running, failed, run, crossed>>

\* What prisma.scheduledJob.update makes of a row.
Patched(row, call) ==
    [cron |-> IF call.cron = Keep THEN row.cron ELSE call.cron,
     enabled |-> IF call.enabled = Keep THEN row.enabled ELSE call.enabled]

Written(j) == {u \in Updates : update[u].at = "written" /\ update[u].job = j}

\* The row is written, and is on its way back to updateJob.
WriteRow(u) ==
    /\ update[u].at = "asked"
    /\ LET j == update[u].job
           row == Patched(rows[j], update[u])
       IN  /\ rows' = [rows EXCEPT ![j] = row]
           /\ update' = [update EXCEPT ![u] = [update[u] EXCEPT !.at = "written", !.row = row]]
           /\ crossed' = IF Written(j) = {} THEN crossed ELSE crossed \cup {j}
    /\ UNCHANGED <<started, closing, tasks, live, cronOf, running, failed, run>>

UpdateFails(u) ==
    /\ update[u].at = "asked" /\ UpdateDone(u)
    /\ UNCHANGED <<rows, started, closing, tasks, live, cronOf, running, failed, run, crossed>>

\* Mutated form: the old task is only stopped when a new one takes its place.
RescheduleEnabledOnly(u, j, row) ==
    IF Schedulable(row)
    THEN /\ live' = (live \ {tasks[j]}) \cup {u}
         /\ tasks' = [tasks EXCEPT ![j] = u]
         /\ cronOf' = [cronOf EXCEPT ![u] = row.cron]
    ELSE UNCHANGED <<tasks, live, cronOf>>

\* rescheduleJob: the old task is stopped whatever the row says.
RescheduleJob(u, j, row) ==
    IF Schedulable(row)
    THEN /\ live' = (live \ {tasks[j]}) \cup {u}
         /\ tasks' = [tasks EXCEPT ![j] = u]
         /\ cronOf' = [cronOf EXCEPT ![u] = row.cron]
    ELSE /\ live' = live \ {tasks[j]}
         /\ tasks' = [tasks EXCEPT ![j] = NoCronTask]
         /\ UNCHANGED cronOf

\* Mutated form: the job is rescheduled although stop was called meanwhile.
ApplyRowAnyway(u) ==
    /\ update[u].at = "written"
    /\ RescheduleJob(u, update[u].job, update[u].row)
    /\ UpdateDone(u)
    /\ UNCHANGED <<rows, started, closing, running, failed, run, crossed>>

\* updateJob goes on with the row; answers arrive in any order.
ApplyRow(u) ==
    /\ update[u].at = "written"
    /\ IF started THEN RescheduleJob(u, update[u].job, update[u].row)
       ELSE UNCHANGED <<tasks, live, cronOf>>
    /\ UpdateDone(u)
    /\ UNCHANGED <<rows, started, closing, running, failed, run, crossed>>

--------------------------------------------------------------------------------
\* runJob

RunStep(r, at) == run' = [run EXCEPT ![r].at = at]

\* A cron task of the job fires, or POST /scheduler/jobs/:id/run.
AskRun(r, j) ==
    /\ run[r].at = "new"
    /\ \/ \E t \in live : t = j \/ (t \in Updates /\ update[t].job = j)
       \/ started
    /\ run' = [run EXCEPT ![r] = [at |-> "asked", job |-> j]]
    /\ UNCHANGED <<rows, started, closing, tasks, live, cronOf, running, failed, update, crossed>>

\* findUnique answers, or fails.
FindRow(r) ==
    /\ run[r].at = "asked"
    /\ RunStep(r, "found") \/ RunStep(r, "done")
    /\ UNCHANGED <<rows, started, closing, tasks, live, cronOf, running, failed, update, crossed>>

\* Mutated form: whether the job runs is not looked at after the row was awaited.
BeginUnchecked(r) ==
    /\ run[r].at = "found"
    /\ running' = running \cup {run[r].job} /\ RunStep(r, "inCallback")
    /\ UNCHANGED <<rows, started, closing, tasks, live, cronOf, failed, update, crossed>>

\* 'Job already running', or the callback is called.
Begin(r) ==
    /\ run[r].at = "found"
    /\ IF run[r].job \in running
       THEN RunStep(r, "done") /\ UNCHANGED running
       ELSE running' = running \cup {run[r].job} /\ RunStep(r, "inCallback")
    /\ UNCHANGED <<rows, started, closing, tasks, live, cronOf, failed, update, crossed>>

\* The callback has ended: the error is forgotten, and lastRunAt is being written.
CallbackEnds(r) ==
    /\ run[r].at = "inCallback"
    /\ failed' = failed \ {run[r].job} /\ RunStep(r, "saving")
    /\ UNCHANGED <<rows, started, closing, tasks, live, cronOf, running, update, crossed>>

\* Mutated form: the flag is kept when the callback throws.
FailsKeepsFlag(r) ==
    /\ run[r].at \in {"inCallback", "saving"}
    /\ failed' = failed \cup {run[r].job}
    /\ RunStep(r, "done")
    /\ UNCHANGED <<rows, started, closing, tasks, live, cronOf, running, update, crossed>>

\* The callback, or the write, has thrown.
Fails(r) ==
    /\ run[r].at \in {"inCallback", "saving"}
    /\ failed' = failed \cup {run[r].job} /\ running' = running \ {run[r].job}
    /\ RunStep(r, "done")
    /\ UNCHANGED <<rows, started, closing, tasks, live, cronOf, update, crossed>>

Saved(r) ==
    /\ run[r].at = "saving"
    /\ running' = running \ {run[r].job} /\ RunStep(r, "done")
    /\ UNCHANGED <<rows, started, closing, tasks, live, cronOf, failed, update, crossed>>

--------------------------------------------------------------------------------
UpdateNext(u) ==
    \/ \E j \in Jobs, cron \in Expressions \cup {Keep}, enabled \in BOOLEAN \cup {Keep} :
         AskUpdate(u, j, cron, enabled)
    \/ WriteRow(u) \/ UpdateFails(u) \/ ApplyRow(u)

RunNext(r) == FindRow(r) \/ Begin(r) \/ CallbackEnds(r) \/ Fails(r) \/ Saved(r)

Next ==
    \/ StartScheduler \/ Stop
    \/ \E u \in Updates : UpdateNext(u)
    \/ \E r \in Runs : RunNext(r) \/ \E j \in Jobs : AskRun(r, j)

Spec == Init /\ [][Next]_vars

--------------------------------------------------------------------------------
\* Properties

Executing(r) == run[r].at \in {"inCallback", "saving"}

\* A job does not overlap itself, whether cron or an operator starts it (CHANGELOG.md:507),
\* though a run waits for the database before it looks at the set running.
NoOverlap ==
    \A r, s \in Runs : Executing(r) /\ Executing(s) /\ run[r].job = run[s].job => r = s

\* A cron task that still fires is the one in the map: a task that nobody can stop
\* any more does not exist.
NoStrayTask == live = {tasks[j] : j \in Jobs} \ {NoCronTask}

\* Once the server is closing nothing is scheduled, also by an update under way.
NothingAfterStop == closing => live = {}

\* With no update under way, the task of a job fires as its row says: not at all when
\* it is disabled.  (Two updates of one job whose answers cross may break this.)
TaskFollowsRow ==
    \A j \in Jobs \ crossed : started /\ Written(j) = {} =>
        /\ Schedulable(rows[j]) <=> tasks[j] # NoCronTask
        /\ Schedulable(rows[j]) => cronOf[tasks[j]] = rows[j].cron

\* A job is marked as running exactly while its callback runs or its end is written: it can
\* be run again, also after it failed.
MarksAreRuns == running = {run[r].job : r \in {s \in Runs : Executing(s)}}

\* The cron tasks that fire are the rows', none that nobody can stop any more and none but
\* as the row says; and the marks are the runs' (rescheduleJob, scheduler.service.ts:148,
\* runJob, :91).
TasksAreTheRows == NoStrayTask /\ TaskFollowsRow /\ MarksAreRuns
================================================================================
