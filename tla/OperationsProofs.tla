----------------------------- MODULE OperationsProofs -----------------------------
(***************************************************************************)
(* What the API runs for longer than a request: the scheduler's jobs, a      *)
(* terminal, the update of Docker on the host, the creation and removal of a *)
(* Compose project, and these together with the Compose operations, for any *)
(* number of each.                                                          *)
(*                                                                         *)
(* Of the scheduler, two arguments that do not meet: the set running holds   *)
(* the job of every callback that executes, and the map tasks holds, for     *)
(* each job, a task that was made for that job, so that replacing it touches *)
(* no other's. For a creation that is alone, the folder at every step is the *)
(* one that was found and what has been written into it so far.             *)
(***************************************************************************)
EXTENDS MCOperations, ComposeServiceProofs

--------------------------------------------------------------------------------
\* The scheduler

LEMMA AJobIsJob == AJob \in Jobs
  BY NamesAssumption DEF AJob

LEMMA NoUpdateType == NoUpdate \in Update
  BY AJobIsJob DEF NoUpdate, Update, Row, Expressions

--------------------------------------------------------------------------------
\* Types

LEMMA SchedulerTypeInit == Init => TypeOK
<1> SUFFICES ASSUME Init PROVE TypeOK
  OBVIOUS
<1>1. update \in [Updates -> Update]
  BY NoUpdateType DEF Init
<1>2. run \in [Runs -> Run]
  BY AJobIsJob DEF Init, Run
<1> QED
  BY <1>1, <1>2 DEF Init, TypeOK, Tasks, Expressions

LEMMA PatchedType ==
    ASSUME NEW row \in Row, NEW call \in Update PROVE Patched(row, call) \in Row
  BY DEF Patched, Row, Update

LEMMA SchedulerTypeStep == TypeOK /\ [Next]_vars => TypeOK'
<1> SUFFICES ASSUME TypeOK, [Next]_vars PROVE TypeOK'
  OBVIOUS
<1> USE DEF TypeOK, Tasks
<1>1. CASE StartScheduler
  BY <1>1 DEF StartScheduler, Schedulable, Row
<1>2. CASE Stop
  BY <1>2 DEF Stop
<1>3. ASSUME NEW u \in Updates, NEW j \in Jobs, NEW cron \in Expressions \cup {Keep},
             NEW enabled \in BOOLEAN \cup {Keep}, AskUpdate(u, j, cron, enabled)
      PROVE  TypeOK'
  <2>1. update'[u] \in Update
    BY <1>3 DEF AskUpdate, Update
  <2> QED
    BY <1>3, <2>1 DEF AskUpdate
<1>4. ASSUME NEW u \in Updates, WriteRow(u) PROVE TypeOK'
  <2>1. update[u] \in Update /\ update[u].job \in Jobs
    BY DEF Update
  <2>2. Patched(rows[update[u].job], update[u]) \in Row
    BY <2>1, PatchedType
  <2>3. update' \in [Updates -> Update]
    BY <1>4, <2>1, <2>2 DEF WriteRow, Update
  <2> QED
    BY <1>4, <2>1, <2>2, <2>3 DEF WriteRow
<1>5. ASSUME NEW u \in Updates, UpdateDone(u) PROVE update' \in [Updates -> Update]
  <2>1. update[u].job \in Jobs
    BY DEF Update
  <2>2. [NoUpdate EXCEPT !.at = "done", !.job = update[u].job] \in Update
    BY <2>1, NoUpdateType DEF Update
  <2> QED
    BY <1>5, <2>2 DEF UpdateDone
<1>6. ASSUME NEW u \in Updates, UpdateFails(u) PROVE TypeOK'
  BY <1>5, <1>6 DEF UpdateFails
<1>7. ASSUME NEW u \in Updates, ApplyRow(u) PROVE TypeOK'
  <2>1. update[u].job \in Jobs /\ update[u].row \in Row
    BY DEF Update
  <2> QED
    BY <1>5, <1>7, <2>1 DEF ApplyRow, RescheduleJob, Row
<1>8. ASSUME NEW r \in Runs, RunNext(r) PROVE TypeOK'
  <2>1. run[r].job \in Jobs
    BY DEF Run
  <2>2. run' \in [Runs -> Run]
    BY <1>8 DEF RunNext, FindRow, Begin, CallbackEnds, Fails, Saved, RunStep, Run
  <2> QED
    BY <1>8, <2>1, <2>2 DEF RunNext, FindRow, Begin, CallbackEnds, Fails, Saved
<1>9. ASSUME NEW r \in Runs, NEW j \in Jobs, AskRun(r, j) PROVE TypeOK'
  BY <1>9 DEF AskRun, Run
<1>10. CASE UNCHANGED vars
  BY <1>10 DEF vars
<1> QED
  BY <1>1, <1>2, <1>3, <1>4, <1>6, <1>7, <1>8, <1>9, <1>10 DEF Next, UpdateNext

\* The fields of SchedulerService, the rows and the calls keep their types.
THEOREM SchedulerTypeCorrect == Spec => []TypeOK
  BY SchedulerTypeInit, SchedulerTypeStep, PTL DEF Spec

--------------------------------------------------------------------------------
\* Runs

\* A callback that executes has put its job in the set running, and nobody else
\* takes it out.
RunsInv ==
    /\ TypeOK
    /\ NoOverlap
    /\ \A r \in Runs : Executing(r) => run[r].job \in running

LEMMA RunsStep == RunsInv /\ [Next]_vars => RunsInv'
<1> SUFFICES ASSUME RunsInv, [Next]_vars PROVE RunsInv'
  OBVIOUS
<1> USE DEF RunsInv, NoOverlap, Executing
<1>1. TypeOK'
  BY SchedulerTypeStep
<1>2. ASSUME UNCHANGED <<running, run>> PROVE RunsInv'
  BY <1>1, <1>2
<1>3. CASE StartScheduler \/ Stop \/ UNCHANGED vars
  BY <1>2, <1>3 DEF StartScheduler, Stop, vars
<1>4. ASSUME NEW u \in Updates, UpdateNext(u) PROVE RunsInv'
  BY <1>2, <1>4 DEF UpdateNext, AskUpdate, WriteRow, UpdateFails, ApplyRow
<1>5. ASSUME NEW r \in Runs, NEW j \in Jobs, AskRun(r, j) PROVE RunsInv'
  <2>1. \A s \in Runs : Executing(s)' => run'[s] = run[s]
    BY <1>5 DEF AskRun, TypeOK
  <2>2. UNCHANGED running
    BY <1>5 DEF AskRun
  <2> QED
    BY <1>1, <2>1, <2>2
<1>6. ASSUME NEW r \in Runs, FindRow(r) PROVE RunsInv'
  <2>1. \A s \in Runs : Executing(s)' => run'[s] = run[s]
    <3>1. PICK at \in {"found", "done"} : run' = [run EXCEPT ![r].at = at]
      BY <1>6 DEF FindRow, RunStep
    <3>2. run[r] \in Run
      BY DEF TypeOK
    <3> QED
      BY <3>1, <3>2 DEF TypeOK, Run
  <2>2. UNCHANGED running
    BY <1>6 DEF FindRow
  <2>3. \A s \in Runs : Executing(s)' => Executing(s) /\ run'[s].job = run[s].job
    BY <2>1
  <2> QED
    BY <1>1, <2>2, <2>3
<1>7. ASSUME NEW r \in Runs, Begin(r) PROVE RunsInv'
  <2>1. run[r] \in Run /\ run[r].job \in Jobs
    BY DEF TypeOK, Run
  <2>2. CASE run[r].job \in running
    <3>1. UNCHANGED running /\ run' = [run EXCEPT ![r].at = "done"]
      BY <1>7, <2>2 DEF Begin, RunStep
    <3>2. \A s \in Runs : Executing(s)' => Executing(s) /\ run'[s].job = run[s].job
      BY <2>1, <3>1 DEF TypeOK, Run
    <3> QED
      BY <1>1, <3>1, <3>2
  <2>3. CASE run[r].job \notin running
    <3>1. running' = running \cup {run[r].job} /\ run' = [run EXCEPT ![r].at = "inCallback"]
      BY <1>7, <2>3 DEF Begin, RunStep
    <3>2. \A s \in Runs \ {r} : run'[s] = run[s]
      BY <3>1 DEF TypeOK
    <3>3. run'[r].job = run[r].job
      BY <2>1, <3>1 DEF TypeOK, Run
    <3>4. \A s \in Runs \ {r} : Executing(s)' => run'[s].job # run'[r].job
      BY <2>3, <3>2, <3>3
    <3> QED
      BY <1>1, <3>1, <3>2, <3>3, <3>4
  <2> QED
    BY <2>2, <2>3
<1>8. ASSUME NEW r \in Runs, CallbackEnds(r) PROVE RunsInv'
  BY <1>1, <1>8 DEF CallbackEnds, RunStep, TypeOK, Run
<1>9. ASSUME NEW r \in Runs, Fails(r) \/ Saved(r) PROVE RunsInv'
  BY <1>1, <1>9 DEF Fails, Saved, RunStep, TypeOK, Run
<1> QED
  BY <1>3, <1>4, <1>5, <1>6, <1>7, <1>8, <1>9 DEF Next, RunNext

\* However many ticks and clicks wait for the row of a job together, its callback
\* executes once at a time.
THEOREM JobsDoNotOverlap == Spec => []NoOverlap
<1>1. Init => RunsInv
  BY SchedulerTypeInit DEF Init, RunsInv, NoOverlap, Executing
<1>2. RunsInv => NoOverlap
  BY DEF RunsInv
<1> QED
  BY <1>1, <1>2, RunsStep, PTL DEF Spec

--------------------------------------------------------------------------------
\* Tasks

\* The task in the map was made for that job: by start, or by an update that is done.
MadeFor(t, j) == t = j \/ (t \in Updates /\ update[t].at = "done" /\ update[t].job = j)

TasksInv ==
    /\ TypeOK
    /\ NoStrayTask
    /\ \A j \in Jobs : tasks[j] # NoCronTask => MadeFor(tasks[j], j)
    /\ ~ started => \A j \in Jobs : tasks[j] = NoCronTask
    /\ closing => ~ started

LEMMA TasksStep == TasksInv /\ [Next]_vars => TasksInv'
<1> SUFFICES ASSUME TasksInv, [Next]_vars PROVE TasksInv'
  OBVIOUS
<1> USE DEF TasksInv, NoStrayTask
<1>1. TypeOK'
  BY SchedulerTypeStep
<1>2. CASE StartScheduler
  BY <1>1, <1>2, NamesAssumption DEF StartScheduler, MadeFor
<1>3. CASE Stop
  BY <1>1, <1>3 DEF Stop
\* Updates that are done stay as they are.
<1>4. ASSUME UNCHANGED <<tasks, live, started, closing>>,
             \A u \in Updates : update[u].at = "done" => update'[u] = update[u]
      PROVE  TasksInv'
  BY <1>1, <1>4 DEF MadeFor
<1>5. ASSUME NEW u \in Updates, NEW j \in Jobs, NEW cron \in Expressions \cup {Keep},
             NEW enabled \in BOOLEAN \cup {Keep}, AskUpdate(u, j, cron, enabled)
      PROVE  TasksInv'
  BY <1>4, <1>5 DEF AskUpdate, TypeOK
<1>6. ASSUME NEW u \in Updates, WriteRow(u) \/ UpdateFails(u) PROVE TasksInv'
  BY <1>4, <1>6 DEF WriteRow, UpdateFails, UpdateDone, TypeOK
<1>7. ASSUME NEW u \in Updates, ApplyRow(u) PROVE TasksInv'
  <2> DEFINE j == update[u].job
  <2>1. j \in Jobs /\ update[u] \in Update
    BY DEF TypeOK, Update
  <2>2. /\ \A v \in Updates : update[v].at = "done" => update'[v] = update[v]
        /\ update'[u].at = "done" /\ update'[u].job = j
    BY <1>7, <2>1, NoUpdateType DEF ApplyRow, UpdateDone, TypeOK, Update
  <2>3. CASE ~ started
    BY <1>4, <1>7, <2>2, <2>3 DEF ApplyRow
  <2>4. CASE started
    <3>1. \A k \in Jobs \ {j} : tasks[k] = tasks[j] => tasks[k] = NoCronTask
      BY <2>1, NamesAssumption DEF MadeFor
    <3>2. RescheduleJob(u, j, update[u].row)
      BY <1>7, <2>4 DEF ApplyRow
    <3>3. PICK t \in {u, NoCronTask} : /\ tasks' = [tasks EXCEPT ![j] = t]
                                 /\ live' = (live \ {tasks[j]}) \cup ({t} \ {NoCronTask})
      BY <3>2, NamesAssumption DEF RescheduleJob
    <3>4. live' = {tasks'[k] : k \in Jobs} \ {NoCronTask}
      BY <2>1, <3>1, <3>3 DEF TypeOK
    <3>5. \A k \in Jobs : tasks'[k] # NoCronTask => MadeFor(tasks[k], k)'
      BY <2>1, <2>2, <3>3 DEF MadeFor, TypeOK
    <3>6. UNCHANGED <<started, closing>>
      BY <1>7 DEF ApplyRow
    <3> QED
      BY <1>1, <2>4, <3>4, <3>5, <3>6
  <2> QED
    BY <2>3, <2>4
<1>8. ASSUME NEW r \in Runs, NEW j \in Jobs, RunNext(r) \/ AskRun(r, j) PROVE TasksInv'
  BY <1>4, <1>8 DEF RunNext, AskRun, FindRow, Begin, CallbackEnds, Fails, Saved
<1>9. CASE UNCHANGED vars
  BY <1>4, <1>9 DEF vars
<1>10. ASSUME NEW r \in Runs, RunNext(r) PROVE TasksInv'
  BY <1>8, <1>10, AJobIsJob
<1> QED
  BY <1>2, <1>3, <1>5, <1>6, <1>7, <1>8, <1>9, <1>10 DEF Next, UpdateNext

LEMMA TasksInvariant == Spec => []TasksInv
<1>1. Init => TasksInv
  BY SchedulerTypeInit DEF Init, TasksInv, NoStrayTask
<1> QED
  BY <1>1, TasksStep, PTL DEF Spec

\* Every cron task that fires can be found in the map, and so can be stopped.
THEOREM NoTaskIsLeaked == Spec => []NoStrayTask
<1>1. TasksInv => NoStrayTask
  BY DEF TasksInv
<1> QED
  BY <1>1, TasksInvariant, PTL

\* After stop no cron task fires, whatever updates were under way.
THEOREM SchedulerStops == Spec => []NothingAfterStop
<1>1. TasksInv => NothingAfterStop
  BY DEF TasksInv, NoStrayTask, NothingAfterStop
<1> QED
  BY <1>1, TasksInvariant, PTL

--------------------------------------------------------------------------------
\* Rows and marks

\* While the answers of a job's updates have not crossed, one at most is on its way, and it
\* carries what the row is now.
OneAnswer ==
    \A j \in Jobs \ crossed : \A u \in Written(j) :
        update[u].row = rows[j] /\ \A v \in Written(j) : v = u

RowsInv == TasksInv /\ OneAnswer /\ TaskFollowsRow

LEMMA RowsStep == RowsInv /\ [Next]_vars => RowsInv'
<1> SUFFICES ASSUME RowsInv, [Next]_vars PROVE RowsInv'
  OBVIOUS
<1>1. TasksInv' /\ TypeOK /\ TypeOK' /\ TasksInv
  BY TasksStep DEF RowsInv, TasksInv
\* Nothing happens that the rows, the tasks or their updates could notice.
<1>2. ASSUME UNCHANGED <<rows, started, tasks, cronOf, crossed>>,
             \A j \in Jobs : Written(j)' = Written(j),
             \A j \in Jobs : \A u \in Written(j) : update'[u].row = update[u].row
      PROVE  RowsInv'
  <2>1. OneAnswer'
    BY <1>2 DEF RowsInv, OneAnswer
  <2>2. TaskFollowsRow'
    BY <1>2 DEF RowsInv, TaskFollowsRow
  <2> QED
    BY <1>1, <2>1, <2>2 DEF RowsInv
<1>3. ASSUME UNCHANGED <<rows, started, tasks, cronOf, crossed, update>> PROVE RowsInv'
  BY <1>2, <1>3 DEF Written
<1>4. CASE StartScheduler
  <2>1. OneAnswer'
    BY <1>4 DEF StartScheduler, RowsInv, OneAnswer, Written
  <2>2. TaskFollowsRow'
    BY <1>1, <1>4, NamesAssumption DEF StartScheduler, TaskFollowsRow, Schedulable, TypeOK, Tasks
  <2> QED
    BY <1>1, <2>1, <2>2 DEF RowsInv
<1>5. CASE Stop
  <2>1. OneAnswer'
    BY <1>5 DEF Stop, RowsInv, OneAnswer, Written
  <2>2. TaskFollowsRow'
    BY <1>5 DEF Stop, TaskFollowsRow
  <2> QED
    BY <1>1, <2>1, <2>2 DEF RowsInv
<1>6. ASSUME NEW u \in Updates, NEW j \in Jobs, NEW cron \in Expressions \cup {Keep},
             NEW enabled \in BOOLEAN \cup {Keep}, AskUpdate(u, j, cron, enabled)
      PROVE  RowsInv'
  <2>1. update[u].at = "new" /\ update'[u].at = "asked"
        /\ \A v \in Updates \ {u} : update'[v] = update[v]
    BY <1>1, <1>6 DEF AskUpdate, TypeOK, Update
  <2>2. UNCHANGED <<rows, started, tasks, cronOf, crossed>>
    BY <1>6 DEF AskUpdate
  <2> QED
    BY <1>2, <2>1, <2>2 DEF Written
<1>7. ASSUME NEW u \in Updates, UpdateFails(u) PROVE RowsInv'
  <2>1. update[u].at = "asked" /\ update'[u].at = "done"
        /\ \A v \in Updates \ {u} : update'[v] = update[v]
    BY <1>1, <1>7, NoUpdateType DEF UpdateFails, UpdateDone, TypeOK, Update
  <2>2. UNCHANGED <<rows, started, tasks, cronOf, crossed>>
    BY <1>7 DEF UpdateFails
  <2> QED
    BY <1>2, <2>1, <2>2 DEF Written
<1>8. ASSUME NEW u \in Updates, WriteRow(u) PROVE RowsInv'
  <2> DEFINE j == update[u].job
             row == Patched(rows[j], update[u])
  <2>1. j \in Jobs /\ update[u] \in Update /\ update[u].at = "asked"
    BY <1>1, <1>8 DEF TypeOK, Update, WriteRow
  <2>2. /\ rows' = [rows EXCEPT ![j] = row]
        /\ update'[u].at = "written" /\ update'[u].job = j /\ update'[u].row = row
        /\ \A v \in Updates \ {u} : update'[v] = update[v]
        /\ UNCHANGED <<started, tasks, cronOf>>
    BY <1>1, <1>8, <2>1 DEF WriteRow, TypeOK, Update
  <2>3. crossed' = IF Written(j) = {} THEN crossed ELSE crossed \cup {j}
    BY <1>8 DEF WriteRow
  <2>4. Written(j)' = Written(j) \cup {u} /\ \A k \in Jobs \ {j} : Written(k)' = Written(k)
    BY <2>1, <2>2 DEF Written
  <2>5. u \notin Written(j) /\ \A k \in Jobs : Written(k) \subseteq Updates \ {u}
    BY <2>1 DEF Written
  <2>6. rows'[j] = row /\ \A k \in Jobs \ {j} : rows'[k] = rows[k]
    BY <1>1, <2>1, <2>2 DEF TypeOK
  <2>7. OneAnswer'
    BY <2>2, <2>3, <2>4, <2>5, <2>6 DEF RowsInv, OneAnswer
  <2>8. TaskFollowsRow'
    <3> SUFFICES ASSUME NEW k \in Jobs \ crossed', started, Written(k)' = {}
                 PROVE  /\ Schedulable(rows'[k]) <=> tasks[k] # NoCronTask
                        /\ Schedulable(rows'[k]) => cronOf[tasks[k]] = rows'[k].cron
      BY <2>2 DEF TaskFollowsRow
    <3>1. k # j
      BY <2>2 DEF Written
    <3>2. k \in Jobs \ crossed /\ Written(k) = {}
      BY <2>2, <2>3, <3>1 DEF Written
    <3> QED
      BY <2>6, <3>1, <3>2 DEF RowsInv, TaskFollowsRow
  <2> QED
    BY <1>1, <2>7, <2>8 DEF RowsInv
<1>9. ASSUME NEW u \in Updates, ApplyRow(u) PROVE RowsInv'
  <2> DEFINE j == update[u].job
             row == update[u].row
  <2>1. j \in Jobs /\ update[u] \in Update /\ u \in Written(j)
    BY <1>1, <1>9 DEF TypeOK, Update, ApplyRow, Written
  <2>2. update'[u].at = "done" /\ \A v \in Updates \ {u} : update'[v] = update[v]
    BY <1>1, <1>9, NoUpdateType DEF ApplyRow, UpdateDone, TypeOK, Update
  <2>3. UNCHANGED <<rows, started, crossed>>
    BY <1>9 DEF ApplyRow
  <2>4. \A k \in Jobs : Written(k)' = Written(k) \ {u}
    BY <2>2 DEF Written
  <2>5. OneAnswer'
    BY <2>2, <2>3, <2>4 DEF RowsInv, OneAnswer, Written
  <2>6. TaskFollowsRow'
    <3> SUFFICES ASSUME NEW k \in Jobs \ crossed, started, Written(k)' = {}
                 PROVE  /\ Schedulable(rows[k]) <=> tasks'[k] # NoCronTask
                        /\ Schedulable(rows[k]) => cronOf'[tasks'[k]] = rows[k].cron
      BY <2>3 DEF TaskFollowsRow
    <3>1. RescheduleJob(u, j, row)
      BY <1>9 DEF ApplyRow
    <3>2. \A i \in Jobs : tasks[i] # u
      <4>1. update[u].at = "written"
        BY <1>9 DEF ApplyRow
      <4> QED
        BY <1>1, <4>1, NamesAssumption DEF TasksInv, MadeFor
    <3>3. CASE k = j
      <4>1. row = rows[j]
        BY <2>1, <3>3 DEF RowsInv, OneAnswer
      <4> QED
        BY <1>1, <2>1, <3>1, <3>3, <4>1, NamesAssumption
        DEF RescheduleJob, TypeOK, Tasks
    <3>4. CASE k # j
      <4>1. Written(k) = {}
        BY <2>4, <3>4 DEF Written
      <4>2. tasks'[k] = tasks[k] /\ (cronOf'[tasks[k]] = cronOf[tasks[k]] \/ tasks[k] = NoCronTask)
        BY <1>1, <3>1, <3>2, <3>4 DEF RescheduleJob, TypeOK, Tasks
      <4>3. tasks'[k] = tasks[k]
        BY <1>1, <3>1, <3>4 DEF RescheduleJob, TypeOK
      <4> QED
        BY <4>1, <4>2, <4>3 DEF RowsInv, TaskFollowsRow
    <3> QED
      BY <3>3, <3>4
  <2> QED
    BY <1>1, <2>5, <2>6 DEF RowsInv
<1>10. ASSUME NEW r \in Runs, NEW j \in Jobs, RunNext(r) \/ AskRun(r, j) PROVE RowsInv'
  BY <1>3, <1>10 DEF RunNext, AskRun, FindRow, Begin, CallbackEnds, Fails, Saved
<1>11. CASE UNCHANGED vars
  BY <1>3, <1>11 DEF vars
<1>12. ASSUME NEW r \in Runs, RunNext(r) PROVE RowsInv'
  BY <1>10, <1>12, AJobIsJob
<1> QED
  BY <1>4, <1>5, <1>6, <1>7, <1>8, <1>9, <1>10, <1>11, <1>12 DEF Next, UpdateNext

\* Two callbacks of one job never execute together, and the marks are their jobs'.
MarksInv == RunsInv /\ MarksAreRuns

LEMMA MarksStep == MarksInv /\ [Next]_vars => MarksInv'
<1> SUFFICES ASSUME MarksInv, [Next]_vars PROVE MarksInv'
  OBVIOUS
<1> USE DEF MarksAreRuns
<1>1. RunsInv /\ RunsInv' /\ MarksAreRuns /\ TypeOK
  BY RunsStep DEF MarksInv, RunsInv
\* The runs that execute, and the marks, stay as they are.
<1>2. ASSUME running' = running,
             \A s \in Runs : /\ Executing(s)' <=> Executing(s)
                             /\ Executing(s) => run'[s].job = run[s].job
      PROVE  MarksInv'
  BY <1>1, <1>2 DEF MarksInv
<1>3. ASSUME UNCHANGED <<running, run>> PROVE MarksInv'
  BY <1>2, <1>3 DEF Executing
<1>4. CASE StartScheduler \/ Stop \/ UNCHANGED vars
  BY <1>3, <1>4 DEF StartScheduler, Stop, vars
<1>5. ASSUME NEW u \in Updates, UpdateNext(u) PROVE MarksInv'
  BY <1>3, <1>5 DEF UpdateNext, AskUpdate, WriteRow, UpdateFails, ApplyRow
<1>6. ASSUME NEW r \in Runs, NEW j \in Jobs, AskRun(r, j) PROVE MarksInv'
  BY <1>1, <1>2, <1>6 DEF AskRun, TypeOK, Executing
<1>7. ASSUME NEW r \in Runs, FindRow(r) PROVE MarksInv'
  <2>1. PICK at \in {"found", "done"} : run' = [run EXCEPT ![r].at = at]
    BY <1>7 DEF FindRow, RunStep
  <2> QED
    BY <1>1, <1>2, <1>7, <2>1 DEF FindRow, TypeOK, Run, Executing
<1>8. ASSUME NEW r \in Runs, Begin(r) PROVE MarksInv'
  <2>1. run[r] \in Run /\ run[r].job \in Jobs /\ ~Executing(r)
    BY <1>1, <1>8 DEF TypeOK, Run, Begin, Executing
  <2>2. CASE run[r].job \in running
    BY <1>1, <1>2, <1>8, <2>1, <2>2 DEF Begin, RunStep, TypeOK, Run, Executing
  <2>3. CASE run[r].job \notin running
    <3>1. /\ running' = running \cup {run[r].job}
          /\ Executing(r)' /\ run'[r].job = run[r].job
          /\ \A s \in Runs \ {r} : run'[s] = run[s]
      BY <1>1, <1>8, <2>1, <2>3 DEF Begin, RunStep, TypeOK, Run, Executing
    <3>2. {s \in Runs : Executing(s)}' = {s \in Runs : Executing(s)} \cup {r}
      BY <2>1, <3>1 DEF Executing
    <3> QED
      BY <1>1, <2>1, <3>1, <3>2 DEF MarksInv
  <2> QED
    BY <2>2, <2>3
<1>9. ASSUME NEW r \in Runs, CallbackEnds(r) PROVE MarksInv'
  BY <1>1, <1>2, <1>9 DEF CallbackEnds, RunStep, TypeOK, Run, Executing
<1>10. ASSUME NEW r \in Runs, Fails(r) \/ Saved(r) PROVE MarksInv'
  <2>1. /\ Executing(r) /\ ~Executing(r)' /\ running' = running \ {run[r].job}
        /\ \A s \in Runs \ {r} : run'[s] = run[s]
    BY <1>1, <1>10 DEF Fails, Saved, RunStep, TypeOK, Run, Executing
  <2>2. {s \in Runs : Executing(s)}' = {s \in Runs : Executing(s)} \ {r}
    BY <2>1 DEF Executing
  <2>3. \A s \in Runs \ {r} : Executing(s) => run[s].job # run[r].job
    BY <1>1, <2>1 DEF RunsInv, NoOverlap
  <2> QED
    BY <1>1, <2>1, <2>2, <2>3 DEF MarksInv
<1> QED
  BY <1>4, <1>5, <1>6, <1>7, <1>8, <1>9, <1>10 DEF Next, RunNext

\* The cron tasks that fire are the rows', as the rows say, unless the answers of two updates
\* of a job crossed; and a job is marked as running exactly while one of its runs executes,
\* however many updates and runs are under way and whatever fails.
THEOREM TasksFollowTheRows == Spec => []TasksAreTheRows
<1>1. Init => RowsInv
  BY SchedulerTypeInit DEF Init, RowsInv, TasksInv, NoStrayTask, OneAnswer, Written, NoUpdate,
                           TaskFollowsRow
<1>2. Init => MarksInv
  BY SchedulerTypeInit DEF Init, MarksInv, RunsInv, NoOverlap, Executing, MarksAreRuns
<1>3. RowsInv /\ MarksInv => TasksAreTheRows
  BY DEF RowsInv, TasksInv, MarksInv, TasksAreTheRows
<1> QED
  BY <1>1, <1>2, <1>3, RowsStep, MarksStep, PTL DEF Spec

--------------------------------------------------------------------------------
\* The terminal

\* Where a bridge stands while it is being built, and that it is only built for a page
\* that has opened its socket.
BridgeStands ==
    /\ socket = "none" <=> bridge = "none"
    /\ terminal = "loading" => bridge = "none"
    /\ bridge \in {"none", "asked", "refused", "creating", "starting"} => exec = "none"
    /\ bridge \in {"none", "asked", "refused"} => ~idle.armed
    /\ bridge = "failed" => ~idle.armed /\ socket = "closed"
    /\ bridge = "refused" => socket = "closed"
    /\ bridge \in {"asked", "creating", "starting", "resizing"} /\ socket = "closed" => early

TerminalIInv == TerminalTypeOK /\ BridgeStands /\ NothingLeft

Timers == [armed : BOOLEAN, ticks : 0 .. IdleTicks]

LEMMA TimerValues ==
    /\ Disarmed \in Timers /\ Disarmed.armed = FALSE
    /\ Armed \in Timers /\ Armed.armed = TRUE /\ Armed.ticks = 0
    /\ \A t \in Timers : t.armed /\ t.ticks < IdleTicks
         => /\ [t EXCEPT !.ticks = @ + 1] \in Timers
            /\ [t EXCEPT !.ticks = @ + 1].armed = TRUE
            /\ [t EXCEPT !.ticks = @ + 1].ticks = t.ticks + 1
<1>1. 0 \in 0 .. IdleTicks
  BY TerminalAssumption
<1>2. \A n \in 0 .. IdleTicks : n < IdleTicks => n + 1 \in 0 .. IdleTicks
  BY TerminalAssumption
<1> QED
  BY <1>1, <1>2 DEF Disarmed, Armed, Timers

\* How a socket closes, whoever closes it.
LEMMA SocketCloses ==
    ASSUME TerminalIInv, ClosesSocket
    PROVE  /\ socket' = IF socket = "open" THEN "closed" ELSE socket
           /\ early' \in BOOLEAN /\ idle' \in Timers
           /\ exec' \in {exec, "destroyed"} /\ (exec' = exec \/ bridge = "joined")
           /\ early => early'
           /\ socket = "open" /\ bridge = "joined" => ~idle'.armed /\ exec' = "destroyed"
           /\ socket # "open" => idle' = idle /\ exec' = exec
           /\ socket = "open" /\ bridge # "joined" => early' /\ idle' = idle /\ exec' = exec
           /\ idle' = idle \/ ~idle'.armed
<1>1. early \in BOOLEAN /\ (early \/ socket = "open") \in BOOLEAN
  BY DEF TerminalIInv, TerminalTypeOK
<1>2. idle \in Timers
  BY DEF TerminalIInv, TerminalTypeOK, Timers
<1> QED
  BY <1>1, <1>2, TimerValues DEF ClosesSocket

LEMMA TerminalBegins == TerminalInit => TerminalIInv
<1> USE TerminalAssumption, TimerValues
<1>1. 0 \in 0 .. MaxMessages /\ 0 \in 0 .. IdleTicks
  OBVIOUS
<1> QED
  BY <1>1 DEF TerminalInit, TerminalIInv, TerminalTypeOK, BridgeStands, NothingLeft, Timers

LEMMA TerminalStep == TerminalIInv /\ [TerminalNext]_terminalVars => TerminalIInv'
<1> SUFFICES ASSUME TerminalIInv, [TerminalNext]_terminalVars PROVE TerminalIInv'
  OBVIOUS
<1> USE DEF TerminalIInv, TerminalTypeOK, BridgeStands, NothingLeft, Timers
<1>0. /\ 0 \in 0 .. IdleTicks
      /\ \A n \in 0 .. MaxMessages : n < MaxMessages => n + 1 \in 0 .. MaxMessages
      /\ \A n \in 0 .. IdleTicks : n < IdleTicks => n + 1 \in 0 .. IdleTicks
      /\ 0 \in 0 .. MaxMessages
  BY TerminalAssumption
<1>1. CASE TerminalOpens
  BY <1>1 DEF TerminalOpens
<1>2. CASE TerminalLeft
  BY <1>2, SocketCloses DEF TerminalLeft
<1>3. CASE ConnectionLost
  BY <1>3, SocketCloses DEF ConnectionLost
<1>4. CASE TerminalRefused
  BY <1>4, SocketCloses DEF TerminalRefused
<1>5. CASE BridgeBegins
  BY <1>0, <1>5, TimerValues DEF BridgeBegins
<1>6. CASE BridgeCreates
  BY <1>6 DEF BridgeCreates
<1>7. CASE BridgeStarts
  BY <1>7 DEF BridgeStarts
<1>8. CASE BridgeJoins
  BY <1>8 DEF BridgeJoins
<1>9. CASE BridgeFails
  BY <1>9, TimerValues DEF BridgeFails
<1>10. CASE ExecPrints
  BY <1>0, <1>10, TimerValues DEF ExecPrints
<1>11. CASE ExecEnds
  BY <1>11, SocketCloses DEF ExecEnds
<1>12. CASE TerminalTyped
  BY <1>0, <1>12, TimerValues DEF TerminalTyped
<1>13. CASE WindowEnds
  BY <1>0, <1>13 DEF WindowEnds
<1>14. CASE IdleFires
  <2>1. (early \/ socket = "open") \in BOOLEAN
    OBVIOUS
  <2>2. CASE socket = "open" /\ bridge = "joined"
    BY <1>14, <2>2, SocketCloses DEF IdleFires
  <2>3. CASE ~(socket = "open" /\ bridge = "joined")
    BY <1>14, <2>1, <2>3, TimerValues DEF IdleFires
  <2> QED
    BY <2>2, <2>3
<1>15. CASE IdleTick
  BY <1>0, <1>15, TimerValues DEF IdleTick
<1>16. CASE UNCHANGED terminalVars
  BY <1>16 DEF terminalVars
<1> QED
  BY <1>1, <1>2, <1>3, <1>4, <1>5, <1>6, <1>7, <1>8, <1>9, <1>10, <1>11, <1>12, <1>13,
     <1>14, <1>15, <1>16 DEF TerminalNext

LEMMA TerminalInvariant == TerminalSpec => []TerminalIInv
<1> QED
  BY TerminalBegins, TerminalStep, PTL DEF TerminalSpec

\* Neither a socket, a stream nor a timer is left of a terminal that is over, for any idle
\* time and rate (attachDockerExecSession, attach-exec.ts:58), but for the two cases the
\* property names.
THEOREM TerminalLeavesNothing == TerminalSpec => []NothingLeft
<1>1. TerminalIInv => NothingLeft
  BY DEF TerminalIInv
<1> QED
  BY <1>1, TerminalInvariant, PTL

--------------------------------------------------------------------------------
\* The update of Docker

Percents == 0 .. 100

HostStatuses ==
    [updating : BOOLEAN, target : Components \cup {"none"}, percent : Percents,
     step : {"idle", "start", "line", "done", "error"}, ok : {"none", "yes", "no"}]

HostStatusOK == hostStatus \in HostStatuses

ScriptsOK ==
    /\ script \in [HostCalls -> [state : {"none", "running", "ok", "failed"},
                                 component : Components, lines : Seq(Percents), printed : Nat]]
    /\ \A c \in HostCalls : script[c].printed <= Len(script[c].lines)

ClientsOK ==
    client \in [HostCalls -> [pc : {"none", "listening", "over"}, taken : Nat,
                             rest : Seq(Percents)]]

\* At most one client listens, exactly while the status says that an update runs; a script
\* is of the component the status names, and one that nobody listens to is an orphan.
OneUpdate ==
    /\ hostStatus.updating <=> \E c \in HostCalls : ClientListens(c)
    /\ \A c, d \in HostCalls : ClientListens(c) /\ ClientListens(d) => c = d
    /\ \A c \in HostCalls :
         /\ ClientListens(c) /\ script[c].state # "none" => script[c].component = hostStatus.target
         /\ ScriptRuns(c) => ClientListens(c) \/ c \in orphans
         /\ client[c].pc = "none" => script[c].state = "none"

HostIInv == HostStatusOK /\ ScriptsOK /\ ClientsOK /\ OneUpdate /\ apiStarts \in Nat

LEMMA LinesArePercents == ScriptLines \subseteq Seq(Percents)
BY DEF ScriptLines, Percents

LEMMA HostInit == HostUpdateInit => HostIInv
<1>1. << >> \in Seq(Percents) /\ Len(<< >>) = 0
  OBVIOUS
<1> QED
  BY <1>1 DEF HostUpdateInit, HostIInv, HostStatusOK, HostStatuses, ScriptsOK, ClientsOK,
         OneUpdate, NoScript,
         NoClient, IdleStatus, Components, Percents, ClientListens, ScriptRuns

\* A line that is shown leaves the rest of the status, and does not go back.
LEMMA IngestedLine ==
    ASSUME HostStatusOK, NEW percent \in Percents
    PROVE  LET new == Ingested(hostStatus, percent)
           IN  /\ new \in HostStatuses
               /\ new.updating = hostStatus.updating /\ new.target = hostStatus.target
               /\ new.percent >= hostStatus.percent
<1> DEFINE shown == [hostStatus EXCEPT !.percent = percent, !.step = "line"]
<1>1. hostStatus.percent \in Int /\ percent \in Int
  BY DEF HostStatusOK, HostStatuses, Percents
<1>2. /\ shown \in HostStatuses /\ shown.percent = percent
      /\ shown.updating = hostStatus.updating /\ shown.target = hostStatus.target
  BY DEF HostStatusOK, HostStatuses
<1>3. CASE percent < hostStatus.percent
  BY <1>1, <1>3 DEF Ingested, HostStatusOK
<1>4. CASE ~(percent < hostStatus.percent)
  <2>1. Ingested(hostStatus, percent) = shown
    BY <1>4 DEF Ingested
  <2> HIDE DEF shown
  <2> QED
    BY <1>1, <1>2, <1>4, <2>1
<1> QED
  BY <1>3, <1>4

\* The status after an update has ended.
Ended(new) ==
    /\ new \in HostStatuses /\ new.updating = FALSE /\ new.target = hostStatus.target
    /\ new.percent >= hostStatus.percent

LEMMA EndedStatus ==
    ASSUME HostStatusOK
    PROVE  /\ Ended(UpdateFailed) /\ UpdateFailed.ok = "no"
           /\ Ended(UpdateSucceeded) /\ UpdateSucceeded.ok = "yes"
<1>1. hostStatus.percent \in Int /\ hostStatus.percent <= 100 /\ 100 \in Percents
  BY DEF HostStatusOK, HostStatuses, Percents
<1>2. Ended(UpdateFailed) /\ UpdateFailed.ok = "no"
  <2>1. /\ UpdateFailed \in HostStatuses /\ UpdateFailed.percent = hostStatus.percent
        /\ UpdateFailed.updating = FALSE /\ UpdateFailed.target = hostStatus.target
        /\ UpdateFailed.ok = "no"
    BY DEF HostStatusOK, HostStatuses, UpdateFailed
  <2> QED
    BY <1>1, <2>1 DEF Ended
<1>3. Ended(UpdateSucceeded) /\ UpdateSucceeded.ok = "yes"
  BY <1>1 DEF HostStatusOK, HostStatuses, UpdateSucceeded, Ended
<1> QED
  BY <1>2, <1>3

--------------------------------------------------------------------------------

\* What is shown of one step, and how an update may have ended in it.
ShowsTrue ==
    (\A c \in HostCalls : ReportsTheScript(c) /\ StartsAlone(c)) /\ ShownInOrder

\* An update ends: its client is over, the status says so, and other calls are left alone.
LEMMA UpdateEnds ==
    ASSUME HostIInv, NEW c \in HostCalls, ClientListens(c), ScriptsOK', ClientsOK',
           UNCHANGED apiStarts,
           hostStatus' \in {UpdateFailed, UpdateSucceeded}, client'[c].pc = "over",
           \A d \in HostCalls \ {c} : client'[d] = client[d] /\ script'[d] = script[d],
           orphans \subseteq orphans', ScriptRuns(c)' => ScriptRuns(c) /\ c \in orphans',
           hostStatus' = UpdateSucceeded =>
               script[c].state = "ok",
           hostStatus' = UpdateFailed =>
               script'[c].state \in {"failed", "none"} \/ c \in orphans'
    PROVE  HostIInv' /\ ShowsTrue
<1>1. /\ hostStatus' \in HostStatuses /\ hostStatus'.updating = FALSE
      /\ hostStatus'.percent >= hostStatus.percent
      /\ hostStatus'.ok = "yes" => hostStatus' = UpdateSucceeded
      /\ hostStatus'.ok = "no" => hostStatus' = UpdateFailed
  BY EndedStatus DEF HostIInv, Ended
<1>2. \A d \in HostCalls : ~ClientListens(d)'
  BY DEF HostIInv, OneUpdate, ClientListens
<1>3. HostIInv'
  BY <1>1, <1>2 DEF HostIInv, OneUpdate, HostStatusOK, ScriptRuns, ClientListens
<1>4. \A d \in HostCalls : ReportsTheScript(d)
  BY <1>1 DEF HostIInv, OneUpdate, ReportsTheScript, Reports, ClientListens
<1>5. \A d \in HostCalls : StartsAlone(d)
  BY DEF StartsAlone, ScriptRuns
<1>6. ShownInOrder
  BY <1>1 DEF ShownInOrder, HostIInv, OneUpdate
<1> QED
  BY <1>3, <1>4, <1>5, <1>6 DEF ShowsTrue

LEMMA StartStep ==
    ASSUME HostIInv, NEW c \in HostCalls, ApplyStarts(c)
    PROVE  HostIInv' /\ ShowsTrue
<1>1. PICK component \in Components :
        /\ hostStatus' = [updating |-> TRUE, target |-> component, percent |-> 2,
                          step |-> "start", ok |-> "none"]
        /\ \/ \E lines \in ScriptLines :
                 script' = [script EXCEPT ![c] = [NoScript EXCEPT !.state = "running",
                                                                 !.component = component,
                                                                 !.lines = lines]]
           \/ UNCHANGED script
  BY DEF ApplyStarts
<1>2. /\ ~hostStatus.updating /\ client[c].pc = "none" /\ UNCHANGED <<orphans, apiStarts>>
      /\ client' = [client EXCEPT ![c].pc = "listening"]
  BY DEF ApplyStarts, MayUpdate
<1>3. HostStatusOK'
  <2>1. 2 \in Percents
    BY DEF Percents
  <2>2. [updating |-> TRUE, target |-> component, percent |-> 2, step |-> "start",
         ok |-> "none"] \in HostStatuses
    BY <2>1 DEF HostStatuses
  <2> QED
    BY <1>1, <2>2 DEF HostStatusOK
<1>4. /\ ClientsOK' /\ ClientListens(c)' /\ ~ClientListens(c)
      /\ \A d \in HostCalls \ {c} : client'[d] = client[d]
  BY <1>2 DEF HostIInv, ClientsOK, ClientListens
<1>5. /\ ScriptsOK' /\ \A d \in HostCalls \ {c} : script'[d] = script[d]
      /\ script'[c] = script[c] \/ script'[c].component = component
  <2>1. CASE UNCHANGED script
    BY <2>1 DEF HostIInv, ScriptsOK
  <2>2. ASSUME NEW lines \in ScriptLines,
               script' = [script EXCEPT ![c] = [NoScript EXCEPT !.state = "running",
                                                               !.component = component,
                                                               !.lines = lines]]
        PROVE  <1>5
    <3>1. lines \in Seq(Percents) /\ Len(lines) \in Nat
      BY LinesArePercents
    <3> DEFINE new == [NoScript EXCEPT !.state = "running", !.component = component,
                                       !.lines = lines]
    <3>2. /\ new \in [state : {"none", "running", "ok", "failed"}, component : Components,
                      lines : Seq(Percents), printed : Nat]
          /\ new.printed = 0 /\ new.lines = lines /\ new.component = component
      BY <3>1 DEF NoScript
    <3> HIDE DEF new
    <3> QED
      BY <2>2, <3>1, <3>2 DEF HostIInv, ScriptsOK, new
  <2> QED
    BY <1>1, <2>1, <2>2
<1>6. script[c].state = "running" => c \in orphans
  BY <1>4 DEF HostIInv, OneUpdate, ScriptRuns
<1>7. OneUpdate'
  <2>1. /\ hostStatus'.updating = TRUE /\ hostStatus'.target = component
        /\ client'[c].pc = "listening"
    BY <1>1, <1>4 DEF ClientListens
  <2>2. \A d \in HostCalls : client[d].pc # "listening"
    BY <1>2 DEF HostIInv, OneUpdate, ClientListens
  <2>3. \A d \in HostCalls : client'[d].pc = "listening" <=> d = c
    BY <1>4, <2>1, <2>2
  <2>4. script'[c].state # "none" => script'[c].component = component
    BY <1>2, <1>5 DEF HostIInv, OneUpdate
  <2> QED
    BY <1>2, <1>4, <1>5, <2>1, <2>2, <2>3, <2>4 DEF HostIInv, OneUpdate, ClientListens, ScriptRuns
<1>8. ShowsTrue
  BY <1>1, <1>2, <1>4, <1>5
     DEF ShowsTrue, ReportsTheScript, Reports, StartsAlone, ShownInOrder, HostIInv, OneUpdate,
         ClientListens, ScriptRuns
<1> QED
  BY <1>2, <1>3, <1>4, <1>5, <1>7, <1>8 DEF HostIInv

\* A script prints or ends: the status and the clients do not change.
LEMMA ScriptStep ==
    ASSUME HostIInv, NEW c \in HostCalls, ScriptPrints(c) \/ ScriptEnds(c)
    PROVE  HostIInv' /\ ShowsTrue
<1>1. /\ UNCHANGED <<hostStatus, client, orphans, apiStarts>> /\ script[c].state = "running"
      /\ \A d \in HostCalls \ {c} : script'[d] = script[d]
  BY DEF ScriptPrints, ScriptEnds, ScriptRuns, HostIInv, ScriptsOK
<1>2. /\ ScriptsOK'
      /\ script'[c].state = "none" \/ script'[c].component = script[c].component
      /\ c \in orphans \/ script'[c].state # "none"
  <2>1. CASE ScriptPrints(c)
    <3> DEFINE more == [script[c] EXCEPT !.printed = @ + 1]
    <3>1. /\ script' = [script EXCEPT ![c] = more]
          /\ script[c].printed < Len(script[c].lines)
      BY <2>1 DEF ScriptPrints, HostIInv, ScriptsOK
    <3>2. /\ more \in [state : {"none", "running", "ok", "failed"}, component : Components,
                       lines : Seq(Percents), printed : Nat]
          /\ more.lines = script[c].lines /\ more.printed = script[c].printed + 1
          /\ more.component = script[c].component /\ more.state = script[c].state
      <4>1. /\ script[c] \in [state : {"none", "running", "ok", "failed"},
                              component : Components, lines : Seq(Percents), printed : Nat]
            /\ script[c].printed + 1 \in Nat
        BY DEF HostIInv, ScriptsOK
      <4>2. more = [script[c] EXCEPT !.printed = script[c].printed + 1]
        OBVIOUS
      <4> HIDE DEF more
      <4> QED
        BY <4>1, <4>2
    <3> HIDE DEF more
    <3>3. more.printed <= Len(more.lines)
      BY <3>1, <3>2 DEF HostIInv, ScriptsOK
    <3> QED
      BY <1>1, <3>1, <3>2, <3>3 DEF HostIInv, ScriptsOK
  <2>2. CASE ScriptEnds(c)
    <3> DEFINE ended == IF script[c].printed = Len(script[c].lines)
                             /\ script[c].lines[script[c].printed] = 100
                        THEN "ok" ELSE "failed"
    <3>1. script' = [script EXCEPT ![c] = IF c \in orphans THEN NoScript
                                          ELSE [script[c] EXCEPT !.state = ended]]
      BY <2>2 DEF ScriptEnds, HostIInv, ScriptsOK
    <3>2. ended \in {"ok", "failed"}
      OBVIOUS
    <3> HIDE DEF ended
    <3>3. << >> \in Seq(Percents) /\ Len(<< >>) = 0
      OBVIOUS
    <3>4. CASE c \in orphans
      BY <3>1, <3>3, <3>4 DEF HostIInv, ScriptsOK, NoScript, Components
    <3>5. CASE c \notin orphans
      BY <3>1, <3>2, <3>5 DEF HostIInv, ScriptsOK
    <3> QED
      BY <3>4, <3>5
  <2> QED
    BY <2>1, <2>2
<1>3. OneUpdate'
  BY <1>1, <1>2 DEF HostIInv, OneUpdate, ClientListens, ScriptRuns
<1>4. ShowsTrue
  <2>1. hostStatus.percent \in Int
    BY DEF HostIInv, HostStatusOK, HostStatuses, Percents
  <2> QED
    BY <1>1, <2>1 DEF ShowsTrue, ReportsTheScript, Reports, StartsAlone, ShownInOrder,
                      ClientListens, ScriptRuns
<1> QED
  BY <1>1, <1>2, <1>3, <1>4 DEF HostIInv, HostStatusOK, ClientsOK

\* A line arrives: what is shown does not go back.
LEMMA LineArrivesStep ==
    ASSUME HostIInv, NEW c \in HostCalls, LineArrives(c)
    PROVE  HostIInv' /\ ShowsTrue
<1>1. UNCHANGED <<script, orphans, apiStarts>>
  BY DEF LineArrives
<1>2. PICK percent \in Percents : hostStatus' = Ingested(hostStatus, percent)
  <2>1. CASE ClientListens(c) /\ client[c].taken < script[c].printed
             /\ hostStatus' = Ingested(hostStatus, script[c].lines[client[c].taken + 1])
    <3>1. client[c].taken + 1 \in 1 .. Len(script[c].lines)
      BY <2>1 DEF HostIInv, ScriptsOK, ClientsOK
    <3> QED
      BY <2>1, <3>1 DEF HostIInv, ScriptsOK
  <2>2. CASE client[c].rest # << >> /\ hostStatus' = Ingested(hostStatus, Head(client[c].rest))
    BY <2>2 DEF HostIInv, ClientsOK
  <2> QED
    BY <2>1, <2>2 DEF LineArrives
<1>3. /\ HostStatusOK' /\ hostStatus'.updating = hostStatus.updating
      /\ hostStatus'.target = hostStatus.target /\ hostStatus'.percent >= hostStatus.percent
  BY <1>2, IngestedLine DEF HostIInv, HostStatusOK
<1>4. /\ ClientsOK' /\ \A d \in HostCalls : client'[d].pc = client[d].pc
      /\ ClientListens(c) \/ client'[c].rest # client[c].rest
  <2>1. CASE ClientListens(c) /\ client' = [client EXCEPT ![c].taken = @ + 1]
    <3>1. client[c].taken + 1 \in Nat
      BY DEF HostIInv, ClientsOK
    <3>2. client' = [client EXCEPT ![c] = [client[c] EXCEPT !.taken = client[c].taken + 1]]
      BY <2>1 DEF HostIInv, ClientsOK
    <3> QED
      BY <2>1, <3>1, <3>2 DEF HostIInv, ClientsOK, ClientListens
  <2>2. CASE client[c].rest # << >> /\ client' = [client EXCEPT ![c].rest = Tail(@)]
    <3>1. client[c].rest \in Seq(Percents)
      BY DEF HostIInv, ClientsOK
    <3>2. Tail(client[c].rest) \in Seq(Percents) /\ Len(Tail(client[c].rest)) # Len(client[c].rest)
      BY <2>2, <3>1
    <3> QED
      BY <2>2, <3>2 DEF HostIInv, ClientsOK
  <2> QED
    BY <2>1, <2>2 DEF LineArrives
<1>5. OneUpdate'
  BY <1>1, <1>3, <1>4 DEF HostIInv, OneUpdate, ClientListens, ScriptRuns
<1>6. ShowsTrue
  BY <1>1, <1>3, <1>4 DEF ShowsTrue, ReportsTheScript, Reports, StartsAlone, ShownInOrder,
                          ClientListens, ScriptRuns, HostIInv, OneUpdate
<1> QED
  BY <1>1, <1>3, <1>4, <1>5, <1>6 DEF HostIInv, ScriptsOK

\* The three ways in which a client ends while the API goes on.
LEMMA EndStep ==
    ASSUME HostIInv, NEW c \in HostCalls, ClientCloses(c) \/ ConnectionBreaks(c) \/ ApplyTimesOut(c)
    PROVE  HostIInv' /\ ShowsTrue
<1>1. << >> \in Seq(Percents)
  OBVIOUS
<1>2. Over \in [pc : {"none", "listening", "over"}, taken : Nat, rest : Seq(Percents)]
      /\ Over.pc = "over"
  BY <1>1 DEF Over, NoClient
<1>3. UpdateFailed # UpdateSucceeded
  BY EndedStatus DEF HostIInv
<1>4. CASE ClientCloses(c)
  <2>1. /\ ClientListens(c) /\ ~ScriptRuns(c) /\ UNCHANGED <<script, orphans, apiStarts>>
        /\ client' = [client EXCEPT ![c] = Over]
        /\ hostStatus' = IF script[c].state = "ok" THEN UpdateSucceeded ELSE UpdateFailed
    BY <1>4 DEF ClientCloses, ReportOf
  <2>2. ClientsOK' /\ ScriptsOK' /\ client'[c].pc = "over"
        /\ \A d \in HostCalls \ {c} : client'[d] = client[d]
    BY <1>2, <2>1 DEF HostIInv, ClientsOK, ScriptsOK
  <2>3. script[c].state \in {"none", "ok", "failed"}
    BY <2>1 DEF HostIInv, ScriptsOK, ScriptRuns
  <2> QED
    BY <1>3, <2>1, <2>2, <2>3, UpdateEnds DEF ScriptRuns
<1>5. CASE ConnectionBreaks(c)
  <2>1. /\ ClientListens(c) /\ ScriptRuns(c) /\ hostStatus' = UpdateFailed
        /\ UNCHANGED apiStarts
        /\ client' = [client EXCEPT ![c] = Over]
        /\ \/ script' = [script EXCEPT ![c].state = "failed"] /\ UNCHANGED orphans
           \/ UNCHANGED script /\ orphans' = orphans \cup {c}
    BY <1>5 DEF ConnectionBreaks, ReportOf
  <2>2. ClientsOK' /\ client'[c].pc = "over" /\ \A d \in HostCalls \ {c} : client'[d] = client[d]
    BY <1>2, <2>1 DEF HostIInv, ClientsOK
  <2>3. /\ ScriptsOK' /\ \A d \in HostCalls \ {c} : script'[d] = script[d]
        /\ orphans \subseteq orphans'
        /\ script'[c].state = "failed" \/ c \in orphans'
        /\ script'[c].state = "running" => c \in orphans'
    <3>1. CASE UNCHANGED script /\ orphans' = orphans \cup {c}
      BY <3>1 DEF HostIInv, ScriptsOK
    <3>2. CASE script' = [script EXCEPT ![c].state = "failed"] /\ UNCHANGED orphans
      BY <3>2 DEF HostIInv, ScriptsOK
    <3> QED
      BY <2>1, <3>1, <3>2
  <2> QED
    BY <1>3, <2>1, <2>2, <2>3, UpdateEnds DEF ScriptRuns
<1>6. CASE ApplyTimesOut(c)
  <2> DEFINE late == SubSeq(script[c].lines, client[c].taken + 1, script[c].printed)
  <2>1. /\ ClientListens(c) /\ ScriptRuns(c) /\ hostStatus' = UpdateFailed
        /\ UNCHANGED <<script, apiStarts>>
        /\ client' = [client EXCEPT ![c] = [Over EXCEPT !.rest = late]]
        /\ orphans' = orphans \cup {c}
    BY <1>6 DEF ApplyTimesOut
  <2>2. late \in Seq(Percents)
    <3>1. /\ script[c].lines \in Seq(Percents) /\ client[c].taken + 1 \in 1 .. client[c].taken + 1
          /\ script[c].printed \in 0 .. Len(script[c].lines)
      BY DEF HostIInv, ScriptsOK, ClientsOK
    <3>2. \A i \in client[c].taken + 1 .. script[c].printed : script[c].lines[i] \in Percents
      BY <3>1 DEF HostIInv, ScriptsOK, ClientsOK
    <3> QED
      BY <3>1, <3>2, SubSeqProperties DEF HostIInv, ScriptsOK, ClientsOK
  <2> HIDE DEF late
  <2>3. /\ ClientsOK' /\ ScriptsOK' /\ client'[c].pc = "over"
        /\ \A d \in HostCalls \ {c} : client'[d] = client[d]
    BY <1>2, <2>1, <2>2 DEF HostIInv, ClientsOK, ScriptsOK
  <2> QED
    BY <1>3, <2>1, <2>3, UpdateEnds DEF ScriptRuns
<1> QED
  BY <1>4, <1>5, <1>6

\* The API forgets the update; its script is an orphan.
LEMMA RestartStep ==
    ASSUME HostIInv, HostApiRestarts
    PROVE  HostIInv' /\ ShowsTrue
<1>1. /\ hostStatus' = IdleStatus /\ UNCHANGED script
      /\ client' = [c \in HostCalls |-> IF client[c].pc = "none" THEN NoClient ELSE Over]
      /\ orphans' = orphans \cup {c \in HostCalls : ClientListens(c) /\ ScriptRuns(c)}
      /\ apiStarts' \in Nat /\ apiStarts' # apiStarts
  BY DEF HostApiRestarts, HostIInv
<1>2. HostStatusOK' /\ hostStatus'.updating = FALSE /\ hostStatus'.ok = "none"
  BY <1>1 DEF IdleStatus, HostStatusOK, HostStatuses, Percents
<1>3. /\ ClientsOK'
      /\ \A c \in HostCalls : /\ client'[c].pc # "listening"
                              /\ client'[c].pc = "none" => client[c].pc = "none"
  <2>1. << >> \in Seq(Percents)
    OBVIOUS
  <2> QED
    BY <1>1, <2>1 DEF ClientsOK, NoClient, Over
<1>4. OneUpdate'
  BY <1>1, <1>2, <1>3 DEF HostIInv, OneUpdate, ClientListens, ScriptRuns
<1>5. ShowsTrue
  BY <1>1, <1>2 DEF ShowsTrue, ReportsTheScript, Reports, StartsAlone, ShownInOrder, ScriptRuns
<1> QED
  BY <1>1, <1>2, <1>3, <1>4, <1>5 DEF HostIInv, ScriptsOK

\* For any number of updates and restarts, the status follows the one update that is
\* listened to.
LEMMA HostStep == HostIInv /\ [HostUpdateNext]_hostVars => HostIInv' /\ [ShowsTrue]_hostVars
<1>1. ASSUME HostIInv, UNCHANGED hostVars PROVE HostIInv'
  BY <1>1 DEF hostVars, HostIInv, HostStatusOK, ScriptsOK, ClientsOK, OneUpdate, ClientListens,
              ScriptRuns
<1> QED
  BY <1>1, StartStep, ScriptStep, LineArrivesStep, EndStep, RestartStep DEF HostUpdateNext

\* Updates of Docker are reported as they ended, one at a time and in order, for any number
\* of calls and restarts of the API (DockerHostUpdateService.apply,
\* docker-host-update.service.ts:139).
THEOREM HostUpdatesAreTrue == HostUpdateSpec => HostUpdateIsTrue
<1>1. HostUpdateSpec => [][ShowsTrue]_hostVars
  BY HostInit, HostStep, PTL DEF HostUpdateSpec
<1> QED
  BY <1>1, PTL DEF HostUpdateIsTrue, ShowsTrue

\* A script prints at most three lines, and a client has no more of them.
HostLimits ==
    /\ \A c \in HostCalls : /\ Len(script[c].lines) <= 3
                            /\ client[c].taken <= 3 /\ Len(client[c].rest) <= 3
    /\ apiStarts \in 0 .. MaxApiStarts /\ orphans \subseteq HostCalls

LEMMA ThreeLines == \A lines \in ScriptLines : Len(lines) <= 3
<1> SUFFICES ASSUME NEW lines \in ScriptLines PROVE Len(lines) <= 3
  OBVIOUS
<1>1. CASE lines = <<6, 50, 100>>
  BY <1>1
<1>2. CASE lines = <<6, 0>>
  BY <1>2
<1> QED
  BY <1>1, <1>2 DEF ScriptLines

LEMMA LimitsStep ==
    HostIInv /\ HostIInv' /\ HostLimits /\ [HostUpdateNext]_hostVars => HostLimits'
<1> SUFFICES ASSUME HostIInv, HostIInv', HostLimits, [HostUpdateNext]_hostVars PROVE HostLimits'
  OBVIOUS
<1> DEFINE Kept == UNCHANGED <<apiStarts>> /\ orphans' \subseteq HostCalls
           Lines == \A d \in HostCalls : script'[d].lines \in {script[d].lines, << >>}
           Clients(c) == \A d \in HostCalls \ {c} : client'[d] = client[d]
<1>0. Len(<< >>) = 0
  OBVIOUS
<1>1. ASSUME NEW c \in HostCalls, Kept, Lines, Clients(c), client'[c].taken <= 3,
             Len(client'[c].rest) <= 3
      PROVE  HostLimits'
  BY <1>0, <1>1 DEF HostLimits
<1>2. ASSUME NEW c \in HostCalls, ApplyStarts(c) PROVE HostLimits'
  <2>1. /\ UNCHANGED <<apiStarts, orphans>> /\ client' = [client EXCEPT ![c].pc = "listening"]
        /\ \/ UNCHANGED script
           \/ \E component \in Components, lines \in ScriptLines :
                 script' = [script EXCEPT ![c] = [NoScript EXCEPT !.state = "running",
                                                                 !.component = component,
                                                                 !.lines = lines]]
    BY <1>2 DEF ApplyStarts
  <2>2. \A d \in HostCalls : script'[d].lines = script[d].lines \/ script'[d].lines \in ScriptLines
    BY <2>1 DEF NoScript, HostIInv, ScriptsOK
  <2>3. \A d \in HostCalls : Len(script'[d].lines) <= 3
    BY <2>2, ThreeLines DEF HostLimits
  <2>4. \A d \in HostCalls : client'[d].taken = client[d].taken /\ client'[d].rest = client[d].rest
    BY <2>1 DEF HostIInv, ClientsOK
  <2> QED
    BY <2>1, <2>3, <2>4 DEF HostLimits
<1>3. ASSUME NEW c \in HostCalls, ScriptPrints(c) \/ ScriptEnds(c) PROVE HostLimits'
  <2>1. UNCHANGED <<client, apiStarts, orphans>>
    BY <1>3 DEF ScriptPrints, ScriptEnds
  <2>2. CASE ScriptPrints(c)
    <3>1. script' = [script EXCEPT ![c] = [script[c] EXCEPT !.printed = script[c].printed + 1]]
      BY <2>2 DEF ScriptPrints, HostIInv, ScriptsOK
    <3>2. Lines
      BY <3>1 DEF HostIInv, ScriptsOK
    <3> QED
      BY <1>0, <2>1, <3>2 DEF HostLimits
  <2>3. CASE ScriptEnds(c)
    <3>1. PICK state \in {"ok", "failed"} :
            script' = [script EXCEPT ![c] = IF c \in orphans THEN NoScript
                                            ELSE [script[c] EXCEPT !.state = state]]
      BY <2>3 DEF ScriptEnds, HostIInv, ScriptsOK
    <3>2. Lines
      BY <3>1 DEF HostIInv, ScriptsOK, NoScript
    <3> QED
      BY <1>0, <2>1, <3>2 DEF HostLimits
  <2> QED
    BY <1>3, <2>2, <2>3
<1>4. ASSUME NEW c \in HostCalls, LineArrives(c) PROVE HostLimits'
  <2>1. UNCHANGED <<script, apiStarts, orphans>>
    BY <1>4 DEF LineArrives
  <2>2. CASE client[c].taken < script[c].printed /\ client' = [client EXCEPT ![c].taken = @ + 1]
    <3>1. client' = [client EXCEPT ![c] = [client[c] EXCEPT !.taken = client[c].taken + 1]]
      BY <2>2 DEF HostIInv, ClientsOK
    <3>2. /\ client'[c].taken = client[c].taken + 1 /\ client'[c].rest = client[c].rest
          /\ Clients(c)
      BY <3>1 DEF HostIInv, ClientsOK
    <3>3. client[c].taken + 1 <= 3
      BY <2>2 DEF HostIInv, ScriptsOK, ClientsOK, HostLimits
    <3> QED
      BY <2>1, <3>2, <3>3 DEF HostLimits
  <2>3. CASE client[c].rest # << >> /\ client' = [client EXCEPT ![c].rest = Tail(@)]
    <3>1. client[c].rest \in Seq(Percents) /\ Len(client[c].rest) <= 3
      BY DEF HostIInv, ClientsOK, HostLimits
    <3>2. Len(Tail(client[c].rest)) <= 3
      BY <2>3, <3>1
    <3>3. /\ client'[c].taken = client[c].taken /\ client'[c].rest = Tail(client[c].rest)
          /\ Clients(c)
      BY <2>3 DEF HostIInv, ClientsOK
    <3> QED
      BY <2>1, <3>2, <3>3 DEF HostLimits
  <2> QED
    BY <1>4, <2>2, <2>3 DEF LineArrives
<1>5. Over.taken = 0 /\ Over.rest = << >> /\ NoClient.taken = 0 /\ NoClient.rest = << >>
  BY DEF Over, NoClient
<1>6. ASSUME NEW c \in HostCalls, ClientCloses(c) \/ ConnectionBreaks(c) PROVE HostLimits'
  <2>1. client' = [client EXCEPT ![c] = Over] /\ UNCHANGED apiStarts
    BY <1>6 DEF ClientCloses, ConnectionBreaks
  <2>2. orphans' \subseteq HostCalls
    BY <1>6 DEF ClientCloses, ConnectionBreaks, HostLimits
  <2>4. Lines
    <3>1. CASE UNCHANGED script
      BY <3>1
    <3>2. CASE script' = [script EXCEPT ![c] = [script[c] EXCEPT !.state = "failed"]]
      BY <3>2 DEF HostIInv, ScriptsOK
    <3> QED
      BY <1>6, <3>1, <3>2 DEF ClientCloses, ConnectionBreaks, HostIInv, ScriptsOK
  <2>3. Clients(c) /\ client'[c] = Over
    BY <2>1 DEF HostIInv, ClientsOK
  <2> QED
    BY <1>0, <1>5, <2>1, <2>2, <2>3, <2>4 DEF HostLimits
<1>7. ASSUME NEW c \in HostCalls, ApplyTimesOut(c) PROVE HostLimits'
  <2> DEFINE lines == script[c].lines
             late == SubSeq(lines, client[c].taken + 1, script[c].printed)
  <2>1. client' = [client EXCEPT ![c] = [Over EXCEPT !.rest = late]]
        /\ UNCHANGED <<apiStarts, script>> /\ orphans' = orphans \cup {c}
    BY <1>7 DEF ApplyTimesOut
  <2>2. Len(late) <= 3
    <3>1. /\ lines \in Seq(Percents) /\ client[c].taken \in Nat
          /\ script[c].printed \in 0 .. Len(lines) /\ Len(lines) <= 3
      BY DEF HostIInv, ScriptsOK, ClientsOK, HostLimits
    <3> HIDE DEF lines
    <3> QED
      BY <3>1
  <2> HIDE DEF late
  <2>3. client'[c].rest = late /\ client'[c].taken = 0 /\ Clients(c)
    BY <1>5, <2>1 DEF HostIInv, ClientsOK, Over, NoClient
  <2> QED
    BY <2>1, <2>2, <2>3 DEF HostLimits
<1>8. CASE HostApiRestarts
  <2>1. \A d \in HostCalls : client'[d] \in {Over, NoClient}
    BY <1>8 DEF HostApiRestarts
  <2>2. /\ apiStarts' \in 0 .. MaxApiStarts /\ orphans' \subseteq HostCalls /\ UNCHANGED script
    BY <1>8, HostUpdateAssumption DEF HostApiRestarts, HostLimits
  <2> QED
    BY <1>0, <1>5, <2>1, <2>2 DEF HostLimits
<1>9. CASE UNCHANGED hostVars
  BY <1>9 DEF hostVars, HostLimits
<1> QED
  BY <1>2, <1>3, <1>4, <1>6, <1>7, <1>8, <1>9 DEF HostUpdateNext

\* What holds of an update of Docker at every step, its bounds included.
HostAll == HostIInv /\ HostLimits

LEMMA HostAllHolds ==
    /\ HostUpdateInit => HostAll
    /\ HostAll /\ [HostUpdateNext]_hostVars => HostAll'
    /\ HostAll => HostUpdateTypeOK
<1>1. HostUpdateInit => HostLimits
  <2>1. Len(<< >>) = 0 /\ 0 \in 0 .. MaxApiStarts
    BY HostUpdateAssumption
  <2> QED
    BY <2>1 DEF HostUpdateInit, HostLimits, NoScript, NoClient
<1>2. HostAll => HostUpdateTypeOK
  <2> SUFFICES ASSUME HostAll PROVE HostUpdateTypeOK
    OBVIOUS
  <2>1. \A c \in HostCalls : /\ script[c].printed \in 0 .. Len(script[c].lines)
                             /\ client[c].taken \in 0 .. 3 /\ Len(client[c].rest) <= 3
    BY DEF HostAll, HostIInv, HostLimits, ScriptsOK, ClientsOK
  <2> QED
    BY <2>1 DEF HostAll, HostIInv, HostLimits, ScriptsOK, ClientsOK, HostStatusOK, HostStatuses,
                Percents, HostUpdateTypeOK
<1> QED
  BY <1>1, <1>2, HostInit, HostStep, LimitsStep DEF HostAll

\* The status, the scripts and their clients keep their types
\* (docker-host-update.service.ts:125).
THEOREM HostUpdateTypesStay == HostUpdateSpec => []HostUpdateTypeOK
BY HostAllHolds, PTL DEF HostUpdateSpec

--------------------------------------------------------------------------------
\* The creation of a Compose project

CreateSteps == {"idle", "mkdir", "env", "tmp", "config", "yaml", "refuse", "unenv", "clean", "up",
                "announce"}
Creations == [pc : CreateSteps, name : FileNames, env : BOOLEAN, start : BOOLEAN,
              found : Folders, checked : BOOLEAN, alone : BOOLEAN]
Scans == [pc : {"idle", "read", "fill"}, read : SUBSET FileNames, overtaken : BOOLEAN]
Memos == [held : BOOLEAN, value : SUBSET FileNames, age : Nat, by : SUBSET ScanIds]

CreateTypes ==
    /\ folder \in Folders /\ creation \in [Creators -> Creations]
    /\ removal \in [pc : {"idle", "down", "delete", "verify"}, name : FileNames]
    /\ discovery \in Memos /\ scan \in [ScanIds -> Scans]
    /\ missed \in BOOLEAN /\ changes \in 0 .. MaxChanges

\* Where the folder f stands for creation c, whose record is r, as long as nothing else changes it.
Stands(c, r, f) ==
    r.pc # "idle" /\ r.alone =>
      /\ r.found.yaml[r.name] = NoFile
      /\ r.pc = "mkdir" => f = r.found
      /\ r.pc # "mkdir" => f.there
      /\ r.pc \in {"env", "unenv"} => r.env
      /\ r.pc = "env" => f.env = r.found.env
      /\ r.pc \notin {"mkdir", "env"} => f.env = (IF r.env THEN c ELSE r.found.env)
      /\ r.pc \in {"env", "tmp"} => f.tmp = r.found.tmp
      /\ r.pc \in {"config", "yaml", "clean", "refuse"} =>
           f.tmp = [r.found.tmp EXCEPT ![r.name] = c]
      /\ r.pc \in {"up", "announce", "unenv"} => f.tmp = [r.found.tmp EXCEPT ![r.name] = NoFile]
      /\ r.pc \in {"clean", "up", "announce"} => f.yaml = [r.found.yaml EXCEPT ![r.name] = c]
      /\ r.pc \notin {"clean", "up", "announce"} => f.yaml = r.found.yaml
      /\ r.pc \in {"yaml", "clean", "up", "announce"} => r.checked

\* A listing that no step on the disk has overtaken is that of the folder.
ScansStand ==
    \A s \in ScanIds : scan[s].pc = "fill" /\ ~scan[s].overtaken => scan[s].read = Listing(folder)

CreateIInv ==
    /\ CreateTypes
    /\ \A c \in Creators : Stands(c, creation[c], folder)
    /\ \A c \in Creators : creation[c].pc # "idle" => c <= changes
    /\ ScansStand /\ ListIsCurrent

LEMMA CreateNumbers ==
    /\ Creators \subseteq FileTexts /\ NoFile \in FileTexts /\ OfUser \in FileTexts
    /\ Partial \in FileTexts /\ NumNames \in FileNames /\ 1 \in FileNames
    /\ Creators \subseteq Nat /\ MaxChanges \in Nat /\ DiscoveryTtl \in Nat
<1>1. MaxChanges \in Nat /\ NumNames \in Nat \ {0} /\ DiscoveryTtl \in Nat
  BY ComposeCreateAssumption
<1> QED
  BY <1>1 DEF Creators, FileTexts, NoFile, OfUser, Partial, FileNames

LEMMA NoFolderHasType ==
    /\ NoFolder \in Folders /\ NoFolder.there = FALSE /\ NoFolder.env = NoFile
    /\ NoFolder.yaml = [n \in FileNames |-> NoFile]
BY CreateNumbers DEF NoFolder, Folders

LEMMA NoCreationHasType ==
    NoCreation \in Creations /\ NoCreation.pc = "idle"
<1>1. NoFolder \in Folders /\ 1 \in FileNames
  BY CreateNumbers, NoFolderHasType
<1> QED
  BY <1>1 DEF NoCreation, Creations, CreateSteps

LEMMA SameFolder ==
    ASSUME NEW f \in Folders, NEW g \in Folders, f.there = g.there, f.yaml = g.yaml,
           f.tmp = g.tmp, f.env = g.env
    PROVE  f = g
BY DEF Folders

\* What the steps write into a folder.
LEMMA FolderWrites ==
    ASSUME NEW f \in Folders, NEW n \in FileNames, NEW w \in FileTexts
    PROVE  /\ [f EXCEPT !.there = TRUE] \in Folders /\ [f EXCEPT !.env = w] \in Folders
           /\ [f EXCEPT !.yaml = [f.yaml EXCEPT ![n] = w]] \in Folders
           /\ [f EXCEPT !.tmp = [f.tmp EXCEPT ![n] = w]] \in Folders
<1>1. [f.yaml EXCEPT ![n] = w] \in [FileNames -> FileTexts]
  BY DEF Folders
<1>2. [f.tmp EXCEPT ![n] = w] \in [FileNames -> FileTexts]
  BY DEF Folders
<1> QED
  BY <1>1, <1>2 DEF Folders

LEMMA ListingHasType == \A f : Listing(f) \in SUBSET FileNames
BY DEF Listing

LEMMA CreateStart == ComposeCreateInit => CreateIInv
<1> SUFFICES ASSUME ComposeCreateInit PROVE CreateIInv
  OBVIOUS
<1>1. folder \in Folders
  <2>1. CASE folder = NoFolder
    BY <2>1, NoFolderHasType
  <2>2. CASE folder # NoFolder
    <3>1. PICK e \in {NoFile, OfUser} :
            folder = [NoFolder EXCEPT !.there = TRUE, !.yaml[NumNames] = OfUser, !.env = e]
      BY <2>2 DEF ComposeCreateInit
    <3>2. e \in FileTexts
      BY <3>1, CreateNumbers
    <3>3. [NoFolder.yaml EXCEPT ![NumNames] = OfUser] \in [FileNames -> FileTexts]
      BY CreateNumbers, NoFolderHasType
    <3>4. folder = [there |-> TRUE, yaml |-> [NoFolder.yaml EXCEPT ![NumNames] = OfUser],
                    tmp |-> NoFolder.tmp, env |-> e]
      BY <3>1 DEF NoFolder
    <3> QED
      BY <3>2, <3>3, <3>4, NoFolderHasType DEF Folders
  <2> QED
    BY <2>1, <2>2
<1>2. creation \in [Creators -> Creations] /\ \A c \in Creators : creation[c].pc = "idle"
  BY NoCreationHasType DEF ComposeCreateInit
<1>3. scan \in [ScanIds -> Scans] /\ \A s \in ScanIds : scan[s].pc = "idle"
  <2>1. NoScan \in Scans /\ NoScan.pc = "idle"
    BY DEF NoScan, Scans
  <2> QED
    BY <2>1 DEF ComposeCreateInit
<1>4. discovery \in Memos /\ discovery.held = FALSE
  BY DEF ComposeCreateInit, EmptyMemo, Memos
<1>5. /\ removal \in [pc : {"idle", "down", "delete", "verify"}, name : FileNames]
      /\ missed \in BOOLEAN /\ changes \in 0 .. MaxChanges
  <2>1. missed = FALSE /\ changes = 0 /\ removal = [pc |-> "idle", name |-> 1]
    BY DEF ComposeCreateInit, NoRemoval
  <2>2. 0 \in 0 .. MaxChanges /\ 1 \in FileNames
    BY CreateNumbers
  <2> QED
    BY <2>1, <2>2
<1>6. \A c \in Creators : Stands(c, creation[c], folder)
  BY <1>2 DEF Stands
<1>7. ScansStand /\ ListIsCurrent
  BY <1>3, <1>4 DEF ScansStand, ListIsCurrent, MemoFresh
<1> QED
  BY <1>1, <1>2, <1>3, <1>4, <1>5, <1>6, <1>7 DEF CreateIInv, CreateTypes

--------------------------------------------------------------------------------
\* Steps on the disk

\* What a step on the disk that leaves the folder as f does to scans and to the other creations.
LEMMA BesideScans ==
    ASSUME CreateTypes, ScansStand, NEW f, NEW t, t = ScansBeside(f)
    PROVE  /\ t \in [ScanIds -> Scans]
           /\ \A s \in ScanIds : t[s].pc = "fill" /\ ~t[s].overtaken => t[s].read = Listing(f)
<1> SUFFICES ASSUME NEW s \in ScanIds
             PROVE  /\ t[s] \in Scans
                    /\ t[s].pc = "fill" /\ ~t[s].overtaken => t[s].read = Listing(f)
  BY DEF ScansBeside
<1>1. scan[s] \in Scans
  BY DEF CreateTypes
<1>2. PICK b \in BOOLEAN :
        b <=> scan[s].overtaken \/ (scan[s].pc = "fill" /\ Listing(f) # Listing(folder))
  OBVIOUS
<1>3. t[s] = [scan[s] EXCEPT !.overtaken = b]
  BY <1>1, <1>2 DEF ScansBeside, Scans
<1>4. /\ t[s] \in Scans /\ t[s].pc = scan[s].pc /\ t[s].read = scan[s].read
      /\ t[s].overtaken = b
  BY <1>1, <1>3 DEF Scans
<1> QED
  BY <1>2, <1>4 DEF ScansStand

LEMMA BesideCreations ==
    ASSUME CreateTypes, \A c \in Creators : Stands(c, creation[c], folder),
           NEW f, NEW t, t = CreationsBeside(f)
    PROVE  /\ t \in [Creators -> Creations]
           /\ \A c \in Creators : Stands(c, t[c], f) /\ t[c].pc = creation[c].pc
<1> SUFFICES ASSUME NEW c \in Creators
             PROVE  t[c] \in Creations /\ Stands(c, t[c], f) /\ t[c].pc = creation[c].pc
  BY DEF CreationsBeside
<1>1. creation[c] \in Creations
  BY DEF CreateTypes
<1>2. CASE ~UnderWay(c) \/ f = folder
  <2>1. t[c] = creation[c]
    BY <1>2 DEF CreationsBeside
  <2>2. Stands(c, creation[c], f)
    BY <1>2 DEF Stands, UnderWay
  <2> QED
    BY <1>1, <2>1, <2>2
<1>3. CASE ~(~UnderWay(c) \/ f = folder)
  <2>1. t[c] = [creation[c] EXCEPT !.alone = FALSE, !.found = NoFolder, !.checked = FALSE]
    BY <1>3 DEF CreationsBeside
  <2>2. t[c] \in Creations /\ t[c].alone = FALSE /\ t[c].pc = creation[c].pc
    BY <1>1, <2>1, NoFolderHasType DEF Creations
  <2> QED
    BY <2>2 DEF Stands
<1> QED
  BY <1>2, <1>3

\* A step of creation c: what is left to show.
LEMMA CreatingStands ==
    ASSUME CreateIInv, NEW c \in Creators, NEW f \in Folders, NEW to \in CreateSteps,
           CreateGoes(c, f, to), missed' \in BOOLEAN, creation[c].pc # "idle",
           to # "idle" => Stands(c, [creation[c] EXCEPT !.pc = to], f),
           missed => missed',
           creation[c].pc \in {"clean", "up", "announce"} =>
             to \in {"clean", "up", "announce"} \/ missed',
           Listing(f) = Listing(folder) \/ to = "clean" \/ missed'
    PROVE  CreateIInv'
<1>0. /\ CreateTypes /\ (\A d \in Creators : Stands(d, creation[d], folder))
      /\ ScansStand /\ ListIsCurrent
      /\ \A d \in Creators : creation[d].pc # "idle" => d <= changes
  BY DEF CreateIInv
<1>1. PICK t, u, r : t = ScansBeside(f) /\ u = CreationsBeside(f)
                     /\ r = IF to = "idle" THEN NoCreation ELSE [creation[c] EXCEPT !.pc = to]
  OBVIOUS
<1>2. /\ folder' = f /\ scan' = t /\ creation' = [u EXCEPT ![c] = r]
      /\ UNCHANGED <<removal, discovery, changes>>
  BY <1>1 DEF CreateGoes
<1>3. /\ t \in [ScanIds -> Scans]
      /\ \A s \in ScanIds : t[s].pc = "fill" /\ ~t[s].overtaken => t[s].read = Listing(f)
  BY <1>0, <1>1, BesideScans
<1>4. /\ u \in [Creators -> Creations]
      /\ \A d \in Creators : Stands(d, u[d], f) /\ u[d].pc = creation[d].pc
  BY <1>0, <1>1, BesideCreations
<1>5. r \in Creations /\ r.pc = to
  BY <1>0, <1>1, NoCreationHasType DEF CreateTypes, Creations
<1>6. Stands(c, r, f)
  <2>1. CASE to = "idle"
    BY <1>5, <2>1 DEF Stands
  <2>2. CASE to # "idle"
    BY <1>1, <2>2
  <2> QED
    BY <2>1, <2>2
<1>7. /\ creation' \in [Creators -> Creations]
      /\ \A d \in Creators : Stands(d, creation'[d], f)
      /\ \A d \in Creators \ {c} : creation'[d].pc = creation[d].pc
      /\ creation'[c].pc = to
  BY <1>2, <1>4, <1>5, <1>6
<1>8. CreateTypes'
  BY <1>0, <1>2, <1>3, <1>7 DEF CreateTypes
<1>9. ScansStand'
  BY <1>2, <1>3 DEF ScansStand
<1>10. ListIsCurrent'
  <2> SUFFICES ASSUME MemoFresh(discovery, DiscoveryTtl), discovery.value # Listing(f), ~missed',
                      removal.pc # "verify"
               PROVE  \E d \in Creators : creation'[d].pc \in {"clean", "up", "announce"}
    BY <1>2 DEF ListIsCurrent
  <2>1. CASE to = "clean"
    BY <1>7, <2>1
  <2>2. CASE to # "clean"
    <3>1. PICK d \in Creators : creation[d].pc \in {"clean", "up", "announce"}
      BY <1>0, <2>2 DEF ListIsCurrent
    <3> QED
      BY <1>7, <3>1
  <2> QED
    BY <2>1, <2>2
<1>11. \A d \in Creators : creation'[d].pc # "idle" => d <= changes'
  BY <1>0, <1>2, <1>7
<1> QED
  BY <1>2, <1>7, <1>8, <1>9, <1>10, <1>11 DEF CreateIInv

LEMMA ListingOfYaml ==
    ASSUME NEW f, NEW g, f.yaml = g.yaml
    PROVE  Listing(f) = Listing(g)
BY DEF Listing

\* A creation's record when it goes on.
LEMMA GoingOn ==
    ASSUME CreateTypes, NEW c \in Creators, NEW to \in CreateSteps, NEW r,
           r = [creation[c] EXCEPT !.pc = to]
    PROVE  /\ creation[c] \in Creations /\ r \in Creations /\ r.pc = to
           /\ r.name = creation[c].name /\ r.env = creation[c].env
           /\ r.found = creation[c].found /\ r.checked = creation[c].checked
           /\ r.alone = creation[c].alone
           /\ creation[c].name \in FileNames /\ creation[c].env \in BOOLEAN
           /\ creation[c].found \in Folders
BY DEF CreateTypes, Creations

LEMMA CreateFolderStands ==
    ASSUME CreateIInv, NEW c \in Creators, CreateFolder(c)
    PROVE  CreateIInv'
<1>0. /\ CreateTypes /\ Stands(c, creation[c], folder) /\ folder \in Folders
      /\ missed \in BOOLEAN
  BY DEF CreateIInv, CreateTypes
<1>1. creation[c].pc = "mkdir" /\ missed' = missed
  BY DEF CreateFolder
<1>2. CASE CreateGoes(c, folder, "idle")
  BY <1>0, <1>1, <1>2, CreatingStands DEF CreateSteps
<1>3. CASE CreateGoes(c, [folder EXCEPT !.there = TRUE], IF creation[c].env THEN "env" ELSE "tmp")
  <2>1. PICK f, to, r : /\ f = [folder EXCEPT !.there = TRUE]
                        /\ to = IF creation[c].env THEN "env" ELSE "tmp"
                        /\ r = [creation[c] EXCEPT !.pc = to]
    OBVIOUS
  <2>2. /\ f \in Folders /\ f.there /\ f.env = folder.env /\ f.tmp = folder.tmp
        /\ f.yaml = folder.yaml
    BY <1>0, <2>1 DEF Folders
  <2>3. to \in CreateSteps /\ to \in {"env", "tmp"} /\ (to = "env" <=> creation[c].env)
    BY <2>1 DEF CreateSteps
  <2>4. /\ r.pc = to /\ r.name = creation[c].name /\ r.env = creation[c].env
        /\ r.found = creation[c].found /\ r.alone = creation[c].alone
        /\ creation[c].env \in BOOLEAN
    BY <1>0, <2>1, <2>3, GoingOn
  <2>5. creation[c].alone => folder = creation[c].found
                             /\ creation[c].found.yaml[creation[c].name] = NoFile
    BY <1>0, <1>1 DEF Stands
  <2>6. Stands(c, r, f)
    <3> SUFFICES ASSUME creation[c].alone
                 PROVE  Stands(c, r, f)
      BY <2>4 DEF Stands
    <3>1. folder = creation[c].found /\ creation[c].found.yaml[creation[c].name] = NoFile
      BY <2>5
    <3> QED
      BY <2>2, <2>3, <2>4, <3>1 DEF Stands
  <2>7. Listing(f) = Listing(folder)
    BY <2>2, ListingOfYaml
  <2>8. CreateGoes(c, f, to)
    BY <1>3, <2>1
  <2> QED
    BY <1>0, <1>1, <2>1, <2>2, <2>3, <2>6, <2>7, <2>8, CreatingStands
<1> QED
  BY <1>2, <1>3 DEF CreateFolder

\* A file of the creation, or part of it, is written.
LEMMA FolderWithHasType ==
    ASSUME CreateTypes, NEW c \in Creators, creation[c].pc \in {"env", "tmp", "yaml"},
           NEW w \in FileTexts, NEW f, f = FolderWith(c, w)
    PROVE  /\ f \in Folders /\ f.there = folder.there
           /\ f.env = IF creation[c].pc = "env" THEN w ELSE folder.env
           /\ f.tmp = IF creation[c].pc = "tmp"
                      THEN [folder.tmp EXCEPT ![creation[c].name] = w] ELSE folder.tmp
           /\ f.yaml = IF creation[c].pc = "yaml"
                       THEN [folder.yaml EXCEPT ![creation[c].name] = w] ELSE folder.yaml
<1>0. folder \in Folders /\ creation[c].name \in FileNames
  BY DEF CreateTypes, Creations
<1>1. CASE creation[c].pc = "env"
  <2>1. f = [folder EXCEPT !.env = w]
    BY <1>1 DEF FolderWith
  <2> QED
    BY <1>0, <1>1, <2>1 DEF Folders
<1>2. CASE creation[c].pc = "tmp"
  <2>1. PICK t : t = [folder.tmp EXCEPT ![creation[c].name] = w]
    OBVIOUS
  <2>2. f = [folder EXCEPT !.tmp = t]
    BY <1>2, <2>1 DEF FolderWith
  <2>3. t \in [FileNames -> FileTexts]
    BY <1>0, <2>1 DEF Folders
  <2> QED
    BY <1>0, <1>2, <2>1, <2>2, <2>3 DEF Folders
<1>3. CASE creation[c].pc = "yaml"
  <2>1. PICK t : t = [folder.yaml EXCEPT ![creation[c].name] = w]
    OBVIOUS
  <2>2. f = [folder EXCEPT !.yaml = t]
    BY <1>3, <2>1 DEF FolderWith
  <2>3. t \in [FileNames -> FileTexts]
    BY <1>0, <2>1 DEF Folders
  <2> QED
    BY <1>0, <1>3, <2>1, <2>2, <2>3 DEF Folders
<1> QED
  BY <1>1, <1>2, <1>3

LEMMA CreateWritesStands ==
    ASSUME CreateIInv, NEW c \in Creators, CreateWrites(c)
    PROVE  CreateIInv'
<1>0. /\ CreateTypes /\ Stands(c, creation[c], folder) /\ folder \in Folders
      /\ missed \in BOOLEAN
  BY DEF CreateIInv, CreateTypes
<1>1. /\ creation[c].pc \in {"env", "tmp", "yaml"} /\ missed' = missed /\ folder.there
  BY DEF CreateWrites
<1>2. PICK f, to, r : /\ f = FolderWith(c, c) /\ to = NextFile(c)
                      /\ r = [creation[c] EXCEPT !.pc = to]
  OBVIOUS
<1>3. CreateGoes(c, f, to)
  BY <1>2 DEF CreateWrites
<1>4. /\ f \in Folders /\ f.there = folder.there
      /\ f.env = IF creation[c].pc = "env" THEN c ELSE folder.env
      /\ f.tmp = IF creation[c].pc = "tmp"
                 THEN [folder.tmp EXCEPT ![creation[c].name] = c] ELSE folder.tmp
      /\ f.yaml = IF creation[c].pc = "yaml"
                  THEN [folder.yaml EXCEPT ![creation[c].name] = c] ELSE folder.yaml
  <2>1. c \in FileTexts
    BY CreateNumbers
  <2> QED
    BY ZenonT(30), <1>0, <1>1, <1>2, <2>1, FolderWithHasType
<1>5. /\ creation[c].pc = "env" => to = "tmp"
      /\ creation[c].pc = "tmp" => to = "config"
      /\ creation[c].pc = "yaml" => to = "clean"
      /\ to \in CreateSteps
  BY <1>1, <1>2 DEF NextFile, CreateSteps
<1>6. /\ r.pc = to /\ r.name = creation[c].name /\ r.env = creation[c].env
      /\ r.found = creation[c].found /\ r.alone = creation[c].alone
      /\ r.checked = creation[c].checked /\ creation[c].env \in BOOLEAN
  BY <1>0, <1>2, <1>5, GoingOn
<1>7. Stands(c, r, f)
  <2>1. CASE creation[c].pc = "env"
    BY <1>0, <1>1, <1>4, <1>5, <1>6, <2>1 DEF Stands
  <2>2. CASE creation[c].pc = "tmp"
    BY <1>0, <1>1, <1>4, <1>5, <1>6, <2>2 DEF Stands
  <2>3. CASE creation[c].pc = "yaml"
    BY <1>0, <1>1, <1>4, <1>5, <1>6, <2>3 DEF Stands
  <2> QED
    BY <1>1, <2>1, <2>2, <2>3
<1>8. Listing(f) = Listing(folder) \/ to = "clean"
  BY <1>1, <1>4, <1>5, ListingOfYaml
<1> QED
  BY <1>0, <1>1, <1>2, <1>3, <1>4, <1>5, <1>7, <1>8, CreatingStands

LEMMA CreateWriteFailsStands ==
    ASSUME CreateIInv, NEW c \in Creators, CreateWriteFails(c)
    PROVE  CreateIInv'
<1>0. CreateTypes /\ folder \in Folders /\ missed \in BOOLEAN
  BY DEF CreateIInv, CreateTypes
<1>1. creation[c].pc \in {"env", "tmp", "yaml"}
  BY DEF CreateWriteFails
<1>2. PICK f : f = IF folder.there THEN FolderWith(c, Partial) ELSE folder
  OBVIOUS
<1>3. CreateGoes(c, f, "idle") /\ missed' = (missed \/ Listing(folder') # Listing(folder))
  BY <1>2 DEF CreateWriteFails
<1>4. folder' = f
  BY <1>3 DEF CreateGoes
<1>5. f \in Folders
  BY <1>0, <1>1, <1>2, CreateNumbers, FolderWithHasType
<1>6. /\ missed' \in BOOLEAN /\ (missed => missed')
      /\ Listing(f) = Listing(folder) \/ missed'
  BY <1>0, <1>3, <1>4
<1> QED
  BY <1>1, <1>3, <1>5, <1>6, CreatingStands DEF CreateSteps

\* The temporary file, or the .env, is taken back.
LEMMA CreateTidiesStands ==
    ASSUME CreateIInv, NEW c \in Creators, CreateTidies(c) \/ CreateCleans(c)
    PROVE  CreateIInv'
<1>0. /\ CreateTypes /\ Stands(c, creation[c], folder) /\ folder \in Folders
      /\ missed \in BOOLEAN /\ creation[c].name \in FileNames
  BY DEF CreateIInv, CreateTypes, Creations
<1>1. /\ creation[c].pc \in {"refuse", "unenv", "clean"} /\ missed' = missed
  BY DEF CreateTidies, CreateCleans
<1>2. CASE CreateTidies(c) /\ creation[c].pc = "unenv"
  <2>1. PICK f : f = [folder EXCEPT !.env = NoFile]
    OBVIOUS
  <2>2. f \in Folders /\ f.yaml = folder.yaml
    BY <1>0, <2>1, CreateNumbers DEF Folders
  <2>3. CreateGoes(c, f, "idle")
    BY <1>2, <2>1 DEF CreateTidies
  <2> QED
    BY <1>0, <1>1, <1>2, <2>2, <2>3, ListingOfYaml, CreatingStands DEF CreateSteps
<1>3. CASE creation[c].pc # "unenv"
  <2>1. PICK t : t = [folder.tmp EXCEPT ![creation[c].name] = NoFile]
    OBVIOUS
  <2>2. PICK f : f = WithoutTmp(c)
    OBVIOUS
  <2>3. f = [folder EXCEPT !.tmp = t] /\ t \in [FileNames -> FileTexts]
    BY <1>0, <2>1, <2>2, CreateNumbers DEF WithoutTmp, Folders
  <2>4. /\ f \in Folders /\ f.there = folder.there /\ f.env = folder.env
        /\ f.yaml = folder.yaml /\ f.tmp = t
    BY <1>0, <2>3 DEF Folders
  <2>5. PICK to \in {"unenv", "idle", "up", "announce"} :
          /\ CreateGoes(c, f, to)
          /\ to \in {"unenv", "idle"} <=> creation[c].pc = "refuse"
          /\ to = "unenv" => creation[c].env
    <3>1. CASE CreateCleans(c)
      BY <2>2, <3>1 DEF CreateCleans
    <3>2. CASE CreateTidies(c)
      BY <1>3, <2>2, <3>2 DEF CreateTidies
    <3> QED
      BY <3>1, <3>2
  <2>6. to \in CreateSteps
    BY DEF CreateSteps
  <2>7. PICK r : r = [creation[c] EXCEPT !.pc = to]
    OBVIOUS
  <2>8. /\ r.pc = to /\ r.name = creation[c].name /\ r.env = creation[c].env
        /\ r.found = creation[c].found /\ r.alone = creation[c].alone
        /\ r.checked = creation[c].checked /\ creation[c].env \in BOOLEAN
        /\ creation[c].found \in Folders
    BY <1>0, <2>6, <2>7, GoingOn
  <2>9. ASSUME to # "idle", creation[c].alone PROVE Stands(c, r, f)
    <3>1. folder.tmp = [creation[c].found.tmp EXCEPT ![creation[c].name] = c]
      BY <1>0, <1>1, <1>3, <2>9 DEF Stands
    <3>2. t = [creation[c].found.tmp EXCEPT ![creation[c].name] = NoFile]
      BY <1>0, <2>1, <2>8, <3>1 DEF Folders
    <3>3. CASE creation[c].pc = "refuse"
      BY <1>0, <2>4, <2>5, <2>8, <2>9, <3>2, <3>3 DEF Stands
    <3>4. CASE creation[c].pc = "clean"
      BY <1>0, <2>4, <2>5, <2>8, <2>9, <3>2, <3>4 DEF Stands
    <3> QED
      BY <1>1, <1>3, <3>3, <3>4
  <2>10. to # "idle" => Stands(c, r, f)
    <3>1. ~creation[c].alone => Stands(c, r, f)
      BY <2>8 DEF Stands
    <3> QED
      BY <2>9, <3>1
  <2>11. /\ creation[c].pc \in {"clean", "up", "announce"} => to \in {"clean", "up", "announce"}
         /\ Listing(f) = Listing(folder)
    BY <1>1, <2>4, <2>5, ListingOfYaml
  <2> QED
    BY <1>0, <1>1, <2>4, <2>5, <2>6, <2>7, <2>10, <2>11, CreatingStands
<1> QED
  BY <1>1, <1>2, <1>3 DEF CreateCleans

LEMMA CreateStartsStands ==
    ASSUME CreateIInv, NEW c \in Creators, CreateStarts(c)
    PROVE  CreateIInv'
<1>0. /\ CreateTypes /\ Stands(c, creation[c], folder) /\ folder \in Folders
      /\ missed \in BOOLEAN
  BY DEF CreateIInv, CreateTypes
<1>1. creation[c].pc = "up"
  BY DEF CreateStarts
<1>2. CASE CreateGoes(c, folder, "announce") /\ UNCHANGED missed
  <2>1. PICK r : r = [creation[c] EXCEPT !.pc = "announce"]
    OBVIOUS
  <2>2. "announce" \in CreateSteps
    BY DEF CreateSteps
  <2>3. /\ r.pc = "announce" /\ r.name = creation[c].name /\ r.env = creation[c].env
        /\ r.found = creation[c].found /\ r.alone = creation[c].alone
        /\ r.checked = creation[c].checked
    BY <1>0, <2>1, <2>2, GoingOn
  <2>4. Stands(c, r, folder)
    BY <1>0, <1>1, <2>3 DEF Stands
  <2> QED
    BY <1>0, <1>1, <1>2, <2>1, <2>2, <2>4, CreatingStands
<1>3. CASE CreateGoes(c, folder, "idle") /\ missed' = TRUE
  BY <1>0, <1>1, <1>3, CreatingStands DEF CreateSteps
<1> QED
  BY <1>2, <1>3 DEF CreateStarts

--------------------------------------------------------------------------------
\* Steps that leave the folder alone

LEMMA CreateLooksStands ==
    ASSUME CreateIInv, NEW c \in Creators, CreateLooks(c)
    PROVE  CreateIInv'
<1>0. /\ CreateTypes /\ (\A d \in Creators : Stands(d, creation[d], folder))
      /\ ScansStand /\ ListIsCurrent /\ folder \in Folders
      /\ creation \in [Creators -> Creations] /\ changes \in 0 .. MaxChanges
      /\ \A d \in Creators : creation[d].pc # "idle" => d <= changes
  BY DEF CreateIInv, CreateTypes
<1>1. PICK n \in FileNames, env \in BOOLEAN, start \in BOOLEAN :
        /\ NameFree(n)
        /\ creation' = [creation EXCEPT ![c] =
                          [NoCreation EXCEPT !.pc = "mkdir", !.name = n, !.env = env,
                                             !.start = start, !.found = folder]]
  BY DEF CreateLooks
<1>2. PICK r : r = [NoCreation EXCEPT !.pc = "mkdir", !.name = n, !.env = env,
                                      !.start = start, !.found = folder]
  OBVIOUS
<1>3. /\ UNCHANGED <<folder, removal, discovery, scan, missed>> /\ changes' = c
      /\ c = changes + 1
  BY DEF CreateLooks
<1>4. /\ r \in Creations /\ r.pc = "mkdir" /\ r.found = folder /\ r.name = n
  BY <1>0, <1>2, NoCreationHasType DEF Creations, CreateSteps
<1>5. Stands(c, r, folder)
  BY <1>1, <1>4 DEF Stands, NameFree
<1>6. creation' = [creation EXCEPT ![c] = r]
  BY <1>1, <1>2
<1>7. /\ creation' \in [Creators -> Creations]
      /\ \A d \in Creators : Stands(d, creation'[d], folder)
      /\ \A d \in Creators \ {c} : creation'[d].pc = creation[d].pc
  BY <1>0, <1>4, <1>5, <1>6
<1>8. changes' \in 0 .. MaxChanges
  BY <1>3, CreateNumbers DEF Creators
<1>9. ~(c <= changes) /\ \A d \in Creators : d <= changes => d <= changes'
  BY <1>0, <1>3, CreateNumbers
<1>10. creation[c].pc = "idle"
  BY <1>0, <1>9
<1>11. ListIsCurrent'
  <2> SUFFICES ASSUME MemoFresh(discovery, DiscoveryTtl), discovery.value # Listing(folder),
                      ~missed, removal.pc # "verify"
               PROVE  \E d \in Creators : creation'[d].pc \in {"clean", "up", "announce"}
    BY <1>3 DEF ListIsCurrent
  <2>1. PICK d \in Creators : creation[d].pc \in {"clean", "up", "announce"}
    BY <1>0 DEF ListIsCurrent
  <2> QED
    BY <1>7, <1>10, <2>1
<1>12. \A d \in Creators : creation'[d].pc # "idle" => d <= changes'
  <2>1. c <= changes'
    BY <1>3, CreateNumbers
  <2> QED
    BY <1>0, <1>7, <1>9, <2>1
<1> QED
  BY <1>0, <1>3, <1>7, <1>8, <1>11, <1>12 DEF CreateIInv, CreateTypes, ScansStand

LEMMA CreateValidatesStands ==
    ASSUME CreateIInv, NEW c \in Creators, CreateValidates(c)
    PROVE  CreateIInv'
<1>0. /\ CreateTypes /\ (\A d \in Creators : Stands(d, creation[d], folder))
      /\ ScansStand /\ ListIsCurrent /\ folder \in Folders
      /\ creation \in [Creators -> Creations] /\ creation[c] \in Creations
      /\ creation[c].name \in FileNames /\ creation[c].found \in Folders
      /\ \A d \in Creators : creation[d].pc # "idle" => d <= changes
  BY DEF CreateIInv, CreateTypes, Creations
<1>1. /\ UNCHANGED <<folder, removal, discovery, scan, missed, changes>>
      /\ creation[c].pc = "config"
  BY DEF CreateValidates
<1>2. PICK b \in BOOLEAN :
        b <=> /\ creation[c].alone /\ folder.tmp[creation[c].name] = c
              /\ creation[c].env => folder.env = c
  OBVIOUS
<1>3. creation[c].alone => b
  BY <1>0, <1>1, <1>2 DEF Stands, Folders
<1>4. PICK r : /\ creation' = [creation EXCEPT ![c] = r]
               /\ \/ r = [creation[c] EXCEPT !.pc = "yaml", !.checked = b]
                  \/ r = [creation[c] EXCEPT !.pc = "refuse"]
  <2>1. CASE creation' = [creation EXCEPT ![c].pc = "refuse"]
    BY <2>1
  <2>2. CASE creation' = [creation EXCEPT ![c] =
                             [@ EXCEPT !.pc = "yaml",
                                       !.checked = /\ creation[c].alone
                                                   /\ folder.tmp[creation[c].name] = c
                                                   /\ creation[c].env => folder.env = c]]
    <3>1. (/\ creation[c].alone /\ folder.tmp[creation[c].name] = c
           /\ creation[c].env => folder.env = c) = b
      BY <1>2
    <3>2. creation' = [creation EXCEPT ![c] = [creation[c] EXCEPT !.pc = "yaml", !.checked = b]]
      BY <1>0, <2>2, <3>1
    <3> QED
      BY <3>2
  <2> QED
    BY <2>1, <2>2 DEF CreateValidates
<1>5. /\ r \in Creations /\ r.pc \in {"yaml", "refuse"} /\ r.name = creation[c].name
      /\ r.env = creation[c].env /\ r.found = creation[c].found
      /\ r.alone = creation[c].alone /\ (r.pc = "yaml" => r.checked = b)
  <2>1. CASE r = [creation[c] EXCEPT !.pc = "yaml", !.checked = b]
    BY <1>0, <2>1 DEF Creations, CreateSteps
  <2>2. CASE r = [creation[c] EXCEPT !.pc = "refuse"]
    BY <1>0, <2>2 DEF Creations, CreateSteps
  <2> QED
    BY <1>4, <2>1, <2>2
<1>6. Stands(c, r, folder)
  <2>1. Stands(c, creation[c], folder)
    BY <1>0
  <2>2. CASE r.pc = "yaml"
    BY <1>1, <1>3, <1>5, <2>1, <2>2 DEF Stands
  <2>3. CASE r.pc = "refuse"
    BY <1>1, <1>3, <1>5, <2>1, <2>3 DEF Stands
  <2> QED
    BY <1>5, <2>2, <2>3
<1>7. /\ creation' \in [Creators -> Creations]
      /\ \A d \in Creators : Stands(d, creation'[d], folder)
      /\ \A d \in Creators \ {c} : creation'[d].pc = creation[d].pc
  BY <1>0, <1>4, <1>5, <1>6
<1>8. \A d \in Creators : creation'[d].pc # "idle" => d <= changes'
  BY <1>0, <1>1, <1>7
<1>9. ListIsCurrent'
  <2> SUFFICES ASSUME MemoFresh(discovery, DiscoveryTtl), discovery.value # Listing(folder),
                      ~missed, removal.pc # "verify"
               PROVE  \E d \in Creators : creation'[d].pc \in {"clean", "up", "announce"}
    BY <1>1 DEF ListIsCurrent
  <2>1. PICK d \in Creators : creation[d].pc \in {"clean", "up", "announce"}
    BY <1>0 DEF ListIsCurrent
  <2> QED
    BY <1>1, <1>7, <2>1
<1> QED
  BY <1>0, <1>1, <1>7, <1>8, <1>9 DEF CreateIInv, CreateTypes, ScansStand

LEMMA ClearedIsStale ==
    EmptyMemo({}) \in Memos /\ ~MemoFresh(EmptyMemo({}), DiscoveryTtl)
BY DEF EmptyMemo, Memos, MemoFresh

LEMMA CreateAnnouncesStands ==
    ASSUME CreateIInv, NEW c \in Creators, CreateAnnounces(c)
    PROVE  CreateIInv'
<1>0. /\ CreateTypes /\ (\A d \in Creators : Stands(d, creation[d], folder))
      /\ ScansStand /\ creation \in [Creators -> Creations]
      /\ \A d \in Creators : creation[d].pc # "idle" => d <= changes
  BY DEF CreateIInv, CreateTypes
<1>1. /\ creation' = [creation EXCEPT ![c] = NoCreation]
      /\ discovery' = EmptyMemo({}) /\ missed' = FALSE
      /\ UNCHANGED <<folder, removal, scan, changes>>
  BY DEF CreateAnnounces
<1>2. /\ creation' \in [Creators -> Creations]
      /\ \A d \in Creators : Stands(d, creation'[d], folder)
      /\ \A d \in Creators : creation'[d].pc # "idle" => d <= changes
  <2>1. Stands(c, NoCreation, folder)
    BY NoCreationHasType DEF Stands
  <2> QED
    BY <1>0, <1>1, <2>1, NoCreationHasType
<1>3. ListIsCurrent'
  BY <1>1, ClearedIsStale DEF ListIsCurrent
<1> QED
  BY <1>0, <1>1, <1>2, <1>3, ClearedIsStale DEF CreateIInv, CreateTypes, ScansStand

LEMMA RemovalStands ==
    ASSUME CreateIInv, (\E n \in FileNames : RemoveStarts(n)) \/ RemoveDowns \/ RemoveEnds
    PROVE  CreateIInv'
<1>0. /\ CreateTypes /\ (\A d \in Creators : Stands(d, creation[d], folder))
      /\ ScansStand /\ ListIsCurrent /\ changes \in 0 .. MaxChanges
      /\ removal \in [pc : {"idle", "down", "delete", "verify"}, name : FileNames]
      /\ \A d \in Creators : creation[d].pc # "idle" => d <= changes
  BY DEF CreateIInv, CreateTypes
<1>1. UNCHANGED <<folder, creation, scan>>
  BY DEF RemoveStarts, RemoveDowns, RemoveEnds
<1>2. CASE \E n \in FileNames : RemoveStarts(n)
  <2>1. PICK n \in FileNames : RemoveStarts(n)
    BY <1>2
  <2>2. /\ UNCHANGED <<discovery, missed>> /\ changes' = changes + 1 /\ changes < MaxChanges
        /\ removal' = [pc |-> "down", name |-> n] /\ removal.pc = "idle"
    BY <2>1 DEF RemoveStarts
  <2>3. /\ changes' \in 0 .. MaxChanges
        /\ \A d \in Creators : d <= changes => d <= changes'
    BY <1>0, <2>2, CreateNumbers
  <2>4. ListIsCurrent'
    BY <1>0, <1>1, <2>2 DEF ListIsCurrent
  <2> QED
    BY <1>0, <1>1, <2>2, <2>3, <2>4 DEF CreateIInv, CreateTypes, ScansStand
<1>3. CASE RemoveDowns
  <2>1. PICK to \in {"delete", "idle"} : removal' = [removal EXCEPT !.pc = to]
    BY <1>3 DEF RemoveDowns
  <2>2. removal.pc = "down" /\ UNCHANGED <<discovery, missed, changes>>
    BY <1>3 DEF RemoveDowns
  <2>3. removal' \in [pc : {"idle", "down", "delete", "verify"}, name : FileNames]
    BY <1>0, <2>1
  <2>4. ListIsCurrent'
    BY <1>0, <1>1, <2>2 DEF ListIsCurrent
  <2> QED
    BY <1>0, <1>1, <2>2, <2>3, <2>4 DEF CreateIInv, CreateTypes, ScansStand
<1>4. CASE RemoveEnds
  <2>1. removal' = NoRemoval /\ changes' = changes
    BY <1>4 DEF RemoveEnds
  <2>2. NoRemoval \in [pc : {"idle", "down", "delete", "verify"}, name : FileNames]
    BY CreateNumbers DEF NoRemoval
  <2>3. /\ discovery' \in Memos /\ missed' \in BOOLEAN
        /\ missed' \/ ~MemoFresh(discovery', DiscoveryTtl)
    <3>1. CASE folder.there
      BY <1>0, <1>4, <3>1 DEF RemoveEnds, CreateTypes
    <3>2. CASE ~folder.there
      BY <1>4, <3>2, ClearedIsStale DEF RemoveEnds
    <3> QED
      BY <3>1, <3>2
  <2>4. ListIsCurrent'
    BY <2>3 DEF ListIsCurrent
  <2> QED
    BY <1>0, <1>1, <2>1, <2>2, <2>3, <2>4 DEF CreateIInv, CreateTypes, ScansStand
<1> QED
  BY <1>2, <1>3, <1>4

LEMMA RemoveDeletesStands ==
    ASSUME CreateIInv, RemoveDeletes
    PROVE  CreateIInv'
<1>0. /\ CreateTypes /\ (\A d \in Creators : Stands(d, creation[d], folder))
      /\ ScansStand /\ ListIsCurrent
      /\ removal \in [pc : {"idle", "down", "delete", "verify"}, name : FileNames]
      /\ \A d \in Creators : creation[d].pc # "idle" => d <= changes
  BY DEF CreateIInv, CreateTypes
<1>1. PICK t, u : t = ScansBeside(NoFolder) /\ u = CreationsBeside(NoFolder)
  OBVIOUS
<1>2. /\ folder' = NoFolder /\ scan' = t /\ creation' = u
      /\ removal' = [removal EXCEPT !.pc = "verify"]
      /\ UNCHANGED <<discovery, missed, changes>>
  BY <1>1 DEF RemoveDeletes
<1>3. /\ t \in [ScanIds -> Scans]
      /\ \A s \in ScanIds : t[s].pc = "fill" /\ ~t[s].overtaken => t[s].read = Listing(NoFolder)
  BY <1>0, <1>1, BesideScans
<1>4. /\ u \in [Creators -> Creations]
      /\ \A d \in Creators : Stands(d, u[d], NoFolder) /\ u[d].pc = creation[d].pc
  BY <1>0, <1>1, BesideCreations
<1>5. /\ removal' \in [pc : {"idle", "down", "delete", "verify"}, name : FileNames]
      /\ removal'.pc = "verify"
  BY <1>0, <1>2
<1>6. ListIsCurrent'
  BY <1>5 DEF ListIsCurrent
<1>7. CreateTypes'
  BY <1>0, <1>2, <1>3, <1>4, <1>5, NoFolderHasType DEF CreateTypes
<1> QED
  BY <1>0, <1>2, <1>3, <1>4, <1>6, <1>7 DEF CreateIInv, ScansStand

--------------------------------------------------------------------------------
\* Scans and the memo

LEMMA ScanStartsStands ==
    ASSUME CreateIInv, NEW s \in ScanIds, ScanStarts(s) \/ ScanReads(s)
    PROVE  CreateIInv'
<1>0. /\ CreateTypes /\ (\A d \in Creators : Stands(d, creation[d], folder))
      /\ ScansStand /\ ListIsCurrent /\ scan \in [ScanIds -> Scans] /\ scan[s] \in Scans
      /\ discovery \in Memos
      /\ \A d \in Creators : creation[d].pc # "idle" => d <= changes
  BY DEF CreateIInv, CreateTypes
<1>1. UNCHANGED <<folder, creation, removal, missed, changes>>
  BY DEF ScanStarts, ScanReads
<1>2. CASE ScanStarts(s)
  <2>1. PICK t : t = [scan[s] EXCEPT !.pc = "read"]
    OBVIOUS
  <2>2. /\ scan' = [scan EXCEPT ![s] = t] /\ t \in Scans /\ t.pc = "read"
    BY <1>0, <1>2, <2>1 DEF ScanStarts, Scans
  <2>3. /\ ~MemoFresh(discovery, DiscoveryTtl) /\ discovery' = [discovery EXCEPT !.by = {s}]
    BY <1>2 DEF ScanStarts, MemoSent
  <2>4. discovery' \in Memos /\ ~MemoFresh(discovery', DiscoveryTtl)
    BY <1>0, <2>3 DEF Memos, MemoFresh
  <2>5. ScansStand' /\ scan' \in [ScanIds -> Scans]
    BY <1>0, <1>1, <2>2 DEF ScansStand
  <2>6. ListIsCurrent'
    BY <2>4 DEF ListIsCurrent
  <2> QED
    BY <1>0, <1>1, <2>4, <2>5, <2>6 DEF CreateIInv, CreateTypes
<1>3. CASE ScanReads(s)
  <2>1. PICK t : t = [scan[s] EXCEPT !.pc = "fill", !.read = Listing(folder)]
    OBVIOUS
  <2>2. scan' = [scan EXCEPT ![s] = t] /\ discovery' = discovery
    BY <1>0, <1>3, <2>1 DEF ScanReads
  <2>3. t \in Scans /\ t.read = Listing(folder)
    BY <1>0, <2>1, ListingHasType DEF Scans
  <2>4. ScansStand' /\ scan' \in [ScanIds -> Scans]
    BY <1>0, <1>1, <2>2, <2>3 DEF ScansStand
  <2>5. ListIsCurrent'
    BY <1>0, <1>1, <2>2 DEF ListIsCurrent
  <2> QED
    BY <1>0, <1>1, <2>2, <2>4, <2>5 DEF CreateIInv, CreateTypes
<1> QED
  BY <1>2, <1>3

LEMMA ScanFillsStands ==
    ASSUME CreateIInv, NEW s \in ScanIds, ScanFills(s)
    PROVE  CreateIInv'
<1>0. /\ CreateTypes /\ (\A d \in Creators : Stands(d, creation[d], folder))
      /\ ScansStand /\ scan \in [ScanIds -> Scans] /\ scan[s] \in Scans
      /\ \A d \in Creators : creation[d].pc # "idle" => d <= changes
  BY DEF CreateIInv, CreateTypes
<1>1. /\ UNCHANGED <<folder, creation, removal, changes>> /\ scan[s].pc = "fill"
      /\ discovery' = [held |-> TRUE, value |-> scan[s].read, age |-> 0, by |-> {}]
      /\ missed' = scan[s].overtaken /\ scan' = [scan EXCEPT ![s] = NoScan]
  BY DEF ScanFills, MemoFilled
<1>2. discovery' \in Memos /\ missed' \in BOOLEAN
  BY <1>0, <1>1 DEF Memos, Scans
<1>3. NoScan \in Scans /\ NoScan.pc = "idle"
  BY DEF NoScan, Scans
<1>4. ScansStand' /\ scan' \in [ScanIds -> Scans]
  BY <1>0, <1>1, <1>3 DEF ScansStand
<1>5. missed' \/ discovery'.value = Listing(folder')
  BY <1>0, <1>1 DEF ScansStand
<1>6. ListIsCurrent'
  BY <1>5 DEF ListIsCurrent
<1> QED
  BY <1>0, <1>1, <1>2, <1>4, <1>6 DEF CreateIInv, CreateTypes

LEMMA DiscoveryAgesStands ==
    ASSUME CreateIInv, DiscoveryAges
    PROVE  CreateIInv'
<1>0. /\ CreateTypes /\ (\A d \in Creators : Stands(d, creation[d], folder))
      /\ ScansStand /\ ListIsCurrent /\ discovery \in Memos
      /\ \A d \in Creators : creation[d].pc # "idle" => d <= changes
  BY DEF CreateIInv, CreateTypes
<1>1. PICK older : older = MemoOlder(discovery, DiscoveryTtl)
  OBVIOUS
<1>2. /\ discovery' = IF MemoFresh(older, DiscoveryTtl) THEN older
                      ELSE [EmptyMemo({}) EXCEPT !.by = discovery.by]
      /\ UNCHANGED <<folder, creation, removal, scan, missed, changes>>
  BY <1>1 DEF DiscoveryAges
<1>3. /\ older \in Memos /\ older.value = discovery.value
      /\ MemoFresh(older, DiscoveryTtl) => MemoFresh(discovery, DiscoveryTtl)
  <2>1. CASE discovery.held /\ discovery.age < DiscoveryTtl
    <3>1. older = [discovery EXCEPT !.age = discovery.age + 1]
      BY <1>1, <2>1 DEF MemoOlder
    <3>2. older \in Memos /\ older.value = discovery.value
      BY <1>0, <3>1 DEF Memos
    <3> QED
      BY <2>1, <3>2 DEF MemoFresh
  <2>2. CASE ~(discovery.held /\ discovery.age < DiscoveryTtl)
    BY <1>0, <1>1, <2>2 DEF MemoOlder
  <2> QED
    BY <2>1, <2>2
<1>4. discovery' \in Memos /\ ListIsCurrent'
  <2>1. CASE MemoFresh(older, DiscoveryTtl)
    <3>1. discovery' = older
      BY <1>2, <2>1
    <3> QED
      BY <1>0, <1>2, <1>3, <2>1, <3>1 DEF ListIsCurrent
  <2>2. CASE ~MemoFresh(older, DiscoveryTtl)
    <3>1. discovery' = [EmptyMemo({}) EXCEPT !.by = discovery.by]
      BY <1>2, <2>2
    <3>2. discovery' \in Memos /\ ~MemoFresh(discovery', DiscoveryTtl)
      BY <1>0, <3>1 DEF Memos, EmptyMemo, MemoFresh
    <3> QED
      BY <3>2 DEF ListIsCurrent
  <2> QED
    BY <2>1, <2>2
<1> QED
  BY <1>0, <1>2, <1>4 DEF CreateIInv, CreateTypes, ScansStand

\* A step that changes nothing keeps the invariant.
LEMMA CreateStutters ==
    ASSUME CreateIInv, UNCHANGED createVars
    PROVE  CreateIInv'
<1>1. UNCHANGED <<folder, creation, removal, discovery, scan, missed, changes>>
  BY DEF createVars
<1>2. CreateTypes' /\ ScansStand' /\ ListIsCurrent'
  BY <1>1 DEF CreateIInv, CreateTypes, ScansStand, ListIsCurrent
<1>3. \A d \in Creators : Stands(d, creation'[d], folder')
  BY <1>1 DEF CreateIInv
<1> QED
  BY <1>1, <1>2, <1>3 DEF CreateIInv

LEMMA CreateKeeps == CreateIInv /\ [ComposeCreateNext]_createVars => CreateIInv'
<1> SUFFICES ASSUME CreateIInv, [ComposeCreateNext]_createVars
             PROVE  CreateIInv'
  OBVIOUS
<1>1. ASSUME NEW c \in Creators,
             \/ CreateLooks(c) \/ CreateFolder(c) \/ CreateWrites(c) \/ CreateWriteFails(c)
             \/ CreateValidates(c) \/ CreateTidies(c) \/ CreateCleans(c) \/ CreateStarts(c)
             \/ CreateAnnounces(c)
      PROVE  CreateIInv'
  BY <1>1, CreateLooksStands, CreateFolderStands, CreateWritesStands, CreateWriteFailsStands,
     CreateValidatesStands, CreateTidiesStands, CreateStartsStands, CreateAnnouncesStands
<1>2. CASE (\E n \in FileNames : RemoveStarts(n)) \/ RemoveDowns \/ RemoveEnds
  BY <1>2, RemovalStands
<1>3. CASE RemoveDeletes
  BY <1>3, RemoveDeletesStands
<1>4. ASSUME NEW s \in ScanIds, ScanStarts(s) \/ ScanReads(s) \/ ScanFills(s)
      PROVE  CreateIInv'
  BY <1>4, ScanStartsStands, ScanFillsStands
<1>5. CASE DiscoveryAges
  BY <1>5, DiscoveryAgesStands
<1>6. CASE UNCHANGED createVars
  BY <1>6, CreateStutters
<1> QED
  BY <1>1, <1>2, <1>3, <1>4, <1>5, <1>6 DEF ComposeCreateNext

\* A step that is not creation c's own leaves it where it stands.
LEMMA OthersDoNotEnd ==
    ASSUME CreateIInv, [ComposeCreateNext]_createVars, NEW c \in Creators, Ends(c)
    PROVE  \/ CreateFolder(c) \/ CreateWrites(c) \/ CreateWriteFails(c)
           \/ CreateValidates(c) \/ CreateTidies(c) \/ CreateCleans(c) \/ CreateStarts(c)
           \/ CreateAnnounces(c)
<1>0. /\ CreateTypes /\ (\A d \in Creators : Stands(d, creation[d], folder))
      /\ creation \in [Creators -> Creations]
  BY DEF CreateIInv, CreateTypes
<1>1. creation[c].pc # "idle" /\ creation'[c].pc = "idle"
  BY DEF Ends, UnderWay
<1>2. ASSUME NEW f, creation' = CreationsBeside(f) PROVE FALSE
  BY <1>0, <1>1, <1>2, BesideCreations
<1>3. ASSUME NEW d \in Creators, d # c,
             \/ CreateLooks(d) \/ CreateFolder(d) \/ CreateWrites(d) \/ CreateWriteFails(d)
             \/ CreateValidates(d) \/ CreateTidies(d) \/ CreateCleans(d) \/ CreateStarts(d)
             \/ CreateAnnounces(d)
      PROVE  FALSE
  <2>1. ASSUME NEW f, NEW to, CreateGoes(d, f, to) PROVE FALSE
    <3>1. PICK u, r : u = CreationsBeside(f) /\ creation' = [u EXCEPT ![d] = r]
      BY <2>1 DEF CreateGoes
    <3>2. u \in [Creators -> Creations] /\ u[c].pc = creation[c].pc
      BY <1>0, <3>1, BesideCreations
    <3> QED
      BY <1>1, <1>3, <3>1, <3>2
  <2>2. CASE CreateLooks(d)
    BY <1>0, <1>1, <1>3, <2>2 DEF CreateLooks
  <2>3. CASE CreateValidates(d)
    <3>1. PICK r : creation' = [creation EXCEPT ![d] = r]
      BY <1>0, <2>3 DEF CreateValidates
    <3> QED
      BY <1>0, <1>1, <1>3, <3>1
  <2>4. CASE CreateAnnounces(d)
    BY <1>0, <1>1, <1>3, <2>4 DEF CreateAnnounces
  <2>5. CASE CreateFolder(d)
    BY <2>1, <2>5 DEF CreateFolder
  <2>6. CASE CreateWrites(d) \/ CreateWriteFails(d)
    BY <2>1, <2>6 DEF CreateWrites, CreateWriteFails
  <2>7. CASE CreateTidies(d) \/ CreateCleans(d)
    BY <2>1, <2>7 DEF CreateTidies, CreateCleans
  <2>8. CASE CreateStarts(d)
    BY <2>1, <2>8 DEF CreateStarts
  <2> QED
    BY <1>3, <2>2, <2>3, <2>4, <2>5, <2>6, <2>7, <2>8
<1>4. CASE (\E n \in FileNames : RemoveStarts(n)) \/ RemoveDowns \/ RemoveEnds
  BY <1>1, <1>4 DEF RemoveStarts, RemoveDowns, RemoveEnds
<1>5. CASE RemoveDeletes
  BY <1>2, <1>5 DEF RemoveDeletes
<1>6. ~(\E s \in ScanIds : ScanStarts(s) \/ ScanReads(s) \/ ScanFills(s))
  BY <1>1 DEF ScanStarts, ScanReads, ScanFills
<1>7. ~DiscoveryAges /\ ~(UNCHANGED createVars)
  BY <1>1 DEF DiscoveryAges, createVars
<1>8. ASSUME CreateLooks(c) PROVE FALSE
  <2>1. PICK r : creation' = [creation EXCEPT ![c] = r] /\ r.pc = "mkdir"
    <3>1. PICK n \in FileNames, env \in BOOLEAN, start \in BOOLEAN :
            creation' = [creation EXCEPT ![c] =
                           [NoCreation EXCEPT !.pc = "mkdir", !.name = n, !.env = env,
                                              !.start = start, !.found = folder]]
      BY <1>8 DEF CreateLooks
    <3>2. PICK r : r = [NoCreation EXCEPT !.pc = "mkdir", !.name = n, !.env = env,
                                          !.start = start, !.found = folder]
      OBVIOUS
    <3>3. r.pc = "mkdir"
      BY <3>2 DEF NoCreation
    <3> QED
      BY <3>1, <3>2, <3>3
  <2> QED
    BY <1>0, <1>1, <2>1
<1> QED
  BY <1>3, <1>4, <1>5, <1>6, <1>7, <1>8 DEF ComposeCreateNext

\* How a creation that was alone ends.
LEMMA CreationEnds ==
    ASSUME CreateIInv, [ComposeCreateNext]_createVars, NEW c \in Creators, Ends(c),
           creation[c].alone
    PROVE  /\ creation[c].pc \in {"up", "announce"} => ExactlyCreated(c)
           /\ creation[c].pc \in {"refuse", "unenv"} => ExactlyUndone(c)
<1>0. /\ CreateTypes /\ Stands(c, creation[c], folder) /\ folder \in Folders
      /\ creation[c] \in Creations /\ creation[c].name \in FileNames
      /\ creation[c].found \in Folders /\ creation[c].env \in BOOLEAN
      /\ c \in FileTexts
  BY CreateNumbers DEF CreateIInv, CreateTypes, Creations
<1>1. creation[c].pc # "idle" /\ creation'[c].pc = "idle"
  BY DEF Ends, UnderWay
<1> DEFINE r == creation[c]
<1>2. ASSUME r.pc \in {"up", "announce"}, folder' = folder
      PROVE  ExactlyCreated(c)
  <2>1. /\ r.checked /\ r.found.yaml[r.name] = NoFile /\ folder.there
        /\ folder.env = (IF r.env THEN c ELSE r.found.env)
        /\ folder.tmp = [r.found.tmp EXCEPT ![r.name] = NoFile]
        /\ folder.yaml = [r.found.yaml EXCEPT ![r.name] = c]
    BY <1>0, <1>2 DEF Stands
  <2>2. PICK y, t, e : /\ y = [r.found.yaml EXCEPT ![r.name] = c]
                       /\ t = [r.found.tmp EXCEPT ![r.name] = NoFile]
                       /\ e = (IF r.env THEN c ELSE r.found.env)
    OBVIOUS
  <2>3. /\ y \in [FileNames -> FileTexts] /\ t \in [FileNames -> FileTexts] /\ e \in FileTexts
    BY <1>0, <2>2, CreateNumbers DEF Folders
  <2>4. PICK g : g = [r.found EXCEPT !.there = TRUE, !.yaml = y, !.tmp = t, !.env = e]
    OBVIOUS
  <2>5. g \in Folders /\ g.there = TRUE /\ g.yaml = y /\ g.tmp = t /\ g.env = e
    BY <1>0, <2>3, <2>4 DEF Folders
  <2>6. folder = g
    BY <1>0, <2>1, <2>2, <2>5, SameFolder DEF Folders
  <2>7. g = [r.found EXCEPT !.there = TRUE, !.yaml[r.name] = c, !.tmp[r.name] = NoFile,
                            !.env = IF r.env THEN c ELSE @]
    BY <1>0, <2>2, <2>4 DEF Folders
  <2> QED
    BY <1>2, <2>1, <2>6, <2>7 DEF ExactlyCreated
<1>3. ASSUME NEW f \in Folders, r.pc \in {"refuse", "unenv"}, folder' = f,
             f.there = TRUE, f.yaml = r.found.yaml,
             f.tmp = [r.found.tmp EXCEPT ![r.name] = NoFile],
             f.env = (IF r.env THEN NoFile ELSE r.found.env)
      PROVE  ExactlyUndone(c)
  <2>2. PICK t, e : /\ t = [r.found.tmp EXCEPT ![r.name] = NoFile]
                    /\ e = (IF r.env THEN NoFile ELSE r.found.env)
    OBVIOUS
  <2>3. t \in [FileNames -> FileTexts] /\ e \in FileTexts
    BY <1>0, <2>2, CreateNumbers DEF Folders
  <2>4. PICK g : g = [r.found EXCEPT !.there = TRUE, !.tmp = t, !.env = e]
    OBVIOUS
  <2>5. g \in Folders /\ g.there = TRUE /\ g.yaml = r.found.yaml /\ g.tmp = t /\ g.env = e
    BY <1>0, <2>3, <2>4 DEF Folders
  <2>6. f = g
    <3>1. f.there = g.there /\ f.yaml = g.yaml /\ f.tmp = g.tmp /\ f.env = g.env
      BY <1>3, <2>2, <2>5
    <3> QED
      BY <1>3, <2>5, <3>1, SameFolder
  <2>7. g = [r.found EXCEPT !.there = TRUE, !.tmp[r.name] = NoFile,
                            !.env = IF r.env THEN NoFile ELSE @]
    BY <1>0, <2>2, <2>4 DEF Folders
  <2> QED
    BY <1>3, <2>6, <2>7 DEF ExactlyUndone
<1>4. ASSUME r.pc \in {"up", "announce"} PROVE ExactlyCreated(c)
  <2>1. CreateStarts(c) \/ CreateAnnounces(c)
    BY <1>4, OthersDoNotEnd
       DEF CreateFolder, CreateWrites, CreateWriteFails, CreateValidates, CreateTidies,
           CreateCleans
  <2>2. folder' = folder
    BY <2>1 DEF CreateStarts, CreateAnnounces, CreateGoes
  <2> QED
    BY <1>2, <1>4, <2>2
<1>5. ASSUME r.pc \in {"refuse", "unenv"} PROVE ExactlyUndone(c)
  <2>1. CreateTidies(c)
    BY <1>5, OthersDoNotEnd
       DEF CreateFolder, CreateWrites, CreateWriteFails, CreateValidates, CreateCleans,
           CreateStarts, CreateAnnounces
  <2>2. /\ folder.there = TRUE /\ folder.yaml = r.found.yaml
        /\ folder.env = (IF r.env THEN c ELSE r.found.env)
        /\ r.pc = "refuse" => folder.tmp = [r.found.tmp EXCEPT ![r.name] = c]
        /\ r.pc = "unenv" => r.env /\ folder.tmp = [r.found.tmp EXCEPT ![r.name] = NoFile]
    BY <1>0, <1>5 DEF Stands, Folders
  <2>3. CASE r.pc = "refuse"
    <3>1. PICK f, to : /\ f = WithoutTmp(c) /\ to = (IF r.env THEN "unenv" ELSE "idle")
                       /\ CreateGoes(c, f, to)
      BY <2>1, <2>3 DEF CreateTidies
    <3>2. PICK t : t = [folder.tmp EXCEPT ![r.name] = NoFile]
      OBVIOUS
    <3>3. f = [folder EXCEPT !.tmp = t] /\ t \in [FileNames -> FileTexts]
      BY <1>0, <3>1, <3>2, CreateNumbers DEF WithoutTmp, Folders
    <3>4. /\ f \in Folders /\ f.there = folder.there /\ f.env = folder.env
          /\ f.yaml = folder.yaml /\ f.tmp = t
      BY <1>0, <3>3 DEF Folders
    <3>5. t = [r.found.tmp EXCEPT ![r.name] = NoFile]
      BY <1>0, <2>2, <2>3, <3>2 DEF Folders
    <3>6. folder' = f /\ ~r.env
      <4>1. to = "idle"
        <5>1. PICK u, q : /\ u = CreationsBeside(f) /\ creation' = [u EXCEPT ![c] = q]
                          /\ q = IF to = "idle" THEN NoCreation ELSE [r EXCEPT !.pc = to]
          BY <3>1 DEF CreateGoes
        <5>2. u \in [Creators -> Creations]
          BY <5>1, BesideCreations DEF CreateIInv
        <5>3. q.pc = "idle"
          BY <1>1, <5>1, <5>2
        <5> QED
          BY <1>0, <5>1, <5>3 DEF Creations
      <4> QED
        BY <3>1, <4>1 DEF CreateGoes
    <3> QED
      BY <1>3, <1>5, <2>2, <3>4, <3>5, <3>6
  <2>4. CASE r.pc = "unenv"
    <3>1. PICK f : f = [folder EXCEPT !.env = NoFile]
      OBVIOUS
    <3>2. folder' = f
      BY <2>1, <2>4, <3>1 DEF CreateTidies, CreateGoes
    <3>3. /\ f \in Folders /\ f.there = folder.there /\ f.env = NoFile
          /\ f.yaml = folder.yaml /\ f.tmp = folder.tmp
      BY <1>0, <3>1, CreateNumbers DEF Folders
    <3> QED
      BY <1>3, <1>5, <2>2, <2>4, <3>2, <3>3
  <2> QED
    BY <1>5, <2>3, <2>4
<1> QED
  BY <1>4, <1>5

\* However creations, a removal and readers of the list interleave, a creation beside which
\* nothing else has changed the folder creates exactly its project or, if Compose refuses it,
\* undoes what it has written, and the list of projects follows (ComposeService.create,
\* compose.service.ts:494, remove, :647, compose-discovery.ts).
THEOREM CreationsAreExact == ComposeCreateSpec => CreationIsExact
<1>1. ComposeCreateInit => CreateIInv
  BY CreateStart
<1>2. CreateIInv /\ [ComposeCreateNext]_createVars => CreateIInv'
  BY CreateKeeps
<1>3. CreateIInv /\ CreateIInv' /\ [ComposeCreateNext]_createVars =>
        [/\ \A c \in Creators : Ends(c) /\ creation[c].alone =>
              /\ creation[c].pc \in {"up", "announce"} => ExactlyCreated(c)
              /\ creation[c].pc \in {"refuse", "unenv"} => ExactlyUndone(c)
         /\ ListIsCurrent']_createVars
  <2> SUFFICES ASSUME CreateIInv, CreateIInv', [ComposeCreateNext]_createVars
               PROVE  /\ \A c \in Creators : Ends(c) /\ creation[c].alone =>
                           /\ creation[c].pc \in {"up", "announce"} => ExactlyCreated(c)
                           /\ creation[c].pc \in {"refuse", "unenv"} => ExactlyUndone(c)
                      /\ ListIsCurrent'
    OBVIOUS
  <2>1. ListIsCurrent'
    BY DEF CreateIInv
  <2> QED
    BY <2>1, CreationEnds
<1> QED
  BY <1>1, <1>2, <1>3, PTL DEF ComposeCreateSpec, CreationIsExact

\* Files, calls, scans and the memo keep their types.
THEOREM CreateTypesStay == ComposeCreateSpec => []ComposeCreateTypeOK
<1>1. ComposeCreateInit => CreateIInv
  BY CreateStart
<1>2. CreateIInv /\ [ComposeCreateNext]_createVars => CreateIInv'
  BY CreateKeeps
<1>3. CreateIInv => ComposeCreateTypeOK
  BY DEF CreateIInv, CreateTypes, ComposeCreateTypeOK, Creations, CreateSteps, Memos, Scans
<1> QED
  BY <1>1, <1>2, <1>3, PTL DEF ComposeCreateSpec

--------------------------------------------------------------------------------
\* The parts together

\* The terminal keeps its types too.
THEOREM TerminalTypesStay == TerminalSpec => []TerminalTypeOK
<1>1. TerminalIInv => TerminalTypeOK
  BY DEF TerminalIInv
<1> QED
  BY <1>1, TerminalInvariant, PTL

\* A behaviour of one of the parts is, for every other part, one in which nothing happens:
\* what is proved of a part alone holds of the parts together (the routes and the services of
\* modules/compose, modules/scheduler, modules/updates and modules/terminal share no state).
THEOREM OperationsAreTheirParts ==
    OperationsSpec => /\ ComposeSpec /\ Spec /\ ComposeCreateSpec /\ HostUpdateSpec
                      /\ TerminalSpec
<1>1. OperationsInit => /\ ComposeInit /\ Init /\ ComposeCreateInit /\ HostUpdateInit
                        /\ TerminalInit
  BY DEF OperationsInit
<1>2. [OperationsNext]_operationsVars =>
        /\ [ComposeNext]_composeVars /\ [Next]_vars /\ [ComposeCreateNext]_createVars
        /\ [HostUpdateNext]_hostVars /\ [TerminalNext]_terminalVars
  BY DEF OperationsNext, operationsVars
<1> QED
  BY <1>1, <1>2, PTL DEF OperationsSpec, ComposeSpec, Spec, ComposeCreateSpec, HostUpdateSpec,
                         TerminalSpec

\* All of their state keeps its types, for any number of calls, jobs, creations and updates
\* (compose.service.ts:58, scheduler.service.ts:19, compose-discovery.ts:47,
\* docker-host-update.service.ts:125, attach-exec.ts:58).
THEOREM OperationsTypesStay == OperationsSpec => []OperationsTypeOK
<1>1. OperationsInit => part \in Parts
  BY DEF OperationsInit
<1>2. part \in Parts /\ [OperationsNext]_operationsVars => (part \in Parts)'
  BY DEF OperationsNext, operationsVars
<1>3. /\ part \in Parts /\ ComposeTypeOK /\ TypeOK /\ ComposeCreateTypeOK /\ HostUpdateTypeOK
      /\ TerminalTypeOK
      => OperationsTypeOK
  BY DEF OperationsTypeOK
<1>4. OperationsSpec => [](part \in Parts)
  BY <1>1, <1>2, PTL DEF OperationsSpec
<1> QED
  BY <1>3, <1>4, OperationsAreTheirParts, ComposeTypes, SchedulerTypeCorrect, CreateTypesStay,
     HostUpdateTypesStay, TerminalTypesStay, PTL

\* Together, too, each part keeps what it promises (compose.service.ts:73,
\* scheduler.service.ts:19, docker-host-update.service.ts:125, attach-exec.ts:58).
COROLLARY OperationsHold ==
    OperationsSpec => /\ []MutualExclusion /\ []SomebodyGoesOn /\ []NoOverlap
                      /\ []NothingAfterStop /\ []TasksAreTheRows /\ []NothingLeft
                      /\ CreationIsExact /\ HostUpdateIsTrue
BY OperationsAreTheirParts, ComposeExcludes, ComposeIsNeverStuck, JobsDoNotOverlap,
   SchedulerStops, TasksFollowTheRows, TerminalLeavesNothing, CreationsAreExact,
   HostUpdatesAreTrue, PTL

================================================================================
