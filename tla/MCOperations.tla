------------------------------ MODULE MCOperations ------------------------------
(***************************************************************************)
(* What runs at an operator's click and at the timer's: operations on a     *)
(* Compose project, the creation of one, the scheduler's jobs, the update of *)
(* Docker on the host and a terminal, each on a small instance. They share   *)
(* no state here, so a behaviour is one of one part, as in MCAccess.        *)
(***************************************************************************)
EXTENDS MCCompose, Scheduler, ComposeCreate, HostUpdate, Terminal

VARIABLE part    \* the part this behaviour is about

Parts == {"compose", "scheduler", "create", "host", "terminal"}

operationsVars == <<part, composeVars, vars, createVars, hostVars, terminalVars>>

\* What a row begins with: another expression would only swap the names.
ACron == CHOOSE cron \in Crons : TRUE

\* The part that rests has one initial state.
OperationsInit ==
    /\ part \in Parts
    /\ ComposeInit /\ Init /\ ComposeCreateInit /\ HostUpdateInit /\ TerminalInit
    /\ part = "compose" \/ \A c \in Calls : req[c] = [op |-> "runAction", svc |-> web, img |-> v2]
    /\ part = "scheduler" \/ \A j \in Jobs : rows[j] = NoUpdate.row
    /\ \A j \in Jobs : rows[j].cron \in {ACron, Invalid}
    /\ part = "create" \/ folder = NoFolder

OperationsNext ==
    \/ /\ part = "compose" /\ ComposeNext
       /\ UNCHANGED <<part, vars, createVars, hostVars, terminalVars>>
    \/ /\ part = "scheduler" /\ Next
       /\ UNCHANGED <<part, composeVars, createVars, hostVars, terminalVars>>
    \/ /\ part = "create" /\ ComposeCreateNext
       /\ UNCHANGED <<part, composeVars, vars, hostVars, terminalVars>>
    \/ /\ part = "host" /\ HostUpdateNext
       /\ UNCHANGED <<part, composeVars, vars, createVars, terminalVars>>
    \/ /\ part = "terminal" /\ TerminalNext
       /\ UNCHANGED <<part, composeVars, vars, createVars, hostVars>>

\* The fairness of the Compose operations (FairComposeSpec), while they are what runs.
OperationsFairness == \A c \in Calls : WF_composeVars(part = "compose" /\ Step(c))

OperationsSpec == OperationsInit /\ [][OperationsNext]_operationsVars /\ OperationsFairness

\* The state of the part that runs has its types; the others' is as it began
\* (compose.service.ts:58, scheduler.service.ts:19, compose-discovery.ts:47,
\* docker-host-update.service.ts:125, attach-exec.ts:58).
OperationsTypeOK ==
    /\ part \in Parts
    /\ part = "compose" => ComposeTypeOK
    /\ part = "scheduler" => TypeOK
    /\ part = "create" => ComposeCreateTypeOK
    /\ part = "host" => HostUpdateTypeOK
    /\ part = "terminal" => TerminalTypeOK
================================================================================
