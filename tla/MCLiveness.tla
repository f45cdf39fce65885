------------------------------- MODULE MCLiveness -------------------------------
(***************************************************************************)
(* The parts that promise that something ends or arrives: the project lock, *)
(* image updates, self-updates and the pages with lists, each on a small     *)
(* instance and under its own fairness. They share no state here, so a       *)
(* behaviour is one of one part, as in MCAccess.                            *)
(***************************************************************************)
EXTENDS MCProjectLock, ImageUpdates, SelfUpdate, ListPages, TLC

VARIABLE part    \* the part this behaviour is about

Parts == {"lock", "updates", "self-update", "lists"}

\* Three commits of two releases.
MCVersionOf == 1 :> 1 @@ 2 :> 1 @@ 3 :> 2

livenessVars == <<part, lockVars, vars, selfUpdateVars, listVars>>

\* The parts that rest have few initial states.
LivenessInit ==
    /\ part \in Parts
    /\ LockInit /\ Init /\ SelfUpdateInit /\ ListPagesInit
    /\ part = "lock" \/ \A c, d \in Calls : lockKey[c] = lockKey[d]
    /\ part = "updates" \/ \A a \in Applies : apply[a].kind = "service"
    /\ part = "self-update" \/ file = NoProgress
    /\ part = "lists" \/ kind = CHOOSE k \in ListKinds : TRUE

LivenessNext ==
    \/ part = "lock" /\ LockNext /\ UNCHANGED <<part, vars, selfUpdateVars, listVars>>
    \/ part = "updates" /\ Next /\ UNCHANGED <<part, lockVars, selfUpdateVars, listVars>>
    \/ /\ part = "self-update" /\ SelfUpdateNext
       /\ UNCHANGED <<part, lockVars, vars, listVars>>
    \/ /\ part = "lists" /\ ListPagesNext
       /\ UNCHANGED <<part, lockVars, vars, selfUpdateVars>>

\* The fairness of each part (FairLockSpec, FairSpec, FairSelfUpdateSpec and
\* ListPagesFairness), while it is the one that runs.
LivenessFairness ==
    /\ \A c \in Calls : /\ WF_lockVars(part = "lock" /\ AcquireLock(c))
                        /\ WF_lockVars(part = "lock" /\ ReleaseLock(c))
    /\ \A a \in Applies : WF_vars(part = "updates" /\ StepInTime(a))
    /\ \A i \in UpdaterIds : WF_selfUpdateVars(part = "self-update" /\ Finalize(i))
    /\ WF_listVars(part = "lists" /\ EventFires)
    /\ WF_listVars(part = "lists" /\ Fallback)
    /\ \A l \in LoadIds : /\ WF_listVars(part = "lists" /\ ListIsRead(l))
                          /\ WF_listVars(part = "lists" /\ ListArrives(l))

LivenessSpec == LivenessInit /\ [][LivenessNext]_livenessVars /\ LivenessFairness

\* The state of the part that runs has its types; the others are as they began
\* (compose.service.ts:59, updates.service.ts:66, self-update.service.ts:72,
\* containers-page.tsx:48).
LivenessTypeOK ==
    /\ part \in Parts
    /\ part = "lock" => LockTypeOK
    /\ part = "updates" => TypeOK
    /\ part = "self-update" => SelfUpdateTypeOK
    /\ part = "lists" => ListPagesTypeOK
================================================================================
