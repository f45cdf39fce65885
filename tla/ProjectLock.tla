------------------------------ MODULE ProjectLock ------------------------------
(***************************************************************************)
(* ComposeService.withProjectLock: a mutex per Compose project, built from *)
(* a chain of promises.  Every call hangs itself behind the promise that   *)
(* projectChains holds for its key, leaves its own promise there, and runs *)
(* once the one it found is resolved.                                      *)
(*                                                                         *)
(* A promise is named by the call that made it: projectChains[k] = c says  *)
(* that the map holds the chain built by call c.  A key is one entry of    *)
(* one instance's private map: two ComposeService objects never share one. *)
(***************************************************************************)
EXTENDS Naturals

CONSTANTS
    Calls,      \* invocations of withProjectLock
    Keys,       \* entries of the projectChains maps
    NoCall      \* the absent map entry, and the already resolved promise

ASSUME NoCallAssumption == NoCall \notin Calls

VARIABLES
    projectChains,  \* [Keys -> Calls \cup {NoCall}]: the last chain put in the map
    prev,           \* the promise a call awaits
    lockKey,        \* the key a call was made for
    lockState       \* where a call is: outside, waiting, running fn, released

lockVars == <<projectChains, prev, lockKey, lockState>>

LockStates == {"outside", "waiting", "running", "released"}

LockTypeOK ==
    /\ projectChains \in [Keys -> Calls \cup {NoCall}]
    /\ prev \in [Calls -> Calls \cup {NoCall}]
    /\ lockKey \in [Calls -> Keys]
    /\ lockState \in [Calls -> LockStates]

LockInit ==
    /\ projectChains = [k \in Keys |-> NoCall]
    /\ prev = [c \in Calls |-> NoCall]
    /\ lockKey \in [Calls -> Keys]
    /\ lockState = [c \in Calls |-> "outside"]

\* The synchronous head of withProjectLock, up to `await prev`.
EnterLock(c) ==
    /\ lockState[c] = "outside"
    /\ prev' = [prev EXCEPT ![c] = projectChains[lockKey[c]]]
    /\ projectChains' = [projectChains EXCEPT ![lockKey[c]] = c]
    /\ lockState' = [lockState EXCEPT ![c] = "waiting"]
    /\ UNCHANGED lockKey

\* The chain built by c resolves with its gate: c releases the gate only after
\* the chain it waited for has resolved.
ChainResolved(c) == IF c = NoCall THEN TRUE ELSE lockState[c] = "released"

\* Mutated form: fn starts without `await prev`.
AcquireWithoutAwait(c) ==
    /\ lockState[c] = "waiting"
    /\ lockState' = [lockState EXCEPT ![c] = "running"]
    /\ UNCHANGED <<projectChains, prev, lockKey>>

\* `await prev` continues.
AcquireLock(c) ==
    /\ lockState[c] = "waiting"
    /\ ChainResolved(prev[c])
    /\ lockState' = [lockState EXCEPT ![c] = "running"]
    /\ UNCHANGED <<projectChains, prev, lockKey>>

\* Mutated form: the entry is deleted without being compared with the own chain.
ReleaseAlwaysDeletes(c) ==
    /\ lockState[c] = "running"
    /\ lockState' = [lockState EXCEPT ![c] = "released"]
    /\ projectChains' = [projectChains EXCEPT ![lockKey[c]] = NoCall]
    /\ UNCHANGED <<prev, lockKey>>

\* The finally block: release the gate, and drop the map entry if no later call
\* has replaced it.  fn may have returned or thrown.
ReleaseLock(c) ==
    /\ lockState[c] = "running"
    /\ lockState' = [lockState EXCEPT ![c] = "released"]
    /\ projectChains' =
         IF projectChains[lockKey[c]] = c
         THEN [projectChains EXCEPT ![lockKey[c]] = NoCall]
         ELSE projectChains
    /\ UNCHANGED <<prev, lockKey>>

LockNext == \E c \in Calls : EnterLock(c) \/ AcquireLock(c) \/ ReleaseLock(c)

LockSpec == LockInit /\ [][LockNext]_lockVars

\* A resolved promise always continues its awaiter, and every fn ends: its
\* child processes run under a timeout of 300 s (execCompose).
FairLockSpec ==
    LockSpec /\ \A c \in Calls : WF_lockVars(AcquireLock(c)) /\ WF_lockVars(ReleaseLock(c))

--------------------------------------------------------------------------------

Active(c) == lockState[c] \in {"waiting", "running"}

\* Two edits of one project through one ComposeService never overlap: at most
\* one call per key is between `await prev` and its finally block.
MutualExclusion ==
    \A c, d \in Calls :
        (lockState[c] = "running" /\ lockState[d] = "running" /\ lockKey[c] = lockKey[d])
            => c = d

\* The map does not leak: an entry is there exactly while some call on the key
\* is waiting or running, and it is the chain of such a call.  (A leaked entry
\* would grow the map for ever; an entry dropped too early lets a new call pass
\* those that are still queued.)
EntryIffBusy ==
    \A k \in Keys :
        IF projectChains[k] = NoCall
        THEN \A c \in Calls : lockKey[c] = k => ~Active(c)
        ELSE Active(projectChains[k]) /\ lockKey[projectChains[k]] = k
================================================================================
