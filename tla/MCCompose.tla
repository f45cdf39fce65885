-------------------------------- MODULE MCCompose --------------------------------
(***************************************************************************)
(* ComposeService on one project of two services.  The wiring is the       *)
(* interesting constant: which ComposeService object serves which          *)
(* operation.                                                              *)
(***************************************************************************)
EXTENDS ComposeService, TLC

CONSTANTS web, db, v1, v2, digest, editor, updates, scheduler

\* One object for everything: what the lock is written for.
OneObject == [op \in Ops |-> {editor}]

\* As deployed: compose/index.ts serves the editor's routes; updates/index.ts and
\* scheduler/index.ts each build a ComposeService of their own, which their
\* UpdatesService calls for the pinned recreates.
AsDeployed ==
    [op \in Ops |-> IF op = "recreatePinned" THEN {updates, scheduler} ELSE {editor}]

MCInitialYaml == web :> v1 @@ db :> v1
================================================================================
