--------------------------- MODULE ImageUpdatesProofs ---------------------------
(***************************************************************************)
(* Proofs about updates: of containers (ImageUpdates), for any number of   *)
(* calls, checks, objects and images, and of Dockora itself (SelfUpdate),  *)
(* for any number of clicks and revisions; whatever fails. And about the   *)
(* pages with lists (ListPages) from which they are asked for.             *)
(*                                                                         *)
(* The marks of the in-flight guard are kept per object, and a call takes  *)
(* its mark away when it ends. That this never takes away the mark of      *)
(* another call needs that no two calls of one object have the same        *)
(* target, which in turn needs that the marks are exact: the two go        *)
(* through the induction together. What an update reports is followed step *)
(* by step while no other one crosses it.                                  *)
(*                                                                         *)
(* That ids stay in their range is a matter of counting: a call makes at   *)
(* most two containers, a click at most one updater.                       *)
(***************************************************************************)
EXTENDS MCLiveness, ProjectLockProofs, FiniteSetTheorems

Fields == {"pc", "obj", "target", "row", "kind", "look", "before", "result"}

\* The calls are records with these fields, of an object that exists.
Shape ==
    /\ apply = [a \in Applies |-> apply[a]]
    /\ \A a \in Applies : /\ apply[a] = [f \in Fields |-> apply[a][f]]
                          /\ apply[a].obj \in Objects
    /\ applyInFlight = [o \in Objects |-> applyInFlight[o]]

\* Two calls of one object never have the same target.
Alone ==
    \A a, b \in Applies :
        /\ InFlight(a) /\ InFlight(b)
        /\ apply[a].obj = apply[b].obj /\ apply[a].target = apply[b].target
        => a = b

GuardInv == Shape /\ MarksExact /\ Alone

--------------------------------------------------------------------------------
\* What a step can be for the guard

Others(a) == \A b \in Applies \ {a} : apply'[b] = apply[b]

\* A call goes on, or has not begun.
GoesOn(a) ==
    /\ Others(a) /\ UNCHANGED applyInFlight
    /\ apply'[a].obj = apply[a].obj
    /\ InFlight(a)' = InFlight(a) /\ (InFlight(a) => apply'[a].target = apply[a].target)

\* A call is accepted.
Marks(a) ==
    /\ Others(a) /\ ~ InFlight(a) /\ InFlight(a)'
    /\ apply'[a].obj = apply[a].obj
    /\ apply'[a].target \notin applyInFlight[apply[a].obj]
    /\ applyInFlight' = [applyInFlight EXCEPT ![apply[a].obj] = @ \cup {apply'[a].target}]

\* A call ends.
Unmarks(a) ==
    /\ Others(a) /\ InFlight(a) /\ ~ InFlight(a)'
    /\ apply'[a].obj = apply[a].obj
    /\ applyInFlight' = [applyInFlight EXCEPT ![apply[a].obj] = @ \ {apply[a].target}]

LEMMA GoingOn ==
    ASSUME NEW a \in Applies, NEW next, Shape, InFlight(a), Goto(a, next),
           next \notin {"idle", "done"}, UNCHANGED applyInFlight
    PROVE  Shape' /\ GoesOn(a)
  BY DEF Shape, Fields, Goto, GoesOn, Others, InFlight

LEMMA Returning ==
    ASSUME NEW a \in Applies, NEW result, Shape, InFlight(a), Return(a, result)
    PROVE  Shape' /\ Unmarks(a)
  BY ZenonT(30) DEF Shape, Fields, Return, Unmarks, Others, InFlight

\* Recreating and creating go on or return.
LEMMA Recreating ==
    ASSUME NEW a \in Applies, NEW id, NEW img, NEW create, NEW next, NEW failed, NEW faults,
           Shape, InFlight(a), create \notin {"idle", "done"}, next \notin {"idle", "done"},
           Recreate(a, id, img, create, next, failed, faults)
    PROVE  Shape' /\ (GoesOn(a) \/ Unmarks(a))
  BY GoingOn, Returning DEF Recreate

LEMMA Creating ==
    ASSUME NEW a \in Applies, NEW img, NEW next, NEW failed, NEW faults,
           Shape, InFlight(a), next \notin {"idle", "done"},
           Create(a, img, next, failed, faults)
    PROVE  Shape' /\ (GoesOn(a) \/ Unmarks(a))
  BY GoingOn, Returning DEF Create

LEMMA Calling ==
    ASSUME NEW a \in Applies, Shape, ApplyCall(a)
    PROVE  Shape' /\ (GoesOn(a) \/ Marks(a))
<1>1. PICK id \in {r.id : r \in rows} :
        IF id \in applyInFlight[apply[a].obj]
        THEN /\ apply' = [apply EXCEPT ![a] = [apply[a] EXCEPT !.pc = "done", !.target = id,
                                                               !.result = "busy"]]
             /\ UNCHANGED <<applyInFlight, overlapped>>
        ELSE /\ apply' = [apply EXCEPT ![a] = [apply[a] EXCEPT !.pc = "read", !.target = id]]
             /\ applyInFlight' = [applyInFlight EXCEPT ![apply[a].obj] = @ \cup {id}]
             /\ overlapped' = overlapped \cup Meeting(a)
  BY DEF ApplyCall
<1>3. apply[a].pc = "idle"
  BY DEF ApplyCall, At
<1>4. CASE id \in applyInFlight[apply[a].obj]
  <2>1. apply' = [apply EXCEPT ![a] =
                    [apply[a] EXCEPT !.pc = "done", !.target = id, !.result = "busy"]]
    BY <1>1, <1>4
  <2>2. UNCHANGED applyInFlight
    BY <1>1, <1>4
  <2>3. Shape'
    BY <2>1, <2>2 DEF Shape, Fields
  <2>4. GoesOn(a)
    BY <1>3, <2>1, <2>2 DEF Shape, Fields, GoesOn, Others, InFlight
  <2> QED
    BY <2>3, <2>4
<1>5. CASE id \notin applyInFlight[apply[a].obj]
  <2>1. apply' = [apply EXCEPT ![a] = [apply[a] EXCEPT !.pc = "read", !.target = id]]
    BY <1>1, <1>5
  <2>2. applyInFlight' = [applyInFlight EXCEPT ![apply[a].obj] = @ \cup {id}]
    BY <1>1, <1>5
  <2>3. Shape'
    BY <2>1, <2>2 DEF Shape, Fields
  <2>4. apply'[a].target = id /\ apply'[a].obj = apply[a].obj /\ apply'[a].pc = "read"
    BY ZenonT(30), <2>1 DEF Shape, Fields
  <2>5. Others(a)
    BY <2>1 DEF Shape, Others
  <2>6. Marks(a)
    BY <1>3, <1>5, <2>2, <2>4, <2>5 DEF Marks, InFlight
  <2> QED
    BY <2>3, <2>6
<1> QED
  BY <1>4, <1>5

\* Every step of a call under way goes on or returns.
LEMMA Stepping ==
    ASSUME NEW a \in Applies, Shape, ApplyStep(a)
    PROVE  Shape' /\ (GoesOn(a) \/ Unmarks(a))
<1>1. InFlight(a)
  BY DEF ApplyStep, ApplyRead, ApplyPull, ApplyBegin, ApplyRecreate, ApplyHealth, ApplyRefresh,
         ApplyWrite, ApplyForget, ApplyTidy, ApplyRollback, At, InFlight
<1>2. CASE ApplyRead(a)
  <2>1. CASE Return(a, "failed")
    BY <1>1, <2>1, Returning
  <2>2. CASE ~ Return(a, "failed")
    <3>1. PICK row, sort :
            /\ apply' = [apply EXCEPT ![a] =
                           [apply[a] EXCEPT !.pc = "pull", !.row = row, !.kind = sort]]
            /\ UNCHANGED applyInFlight
      BY <1>2, <2>2 DEF ApplyRead
    <3> QED
      BY <1>1, <3>1 DEF Shape, Fields, GoesOn, Others, InFlight
  <2> QED
    BY <2>1, <2>2
<1>3. CASE ApplyPull(a)
  BY <1>1, <1>3, GoingOn, Returning DEF ApplyPull
<1>4. CASE ApplyBegin(a)
  BY <1>1, <1>4 DEF ApplyBegin, At, Shape, Fields, GoesOn, Others, InFlight
<1>5. CASE ApplyRecreate(a)
  BY <1>1, <1>5, Recreating, Creating DEF ApplyRecreate
<1>6. CASE ApplyHealth(a)
  BY <1>1, <1>6, GoingOn DEF ApplyHealth
<1>7. CASE ApplyRefresh(a)
  <2>1. PICK look : /\ apply' = [apply EXCEPT ![a] =
                                   [apply[a] EXCEPT !.pc = "write", !.look = look]]
                    /\ UNCHANGED applyInFlight
    BY <1>7 DEF ApplyRefresh
  <2> QED
    BY <1>1, <2>1 DEF Shape, Fields, GoesOn, Others, InFlight
<1>8. CASE ApplyWrite(a)
  BY <1>1, <1>8, GoingOn DEF ApplyWrite
<1>10. CASE ApplyForget(a)
  BY <1>1, <1>10, GoingOn DEF ApplyForget
<1>11. CASE ApplyTidy(a)
  BY <1>1, <1>11, Returning DEF ApplyTidy
<1>9. CASE ApplyRollback(a)
  <2>1. CASE At(a, "rbPull")
    BY <1>1, <1>9, <2>1, GoingOn, Returning DEF ApplyRollback, At
  <2>2. CASE At(a, "rbRecreate")
    BY <1>1, <1>9, <2>2, GoingOn, Recreating DEF ApplyRollback, At
  <2>3. CASE At(a, "rbCreate")
    BY <1>1, <1>9, <2>3, Creating DEF ApplyRollback, At
  <2>4. CASE At(a, "rbEnd")
    BY <1>1, <1>9, <2>4, Returning DEF ApplyRollback, At
  <2> QED
    BY <1>9, <2>1, <2>2, <2>3, <2>4 DEF ApplyRollback
<1> QED
  BY <1>2, <1>3, <1>4, <1>5, <1>6, <1>7, <1>8, <1>9, <1>10, <1>11 DEF ApplyStep

--------------------------------------------------------------------------------
\* The guard

Targets(o) == {apply[a].target : a \in {b \in Applies : InFlight(b) /\ apply[b].obj = o}}

LEMMA GoingOnKeeps ==
    ASSUME NEW a \in Applies, GuardInv, Shape', GoesOn(a) PROVE GuardInv'
<1>1. \A b \in Applies : /\ InFlight(b)' = InFlight(b)
                         /\ apply'[b].obj = apply[b].obj
                         /\ InFlight(b) => apply'[b].target = apply[b].target
  BY DEF GoesOn, Others, InFlight
<1>2. Alone'
  BY <1>1 DEF GuardInv, Alone
<1>3. \A o \in Objects : Targets(o)' = Targets(o)
  BY <1>1 DEF Targets
<1> QED
  BY <1>2, <1>3 DEF GuardInv, MarksExact, Targets, GoesOn

LEMMA MarkingKeeps ==
    ASSUME NEW a \in Applies, GuardInv, Shape', Marks(a) PROVE GuardInv'
<1> DEFINE obj == apply[a].obj
           target == apply'[a].target
<1>1. \A b \in Applies \ {a} : apply'[b] = apply[b] /\ InFlight(b)' = InFlight(b)
  BY DEF Marks, Others, InFlight
<1>2. obj \in Objects /\ apply'[a].obj = obj /\ InFlight(a)' /\ ~ InFlight(a)
  BY DEF Marks, GuardInv, Shape
<1>3. \A b \in Applies \ {a} : InFlight(b) /\ apply[b].obj = obj => apply[b].target # target
  BY <1>2 DEF Marks, GuardInv, MarksExact
<1>4. Alone'
  BY <1>1, <1>2, <1>3 DEF GuardInv, Alone
<1>5. \A o \in Objects : Targets(o)' = IF o = obj THEN Targets(o) \cup {target} ELSE Targets(o)
  BY <1>1, <1>2 DEF Targets
<1>6. \A o \in Objects : applyInFlight'[o] = IF o = obj THEN applyInFlight[o] \cup {target}
                                             ELSE applyInFlight[o]
  BY <1>2 DEF Marks, GuardInv, Shape
<1>7. \A o \in Objects : applyInFlight[o] = Targets(o)
  BY DEF GuardInv, MarksExact, Targets
<1>8. \A o \in Objects : applyInFlight'[o] = Targets(o)'
  BY <1>5, <1>6, <1>7
<1>9. MarksExact'
  BY <1>8 DEF MarksExact, Targets
<1> QED
  BY <1>4, <1>9 DEF GuardInv

LEMMA UnmarkingKeeps ==
    ASSUME NEW a \in Applies, GuardInv, Shape', Unmarks(a) PROVE GuardInv'
<1> DEFINE obj == apply[a].obj
           target == apply[a].target
<1>1. \A b \in Applies \ {a} : apply'[b] = apply[b] /\ InFlight(b)' = InFlight(b)
  BY DEF Unmarks, Others, InFlight
<1>2. obj \in Objects /\ ~ InFlight(a)' /\ InFlight(a)
  BY DEF Unmarks, GuardInv, Shape
<1>3. \A b \in Applies \ {a} : InFlight(b) /\ apply[b].obj = obj => apply[b].target # target
  BY <1>2 DEF GuardInv, Alone
<1>4. Alone'
  BY <1>1, <1>2 DEF GuardInv, Alone
<1>5. \A o \in Objects : Targets(o)' = IF o = obj THEN Targets(o) \ {target} ELSE Targets(o)
  BY <1>1, <1>2, <1>3 DEF Targets
<1>6. \A o \in Objects : applyInFlight'[o] = IF o = obj THEN applyInFlight[o] \ {target}
                                             ELSE applyInFlight[o]
  BY <1>2 DEF Unmarks, GuardInv, Shape
<1>7. \A o \in Objects : applyInFlight[o] = Targets(o)
  BY DEF GuardInv, MarksExact, Targets
<1>8. \A o \in Objects : applyInFlight'[o] = Targets(o)'
  BY <1>5, <1>6, <1>7
<1>9. MarksExact'
  BY <1>8 DEF MarksExact, Targets
<1> QED
  BY <1>4, <1>9 DEF GuardInv

LEMMA GuardInit == Init => GuardInv
<1> SUFFICES ASSUME Init PROVE GuardInv
  OBVIOUS
<1>1. PICK sort \in Kinds :
        apply \in [Applies -> [pc : {"idle"}, obj : Objects, target : {NoId}, row : {NoRow},
                     kind : {sort}, look : {NoLook}, before : {NoDigest}, result : {"none"}]]
  BY DEF Init
<1>2. Shape
  BY <1>1 DEF Init, Shape, Fields
<1>3. \A a \in Applies : ~ InFlight(a)
  BY <1>1 DEF InFlight
<1> QED
  BY <1>2, <1>3 DEF Init, GuardInv, MarksExact, Alone

LEMMA GuardStep == GuardInv /\ [Next]_vars => GuardInv'
<1> SUFFICES ASSUME GuardInv, [Next]_vars PROVE GuardInv'
  OBVIOUS
<1>1. ASSUME NEW a \in Applies, ApplyCall(a) PROVE GuardInv'
  BY <1>1, Calling, GoingOnKeeps, MarkingKeeps DEF GuardInv
<1>2. ASSUME NEW a \in Applies, ApplyStep(a) PROVE GuardInv'
  BY <1>2, Stepping, GoingOnKeeps, UnmarkingKeeps DEF GuardInv
<1>3. ASSUME UNCHANGED <<apply, applyInFlight>> PROVE GuardInv'
  BY <1>3 DEF GuardInv, Shape, MarksExact, Alone, InFlight
<1>4. CASE Publish \/ UNCHANGED vars
  BY <1>3, <1>4 DEF Publish, vars
<1>5. ASSUME NEW k \in Checks, CheckList(k) \/ CheckStep(k) PROVE GuardInv'
  BY <1>3, <1>5 DEF CheckList, CheckStep, CheckInspect, CheckWrite, CheckPrune, OnlyCheck
<1> QED
  BY <1>1, <1>2, <1>4, <1>5 DEF Next

LEMMA GuardInvariant == Spec => []GuardInv
  BY GuardInit, GuardStep, PTL DEF Spec

\* The marks are the targets of the calls under way: no failure leaves one behind,
\* and no call that ends takes away the mark of another.
THEOREM NoMarkIsLeft == Spec => []MarksExact
<1>1. GuardInv => MarksExact
  BY DEF GuardInv
<1> QED
  BY <1>1, GuardInvariant, PTL

\* With one UpdatesService object a container is updated by one call at a time.
\* (The running program has two: see the run updates_deployed.)
THEOREM OneObjectGuards ==
    ASSUME \A o, p \in Objects : o = p
    PROVE  Spec => []OneApplyPerContainer
<1>1. GuardInv => OneApplyPerContainer
  BY DEF GuardInv, Shape, Alone, OneApplyPerContainer
<1> QED
  BY <1>1, GuardInvariant, PTL

--------------------------------------------------------------------------------
\* What an update reports

\* Of two calls under way together each has met another one.
Apart == \A a, b \in Applies : InFlight(a) /\ InFlight(b) /\ a # b => a \in overlapped

\* A row about a container that is pinned says that it runs what it is pinned to, or nothing.
Pinned(r) == r.image # Tag => r.current \in {r.image, NoDigest}
RowFields == {"id", "image", "current", "remote", "available"}
Looked(look) ==
    look.seen.id # NoId /\ look.seen.image # Tag => look.local \in {look.seen.image, NoDigest}

RowsStand ==
    /\ \A r \in rows : Pinned(r) /\ r = [f \in RowFields |-> r[f]]
    /\ check = [k \in Checks |-> check[k]]
    /\ \A k \in Checks :
         /\ check[k] = [f \in {"pc", "look"} |-> check[k][f]]
         /\ check[k].pc \in {"inspect", "write"} => check[k].look.seen.id # NoId
         /\ check[k].pc = "write" => Looked(check[k].look)

Begun == {"pull", "recreate", "create", "health", "refresh", "write", "forget", "tidy", "rbPull",
          "rbRecreate", "rbCreate", "rbEnd"}
Refreshing == {"health", "refresh", "write", "forget", "tidy"}

\* A call that no other one crosses: from its pull on, the tag names what was offered; from its
\* recreation on there is a container that runs it; and at its end, what was before.
Follows(a) ==
    /\ apply[a].pc \in {"recreate", "create"} /\ apply[a].row.image = Tag =>
         tag = apply[a].row.remote
    /\ apply[a].pc \in Refreshing \cup {"rbPull", "rbRecreate", "rbEnd"} => container.id # NoId
    /\ apply[a].pc \in Refreshing /\ apply[a].row.image = Tag =>
         container.digest = apply[a].row.remote
    /\ /\ apply[a].pc = "rbEnd" /\ apply[a].kind # "project"
       /\ apply[a].row.current = apply[a].before
       => container.digest = apply[a].before

CallStands(a) ==
    /\ apply[a].pc \in Begun => Pinned(apply[a].row)
    /\ apply[a].pc \in Begun \ {"pull", "recreate"} => apply[a].before # NoDigest
    /\ apply[a].pc = "write" => Looked(apply[a].look)
    /\ InFlight(a) /\ a \notin overlapped => Follows(a)

ReportInv ==
    /\ Shape /\ Apart /\ RowsStand /\ lastId \in Nat
    /\ \A a \in Applies : apply[a].pc \in ApplyLabels /\ CallStands(a)

LEMMA ReportInit == Init => ReportInv
<1> SUFFICES ASSUME Init PROVE ReportInv
  OBVIOUS
<1>1. PICK sort \in Kinds :
        apply \in [Applies -> [pc : {"idle"}, obj : Objects, target : {NoId}, row : {NoRow},
                     kind : {sort}, look : {NoLook}, before : {NoDigest}, result : {"none"}]]
  BY DEF Init
<1>2. Shape
  BY GuardInit DEF GuardInv
<1>3. \A a \in Applies : apply[a].pc = "idle"
  BY <1>1
<1>4. RowsStand /\ lastId \in Nat
  BY DEF Init, RowsStand, Pinned, RowFields, Tag
<1> QED
  BY <1>2, <1>3, <1>4
  DEF ReportInv, Apart, CallStands, Begun, InFlight, ApplyLabels

LEMMA LookStands == ASSUME NEW c, NEW found PROVE Looked(LookAt(c, found))
  BY DEF Looked, LookAt, NoId

\* What a checked row says is true, if there was a container.
LEMMA CheckedStands ==
    ASSUME RowsStand, NEW look, NEW fetched, Looked(look), look.seen.id # NoId
    PROVE  \A r \in Checked(look, fetched) : Pinned(r) /\ r = [f \in RowFields |-> r[f]]
  BY DEF RowsStand, Checked, Without, Pinned, RowFields, Looked

LEMMA RowOfStands ==
    ASSUME RowsStand, NEW i, RowOf(i) # NoRow
    PROVE  RowOf(i) \in rows
  BY DEF RowOf

\* A step after which the call is at label.
LEMMA GoesTo ==
    ASSUME Shape, NEW a \in Applies, NEW label, Goto(a, label)
    PROVE  /\ apply'[a].pc = label /\ apply'[a].row = apply[a].row
           /\ apply'[a].kind = apply[a].kind /\ apply'[a].before = apply[a].before
           /\ apply'[a].look = apply[a].look /\ apply'[a].result = apply[a].result
           /\ Others(a)
  BY DEF Shape, Fields, Goto, Others

LEMMA Returns ==
    ASSUME Shape, NEW a \in Applies, NEW result, Return(a, result)
    PROVE  /\ apply'[a].pc = "done" /\ apply'[a].result = result /\ Others(a)
           /\ apply'[a].row = apply[a].row /\ apply'[a].kind = apply[a].kind
           /\ apply'[a].before = apply[a].before
  BY ZenonT(30) DEF Shape, Fields, Return, Others

\* What a step of a call must do for the invariant, besides the rows.
StepStands(a) ==
    /\ Others(a) /\ InFlight(a) /\ lastId' \in Nat /\ overlapped' = overlapped
    /\ apply'[a].pc \in ApplyLabels \ {"idle", "read"} /\ CallStands(a)'

\* A call that ends needs nothing more.
LEMMA EndStands ==
    ASSUME ReportInv, NEW a \in Applies, NEW result, InFlight(a), Return(a, result),
           lastId' \in Nat, UNCHANGED overlapped
    PROVE  StepStands(a)
  BY Returns DEF ReportInv, StepStands, CallStands, InFlight, Begun, ApplyLabels

LEMMA MadeStands ==
    ASSUME ReportInv, NEW img, container' = Made(img)
    PROVE  /\ container'.id # NoId /\ container'.id = lastId + 1
           /\ container'.digest = IF img = Tag THEN tag ELSE img
  BY DEF Made, ReportInv, NoId

LEMMA RecreateStands ==
    ASSUME ReportInv, NEW a \in Applies, ApplyRecreate(a)
    PROVE  StepStands(a)
<1>1. /\ Shape /\ InFlight(a) /\ lastId \in Nat /\ CallStands(a)
      /\ UNCHANGED <<tag, rows, check, overlapped>>
  BY DEF ReportInv, ApplyRecreate, At, InFlight
<1> DEFINE img == apply[a].row.image
<1>2. ASSUME NEW next, NEW made, Goto(a, next), next \in {"create", "health"},
             apply[a].before # NoDigest, apply[a].pc \in {"recreate", "create"},
             lastId' \in Nat,
             next = "health" => container' = Made(made) /\ (img = Tag => made = Tag)
      PROVE  StepStands(a)
  <2>1. /\ apply'[a].pc = next /\ apply'[a].row = apply[a].row
        /\ apply'[a].kind = apply[a].kind /\ apply'[a].before = apply[a].before /\ Others(a)
    BY <1>1, <1>2, GoesTo
  <2>2. Pinned(apply[a].row)
    BY <1>1, <1>2 DEF CallStands, Begun
  <2>3. a \notin overlapped => Follows(a)
    BY <1>1 DEF CallStands
  <2>4. next = "health" => /\ container'.id # NoId
                           /\ img = Tag => container'.digest = tag
    BY <1>2, MadeStands
  <2>5. a \notin overlapped => Follows(a)'
    BY <1>1, <1>2, <2>1, <2>3, <2>4 DEF Follows, Refreshing
  <2>6. CallStands(a)'
    BY <1>1, <1>2, <2>1, <2>2, <2>5 DEF CallStands, Begun, Pinned
  <2> QED
    BY <1>1, <1>2, <2>1, <2>6 DEF StepStands, ApplyLabels
<1>3. CASE At(a, "recreate")
  <2>1. /\ apply[a].before # NoDigest
        /\ Recreate(a, apply[a].target, img, "create", "health", "failed", ApplyFaults)
    BY <1>3 DEF ApplyRecreate, At
  <2>2. CASE Return(a, "failed")
    BY <1>1, <2>1, <2>2, EndStands DEF Recreate
  <2>3. CASE ~Return(a, "failed")
    BY <1>1, <1>2, <1>3, <2>1, <2>3 DEF Recreate, At
  <2> QED
    BY <2>2, <2>3
<1>4. CASE At(a, "create")
  <2>1. Create(a, img, "health", "failed", ApplyFaults)
    BY <1>4 DEF ApplyRecreate, At
  <2>2. apply[a].before # NoDigest
    BY <1>1, <1>4 DEF At, CallStands, Begun
  <2>3. CASE Return(a, "failed")
    BY <1>1, <2>1, <2>3, EndStands DEF Create
  <2>4. CASE ~Return(a, "failed")
    BY <1>1, <1>2, <1>4, <2>1, <2>2, <2>4 DEF Create, At
  <2> QED
    BY <2>3, <2>4
<1> QED
  BY <1>3, <1>4 DEF ApplyRecreate

LEMMA RollbackStands ==
    ASSUME ReportInv, NEW a \in Applies, ApplyRollback(a)
    PROVE  StepStands(a)
<1>1. /\ Shape /\ InFlight(a) /\ lastId \in Nat /\ CallStands(a)
      /\ UNCHANGED <<rows, check, overlapped>>
  BY DEF ReportInv, ApplyRollback, At, InFlight
<1>2. /\ apply[a].pc \in {"rbPull", "rbRecreate", "rbCreate", "rbEnd"}
      /\ apply[a].before # NoDigest /\ Pinned(apply[a].row)
      /\ a \notin overlapped => Follows(a)
  BY <1>1 DEF ApplyRollback, At, CallStands, Begun
<1>3. ASSUME NEW next, Goto(a, next), next \in {"rbRecreate", "rbCreate", "rbEnd"},
             lastId' \in Nat,
             a \notin overlapped /\ next = "rbRecreate" => container'.id # NoId,
             a \notin overlapped /\ next = "rbEnd" =>
               \/ container'.id # NoId /\ apply[a].kind = "project"
               \/ container' = Made(PreviousImage(a))
      PROVE  StepStands(a)
  <2>1. /\ apply'[a].pc = next /\ apply'[a].row = apply[a].row
        /\ apply'[a].kind = apply[a].kind /\ apply'[a].before = apply[a].before /\ Others(a)
    BY <1>1, <1>3, GoesTo
  <2>2. apply[a].row.current = apply[a].before =>
          PreviousImage(a) = apply[a].before /\ PreviousImage(a) # Tag
    BY <1>2 DEF PreviousImage, Pinned, NoDigest, Tag
  <2>3. a \notin overlapped => Follows(a)'
    BY <1>3, <2>1, <2>2, MadeStands DEF Follows, Refreshing
  <2>4. CallStands(a)'
    BY <1>1, <1>2, <1>3, <2>1, <2>3 DEF CallStands, Begun, Pinned
  <2> QED
    BY <1>1, <1>3, <2>1, <2>4 DEF StepStands, ApplyLabels
<1>4. CASE At(a, "rbPull")
  <2>1. UNCHANGED <<container, lastId>> /\ (Return(a, "rollbackFailed") \/ Goto(a, "rbRecreate"))
    BY <1>4 DEF ApplyRollback, At
  <2>2. a \notin overlapped => container.id # NoId
    BY <1>2, <1>4 DEF Follows, Refreshing, At
  <2> QED
    BY <1>1, <1>3, <2>1, <2>2, EndStands
<1>5. CASE At(a, "rbRecreate")
  <2>1. a \notin overlapped => container.id # NoId
    BY <1>2, <1>5 DEF Follows, Refreshing, At
  <2>2. CASE Return(a, "rollbackFailed")
    <3>1. lastId' = lastId \/ lastId' = lastId + 1
      BY <1>5, <2>2 DEF ApplyRollback, At, Recreate
    <3> QED
      BY <1>1, <2>2, <3>1, EndStands
  <2>3. CASE ~Return(a, "rollbackFailed")
    <3>1. CASE apply[a].kind = "standalone" /\ container.id = NoId
      <4>1. Goto(a, "rbEnd") /\ UNCHANGED <<container, lastId>>
        BY <1>5, <3>1 DEF ApplyRollback, At
      <4> QED
        BY <1>1, <1>3, <2>1, <3>1, <4>1
    <3>2. CASE ~(apply[a].kind = "standalone" /\ container.id = NoId)
      <4>1. Recreate(a, container.id, PreviousImage(a), "rbCreate", "rbEnd", "rollbackFailed",
                     ApplyFaults)
        BY <1>5, <3>2 DEF ApplyRollback, At
      <4>2. CASE Goto(a, "rbEnd")
        <5>1. /\ lastId' \in Nat
              /\ \/ apply[a].kind = "project" /\ container' = Made(Tag)
                 \/ container' = Made(PreviousImage(a))
          BY <1>1, <2>3, <4>1, <4>2, GoesTo DEF Recreate
        <5> QED
          BY <1>3, <4>2, <5>1, MadeStands
      <4>3. CASE ~Goto(a, "rbEnd")
        <5>1. Goto(a, "rbCreate") /\ lastId' = lastId
          BY <2>3, <4>1, <4>3 DEF Recreate
        <5> QED
          BY <1>1, <1>3, <5>1
      <4> QED
        BY <4>2, <4>3
    <3> QED
      BY <3>1, <3>2
  <2> QED
    BY <2>2, <2>3
<1>6. CASE At(a, "rbCreate")
  <2>1. Create(a, PreviousImage(a), "rbEnd", "rollbackFailed", ApplyFaults)
    BY <1>6 DEF ApplyRollback, At
  <2>2. CASE Return(a, "rollbackFailed")
    <3>1. lastId' \in Nat
      BY <1>1, <2>1 DEF Create
    <3> QED
      BY <1>1, <2>2, <3>1, EndStands
  <2>3. CASE ~Return(a, "rollbackFailed")
    <3>1. Goto(a, "rbEnd") /\ container' = Made(PreviousImage(a)) /\ lastId' \in Nat
      BY <1>1, <2>1, <2>3 DEF Create
    <3> QED
      BY <1>3, <3>1
  <2> QED
    BY <2>2, <2>3
<1>7. CASE At(a, "rbEnd")
  <2>1. Return(a, "rolledBack") /\ lastId' = lastId
    BY <1>7 DEF ApplyRollback, At
  <2> QED
    BY <1>1, <2>1, EndStands
<1> QED
  BY <1>4, <1>5, <1>6, <1>7 DEF ApplyRollback

\* The steps that change only the call: the tag and the container follow.
LEMMA CallStepStands ==
    ASSUME ReportInv, NEW a \in Applies, ApplyStep(a)
    PROVE  StepStands(a)
<1>1. /\ Shape /\ lastId \in Nat /\ CallStands(a) /\ RowsStand
      /\ a \notin overlapped /\ InFlight(a) => Follows(a)
  BY DEF ReportInv, CallStands
<1>2. CASE ApplyRead(a)
  <2>1. InFlight(a) /\ UNCHANGED <<lastId, overlapped>>
    BY <1>2 DEF ApplyRead, At, InFlight
  <2>2. CASE Return(a, "failed")
    BY <1>1, <2>1, <2>2, EndStands
  <2>3. CASE ~Return(a, "failed")
    <3>1. PICK sort : apply' = [apply EXCEPT ![a] = [apply[a] EXCEPT !.pc = "pull",
                                                                     !.row = RowOf(apply[a].target),
                                                                     !.kind = sort]]
      BY <1>2, <2>3 DEF ApplyRead
    <3>2. RowOf(apply[a].target) # NoRow
      BY <1>2, <2>3 DEF ApplyRead
    <3>3. Pinned(RowOf(apply[a].target))
      BY <1>1, <3>2, RowOfStands DEF RowsStand
    <3>4. /\ apply'[a].pc = "pull" /\ apply'[a].row = RowOf(apply[a].target) /\ Others(a)
      BY <1>1, <3>1 DEF Shape, Fields, Others
    <3>5. CallStands(a)'
      BY <3>3, <3>4 DEF CallStands, Follows, Refreshing, Begun, Pinned
    <3> QED
      BY <1>1, <2>1, <3>4, <3>5 DEF StepStands, ApplyLabels
  <2> QED
    BY <2>2, <2>3
<1>3. CASE ApplyPull(a)
  <2>1. InFlight(a) /\ UNCHANGED <<lastId, overlapped>> /\ apply[a].pc = "pull"
    BY <1>3 DEF ApplyPull, At, InFlight
  <2>2. CASE Return(a, "failed")
    BY <1>1, <2>1, <2>2, EndStands
  <2>3. CASE ~Return(a, "failed")
    <3>1. Goto(a, "recreate") /\ tag' = IF apply[a].row.image = Tag THEN apply[a].row.remote
                                        ELSE tag
      BY <1>3, <2>3 DEF ApplyPull
    <3>2. apply'[a].pc = "recreate" /\ apply'[a].row = apply[a].row /\ Others(a)
      BY <1>1, <3>1, GoesTo
    <3>3. CallStands(a)'
      BY <1>1, <2>1, <3>1, <3>2 DEF CallStands, Follows, Refreshing, Begun, Pinned
    <3> QED
      BY <1>1, <2>1, <3>2, <3>3 DEF StepStands, ApplyLabels
  <2> QED
    BY <2>2, <2>3
<1>4. CASE ApplyBegin(a)
  <2>1. /\ apply'[a].pc = "recreate" /\ apply'[a].row = apply[a].row /\ Others(a)
        /\ apply[a].pc = "recreate" /\ InFlight(a)
        /\ UNCHANGED <<tag, container, lastId, overlapped>>
    BY <1>1, <1>4 DEF ApplyBegin, At, Shape, Fields, Others, InFlight
  <2>2. CallStands(a)'
    BY <1>1, <2>1 DEF CallStands, Follows, Refreshing, Begun, Pinned
  <2> QED
    BY <1>1, <2>1, <2>2 DEF StepStands, ApplyLabels
<1>5. CASE ApplyHealth(a)
  <2>1. /\ apply[a].pc = "health" /\ InFlight(a) /\ UNCHANGED <<tag, container, lastId, overlapped>>
    BY <1>5 DEF ApplyHealth, At, InFlight
  <2>2. PICK next \in {"refresh", "rbPull"} : Goto(a, next)
    BY <1>5 DEF ApplyHealth
  <2>3. /\ apply'[a].pc = next /\ apply'[a].row = apply[a].row /\ Others(a)
        /\ apply'[a].before = apply[a].before
    BY <1>1, <2>2, GoesTo
  <2>4. CallStands(a)'
    BY <1>1, <2>1, <2>3 DEF CallStands, Follows, Refreshing, Begun, Pinned
  <2> QED
    BY <1>1, <2>1, <2>3, <2>4 DEF StepStands, ApplyLabels
<1>6. CASE ApplyRefresh(a)
  <2> PICK found \in BOOLEAN :
        apply' = [apply EXCEPT ![a] =
                    [apply[a] EXCEPT !.pc = "write", !.look = LookAt(container, found)]]
    BY <1>6 DEF ApplyRefresh
  <2>1. /\ apply'[a].pc = "write" /\ apply'[a].row = apply[a].row /\ Others(a)
        /\ apply'[a].before = apply[a].before /\ apply'[a].look = LookAt(container, found)
        /\ apply[a].pc = "refresh" /\ InFlight(a)
        /\ UNCHANGED <<tag, container, lastId, overlapped>>
    BY ZenonT(30), <1>1, <1>6 DEF ApplyRefresh, At, Shape, Fields, Others, InFlight
  <2>2. Looked(apply'[a].look)
    BY <2>1, LookStands
  <2>3. CallStands(a)'
    BY <1>1, <2>1, <2>2 DEF CallStands, Follows, Refreshing, Begun, Pinned, Looked
  <2> QED
    BY <1>1, <2>1, <2>3 DEF StepStands, ApplyLabels
<1>7. CASE ApplyWrite(a) \/ ApplyForget(a)
  <2>1. /\ apply[a].pc \in {"write", "forget"} /\ InFlight(a)
        /\ UNCHANGED <<tag, container, lastId, overlapped>>
    BY <1>7 DEF ApplyWrite, ApplyForget, At, InFlight
  <2>2. PICK next \in {"forget", "tidy"} : Goto(a, next)
    BY <1>7 DEF ApplyWrite, ApplyForget
  <2>3. /\ apply'[a].pc = next /\ apply'[a].row = apply[a].row /\ Others(a)
        /\ apply'[a].before = apply[a].before
    BY <1>1, <2>2, GoesTo
  <2>4. CallStands(a)'
    BY <1>1, <2>1, <2>3 DEF CallStands, Follows, Refreshing, Begun, Pinned
  <2> QED
    BY <1>1, <2>1, <2>3, <2>4 DEF StepStands, ApplyLabels
<1>8. CASE ApplyTidy(a)
  <2>1. InFlight(a) /\ UNCHANGED <<lastId, overlapped>> /\ Return(a, "ok")
    BY <1>8 DEF ApplyTidy, At, InFlight
  <2> QED
    BY <1>1, <2>1, EndStands
<1> QED
  BY <1>2, <1>3, <1>4, <1>5, <1>6, <1>7, <1>8, RecreateStands, RollbackStands DEF ApplyStep

\* The rows, whoever writes them.
LEMMA RowsKeep ==
    ASSUME ReportInv, [Next]_vars
    PROVE  RowsStand'
<1>1. RowsStand
  BY DEF ReportInv
<1>2. CASE UNCHANGED <<rows, check>>
  BY <1>1, <1>2 DEF RowsStand
<1>3. ASSUME NEW a \in Applies, ApplyCall(a) \/ ApplyStep(a), ~ApplyWrite(a), ~ApplyForget(a)
      PROVE  UNCHANGED <<rows, check>>
  BY <1>3 DEF ApplyCall, ApplyStep, ApplyRead, ApplyPull, ApplyBegin, ApplyRecreate, ApplyHealth,
              ApplyRefresh, ApplyTidy, ApplyRollback
<1>4. ASSUME NEW a \in Applies, ApplyWrite(a) \/ ApplyForget(a) PROVE RowsStand'
  <2> DEFINE Sound(r) == Pinned(r) /\ r = [f \in RowFields |-> r[f]]
  <2>1. UNCHANGED check /\ (ApplyWrite(a) => Looked(apply[a].look))
    BY <1>4 DEF ApplyWrite, ApplyForget, At, ReportInv, CallStands
  <2>2. \A r \in Without(apply[a].target) : Sound(r)
    BY <1>1 DEF RowsStand, Without
  <2>3. \A r \in Withdrawn(apply[a].target) : Sound(r)
    <3>1. CASE RowOf(apply[a].target) = NoRow
      BY <1>1, <3>1 DEF RowsStand, Withdrawn
    <3>2. CASE RowOf(apply[a].target) # NoRow
      <4>1. PICK q \in rows : q = RowOf(apply[a].target)
        BY <1>1, <3>2, RowOfStands
      <4>2. Pinned(q) /\ q = [f \in RowFields |-> q[f]]
        BY <1>1 DEF RowsStand
      <4>3. Sound([q EXCEPT !.available = FALSE])
        BY <4>2 DEF Pinned, RowFields
      <4>4. Withdrawn(apply[a].target) =
              {[q EXCEPT !.available = FALSE]} \cup Without(apply[a].target)
        BY <3>2, <4>1 DEF Withdrawn
      <4> HIDE DEF Sound
      <4> QED
        BY <2>2, <4>3, <4>4
    <3> QED
      BY <3>1, <3>2
  <2>4. ASSUME ApplyWrite(a), NEW fetched \in BOOLEAN, apply[a].look.seen.id # NoId
        PROVE  \A r \in Checked(apply[a].look, fetched) : Sound(r)
    BY <1>1, <2>1, <2>4, CheckedStands
  <2>5. \A r \in rows : Sound(r)
    BY <1>1 DEF RowsStand
  <2>6. \/ rows' \in {rows, Withdrawn(apply[a].target), Without(apply[a].target)}
        \/ /\ ApplyWrite(a) /\ apply[a].look.seen.id # NoId
           /\ \E fetched \in BOOLEAN : rows' = Checked(apply[a].look, fetched)
    BY <1>4 DEF ApplyWrite, ApplyForget
  <2>7. \A r \in rows' : Sound(r)
    <3> HIDE DEF Sound
    <3> QED
      BY <2>2, <2>3, <2>4, <2>5, <2>6
  <2> QED
    BY <1>1, <2>1, <2>7 DEF RowsStand
<1>5. ASSUME NEW k \in Checks, CheckList(k) PROVE RowsStand'
  <2>1. PICK next \in {"inspect", "prune"} :
          check' = [check EXCEPT ![k] = [pc |-> IF container.id = NoId THEN "prune" ELSE next,
                                         look |-> [NoLook EXCEPT !.seen = container]]]
    BY <1>5 DEF CheckList
  <2>2. /\ check'[k] = [pc   |-> IF container.id = NoId THEN "prune" ELSE next,
                        look |-> [NoLook EXCEPT !.seen = container]]
        /\ check' = [j \in Checks |-> check'[j]] /\ UNCHANGED rows
        /\ \A j \in Checks : j # k => check'[j] = check[j]
    BY <1>1, <1>5, <2>1 DEF RowsStand, CheckList
  <2>3. /\ check'[k] = [f \in {"pc", "look"} |-> check'[k][f]]
        /\ check'[k].pc # "write"
        /\ check'[k].pc = "inspect" => check'[k].look.seen.id # NoId
    BY <2>2 DEF NoLook
  <2> QED
    BY <1>1, <2>2, <2>3 DEF RowsStand
<1>6. ASSUME NEW k \in Checks, CheckInspect(k) PROVE RowsStand'
  <2>1. PICK found \in BOOLEAN :
          check' = [check EXCEPT ![k] = [pc |-> "write", look |-> LookAt(@.look.seen, found)]]
    BY <1>6 DEF CheckInspect
  <2> DEFINE look == LookAt(check[k].look.seen, found)
  <2>2. check[k].look.seen.id # NoId /\ UNCHANGED rows
    BY <1>1, <1>6 DEF CheckInspect, RowsStand
  <2>3. Looked(look)
    BY LookStands
  <2>4. look.seen = check[k].look.seen
    BY DEF LookAt
  <2>5. check' = [check EXCEPT ![k] = [pc |-> "write", look |-> look]]
    BY <1>1, <2>1 DEF RowsStand
  <2> HIDE DEF look
  <2> QED
    BY <1>1, <2>2, <2>3, <2>4, <2>5 DEF RowsStand
<1>7. ASSUME NEW k \in Checks, CheckWrite(k) PROVE RowsStand'
  <2>1. PICK fetched \in BOOLEAN : rows' = Checked(check[k].look, fetched)
    BY <1>7 DEF CheckWrite
  <2>2. \A r \in rows' : Pinned(r) /\ r = [f \in RowFields |-> r[f]]
    BY <1>1, <1>7, <2>1, CheckedStands DEF CheckWrite, RowsStand
  <2>3. \A j \in Checks : j # k => check'[j] = check[j]
    BY <1>1, <1>7 DEF CheckWrite, RowsStand
  <2>4. /\ check'[k].pc = "prune" /\ check' = [j \in Checks |-> check'[j]]
        /\ check'[k] = [f \in {"pc", "look"} |-> check'[k][f]]
    BY <1>1, <1>7 DEF CheckWrite, RowsStand
  <2> QED
    BY <1>1, <2>2, <2>3, <2>4 DEF RowsStand
<1>8. ASSUME NEW k \in Checks, CheckPrune(k) PROVE RowsStand'
  <2>1. rows' \subseteq rows
    BY <1>8 DEF CheckPrune
  <2>2. \A j \in Checks : j # k => check'[j] = check[j]
    BY <1>1, <1>8 DEF CheckPrune, RowsStand
  <2>3. /\ check'[k].pc = "done" /\ check' = [j \in Checks |-> check'[j]]
        /\ check'[k] = [f \in {"pc", "look"} |-> check'[k][f]]
    BY <1>1, <1>8 DEF CheckPrune, RowsStand
  <2> QED
    BY <1>1, <2>1, <2>2, <2>3 DEF RowsStand
<1>9. CASE Publish \/ UNCHANGED vars
  BY <1>2, <1>9 DEF Publish, vars
<1> QED
  BY <1>2, <1>3, <1>4, <1>5, <1>6, <1>7, <1>8, <1>9 DEF Next, CheckStep

LEMMA ReportStep == ReportInv /\ [Next]_vars => ReportInv'
<1> SUFFICES ASSUME ReportInv, [Next]_vars PROVE ReportInv'
  OBVIOUS
<1>1. RowsStand'
  BY RowsKeep
<1>2. ASSUME NEW a \in Applies, ApplyStep(a) PROVE ReportInv'
  <2>1. StepStands(a) /\ Shape'
    BY <1>2, CallStepStands, Stepping DEF ReportInv
  <2>2. ASSUME NEW b \in Applies \ {a} PROVE CallStands(b)' /\ apply'[b].pc \in ApplyLabels
    <3>1. apply'[b] = apply[b] /\ overlapped' = overlapped /\ InFlight(a)
      BY <2>1 DEF StepStands, Others
    <3>2. InFlight(b) => b \in overlapped
      BY <3>1 DEF ReportInv, Apart
    <3> QED
      BY <3>1, <3>2 DEF ReportInv, CallStands, InFlight, Pinned, Looked
  <2>3. Apart'
    BY <2>1 DEF ReportInv, Apart, StepStands, Others, InFlight
  <2> QED
    BY <1>1, <2>1, <2>2, <2>3 DEF ReportInv, StepStands
<1>3. ASSUME NEW a \in Applies, ApplyCall(a) PROVE ReportInv'
  <2>1. Shape' /\ UNCHANGED <<tag, container, lastId>> /\ ~InFlight(a)
    BY <1>3, Calling DEF ReportInv, ApplyCall, At, InFlight
  <2>2. PICK id :
          \/ /\ apply' = [apply EXCEPT ![a] = [apply[a] EXCEPT !.pc = "done", !.target = id,
                                                               !.result = "busy"]]
             /\ UNCHANGED overlapped
          \/ /\ apply' = [apply EXCEPT ![a] = [apply[a] EXCEPT !.pc = "read", !.target = id]]
             /\ overlapped' = overlapped \cup Meeting(a)
    BY <1>3 DEF ApplyCall
  <2>3. /\ Others(a) /\ overlapped \subseteq overlapped'
        /\ \/ apply'[a].pc = "done"
           \/ apply'[a].pc = "read" /\ overlapped' = overlapped \cup Meeting(a)
    BY <2>2 DEF ReportInv, Shape, Fields, Others
  <2>4. \A b \in Applies : apply'[b].pc \in ApplyLabels /\ CallStands(b)'
    BY <2>1, <2>3 DEF ReportInv, CallStands, Follows, Refreshing, Others, InFlight, Pinned, Looked,
                      Begun, ApplyLabels
  <2>5. Apart'
    BY <2>1, <2>3 DEF ReportInv, Apart, Others, InFlight, Meeting
  <2> QED
    BY SMTT(30), <1>1, <2>1, <2>4, <2>5 DEF ReportInv
<1>4. ASSUME UNCHANGED <<apply, applyInFlight, overlapped, tag, container, lastId>>
      PROVE  ReportInv'
  BY <1>1, <1>4 DEF ReportInv, Shape, Apart, CallStands, Follows, Refreshing, InFlight, Pinned,
                    Looked
<1>5. CASE Publish \/ UNCHANGED vars
  BY <1>4, <1>5 DEF Publish, vars
<1>6. ASSUME NEW k \in Checks, CheckList(k) \/ CheckStep(k) PROVE ReportInv'
  BY <1>4, <1>6 DEF CheckList, CheckStep, CheckInspect, CheckWrite, CheckPrune, OnlyCheck
<1> QED
  BY <1>2, <1>3, <1>5, <1>6 DEF Next

\* The step in which a call that no other crosses reports how it ended.
ReportsTruly ==
    \A a \in Applies \ overlapped :
         /\ Reports(a, "ok") /\ apply[a].row.image = Tag => RunsOffered(a)
         /\ /\ Reports(a, "rolledBack") /\ apply[a].kind # "project"
            /\ apply[a].row.current = apply[a].before
            => RunsPrevious(a)

LEMMA OnlyReports ==
    ASSUME ReportInv, NEW a \in Applies, Next, NEW result \in {"ok", "rolledBack"},
           Reports(a, result)
    PROVE  /\ result = "ok" => ApplyTidy(a)
           /\ result = "rolledBack" => /\ apply[a].pc = "rbEnd" /\ UNCHANGED container
<1>1. Shape /\ apply'[a] # apply[a] /\ apply'[a].result = result
  BY DEF ReportInv, Reports
<1>2. ASSUME NEW b \in Applies, ApplyCall(b) PROVE FALSE
  <2>1. PICK id :
          \/ apply' = [apply EXCEPT ![b] = [apply[b] EXCEPT !.pc = "done", !.target = id,
                                                            !.result = "busy"]]
          \/ apply' = [apply EXCEPT ![b] = [apply[b] EXCEPT !.pc = "read", !.target = id]]
    BY <1>2 DEF ApplyCall
  <2>2. CASE apply' = [apply EXCEPT ![b] = [apply[b] EXCEPT !.pc = "done", !.target = id,
                                                            !.result = "busy"]]
    <3>1. apply'[b].result = "busy" /\ \A d \in Applies \ {b} : apply'[d] = apply[d]
      BY ZenonT(30), <1>1, <1>2, <2>2 DEF Shape, Fields
    <3> QED
      BY <1>1, <3>1 DEF Reports
  <2>3. CASE apply' = [apply EXCEPT ![b] = [apply[b] EXCEPT !.pc = "read", !.target = id]]
    <3>1. apply'[b].result = apply[b].result /\ \A d \in Applies \ {b} : apply'[d] = apply[d]
      BY ZenonT(30), <1>1, <1>2, <2>3 DEF Shape, Fields
    <3> QED
      BY <1>1, <3>1 DEF Reports
  <2> QED
    BY <2>1, <2>2, <2>3
<1>3. ASSUME NEW b \in Applies, ApplyStep(b) PROVE a = b
  BY <1>1, <1>3, CallStepStands DEF StepStands, Others
<1>4. ~Publish /\ \A k \in Checks : ~CheckList(k) /\ ~CheckStep(k)
  BY <1>1 DEF Publish, CheckList, CheckStep, CheckInspect, CheckWrite, CheckPrune, OnlyCheck
<1>5. ApplyStep(a)
  BY <1>2, <1>3, <1>4 DEF Next
<1>6. ASSUME NEW label PROVE ~Goto(a, label)
  BY <1>1, GoesTo DEF Reports
<1>7. ~Return(a, "failed") /\ ~Return(a, "rollbackFailed")
  BY <1>1, Returns
<1>8. ~ApplyRead(a)
  <2>1. ASSUME NEW row, NEW sort,
               apply' = [apply EXCEPT ![a] =
                           [apply[a] EXCEPT !.pc = "pull", !.row = row, !.kind = sort]]
        PROVE  FALSE
    BY <1>1, <2>1 DEF Shape, Fields, Reports
  <2> QED
    BY <1>7, <2>1 DEF ApplyRead
<1>9. ~ApplyPull(a) /\ ~ApplyHealth(a) /\ ~ApplyRecreate(a) /\ ~ApplyWrite(a) /\ ~ApplyForget(a)
  BY <1>6, <1>7
  DEF ApplyPull, ApplyHealth, ApplyRecreate, Recreate, Create, ApplyWrite, ApplyForget
<1>10. ~ApplyBegin(a) /\ ~ApplyRefresh(a)
  BY <1>1 DEF ApplyBegin, ApplyRefresh, Shape, Fields, Reports
<1>11. CASE ApplyTidy(a)
  <2>1. Return(a, "ok")
    BY <1>11 DEF ApplyTidy
  <2>2. apply'[a].result = "ok"
    BY <1>1, <2>1, Returns
  <2> QED
    BY <1>1, <1>11, <2>2
<1>12. CASE ApplyRollback(a)
  <2>1. Return(a, "rolledBack") /\ At(a, "rbEnd") /\ UNCHANGED container
    BY <1>6, <1>7, <1>12 DEF ApplyRollback, Recreate, Create
  <2> QED
    BY <1>1, <2>1, Returns DEF At
<1> QED
  BY <1>5, <1>8, <1>9, <1>10, <1>11, <1>12 DEF ApplyStep

LEMMA Reporting == ReportInv /\ [Next]_vars => [ReportsTruly]_vars
<1> SUFFICES ASSUME ReportInv, Next PROVE ReportsTruly
  OBVIOUS
<1>1. ASSUME NEW a \in Applies \ overlapped, Reports(a, "ok"), apply[a].row.image = Tag
      PROVE  RunsOffered(a)
  <2>1. apply[a].pc = "tidy"
    BY <1>1, OnlyReports DEF ApplyTidy, At
  <2>2. container.id # NoId /\ container.digest = apply[a].row.remote
    BY <1>1, <2>1 DEF ReportInv, CallStands, Follows, Refreshing, InFlight
  <2> QED
    BY <2>2 DEF RunsOffered
<1>2. ASSUME NEW a \in Applies \ overlapped, Reports(a, "rolledBack"),
             apply[a].kind # "project", apply[a].row.current = apply[a].before
      PROVE  RunsPrevious(a)
  <2>1. apply[a].pc = "rbEnd" /\ UNCHANGED container
    BY <1>2, OnlyReports
  <2>2. container.id # NoId /\ container.digest = apply[a].before
    BY <1>2, <2>1 DEF ReportInv, CallStands, Follows, Refreshing, InFlight
  <2> QED
    BY <2>1, <2>2 DEF RunsPrevious
<1> QED
  BY <1>1, <1>2 DEF ReportsTruly

\* What an update reports is true, for any calls, checks, objects and images, and whatever
\* fails, if no other update of the container crossed it (applyUpdate, updates.service.ts:243).
THEOREM ReportsAreTrue == Spec => ReportIsTrue
<1> QED
  BY ReportInit, ReportStep, Reporting, PTL DEF Spec, ReportIsTrue, ReportsTruly

--------------------------------------------------------------------------------
\* The types of the updates

ApplyRange ==
    [pc : ApplyLabels, obj : Objects, target : {NoId} \cup Ids,
     row : Row \cup {NoRow}, kind : Kinds \cup {"standalone"}, look : Look,
     before : {NoDigest} \cup Digests,
     result : {"none", "busy", "failed", "ok", "rolledBack", "rollbackFailed"}]

\* The calls that have not recreated the container yet, and those that will do no more.
Fresh == {"idle", "read", "pull", "recreate", "create"}
Last == {"rbEnd", "done"}

\* A call makes a container when it leaves the first and when it enters the last.
IdsCounted ==
    lastId <= 1 + Cardinality({a \in Applies : apply[a].pc \notin Fresh})
                + Cardinality({a \in Applies : apply[a].pc \in Last})

\* What is offered is a digest, and what is checked is a container.
RowsReady == \A r \in rows : r.available => r.remote # NoDigest
CallReady(a) ==
    apply[a].pc \notin {"idle", "read", "done"} =>
        apply[a].row \in Row /\ apply[a].row.remote # NoDigest
CheckReady(k) == check[k].pc \in {"inspect", "write"} => check[k].look.seen.id # NoId

UpdateTypeInv ==
    /\ TypeOK /\ IdsCounted /\ RowsReady
    /\ \A a \in Applies : CallReady(a)
    /\ \A k \in Checks : CheckReady(k)

LEMMA IdsAndDigests ==
    /\ Ids \subseteq Nat \ {0} /\ Digests \subseteq Nat \ {0}
    /\ 1 \in Ids /\ 1 \in Digests /\ Cardinality(Applies) \in Nat
  BY AppliesAssumption, FS_CardinalityType DEF Ids, Digests

LEMMA AbsentIsTyped ==
    NoLook \in Look /\ NoRow \notin Row /\ NoRow \notin Container
  BY IdsAndDigests DEF NoLook, Look, NoRow, NoId, NoDigest, Row, Container

\* Of two growing sets of calls, the sizes do not fall, and one that takes in a call grows.
LEMMA SetsGrow ==
    ASSUME NEW S \in SUBSET Applies, NEW T \in SUBSET Applies, S \subseteq T
    PROVE  /\ Cardinality(S) \in Nat /\ Cardinality(T) \in Nat
           /\ Cardinality(S) <= Cardinality(T) /\ Cardinality(T) <= Cardinality(Applies)
           /\ S # T => Cardinality(S) < Cardinality(T)
<1>1. /\ IsFiniteSet(S) /\ IsFiniteSet(T) /\ Cardinality(T) <= Cardinality(Applies)
  BY AppliesAssumption, FS_Subset
<1>2. Cardinality(S) <= Cardinality(T) /\ (Cardinality(T) = Cardinality(S) => T = S)
  BY <1>1, FS_Subset
<1>3. Cardinality(S) \in Nat /\ Cardinality(T) \in Nat
  BY <1>1, FS_CardinalityType
<1> QED
  BY <1>1, <1>2, <1>3

\* A call goes on, and with it the number of containers made.
CallMoves(a) ==
    /\ apply' \in [Applies -> ApplyRange] /\ Others(a)
    /\ apply[a].pc \notin Fresh => apply'[a].pc \notin Fresh
    /\ apply[a].pc \in Last => apply'[a].pc \in Last
    /\ \/ lastId' = lastId
       \/ /\ lastId' = lastId + 1
          /\ \/ apply[a].pc \in Fresh /\ apply'[a].pc \notin Fresh
             \/ apply[a].pc \notin Last /\ apply'[a].pc \in Last

LEMMA CountGoesOn ==
    ASSUME UpdateTypeInv, NEW a \in Applies, CallMoves(a)
    PROVE  lastId' \in Ids /\ IdsCounted'
<1> DEFINE S == {b \in Applies : apply[b].pc \notin Fresh}
           T == {b \in Applies : apply'[b].pc \notin Fresh}
           U == {b \in Applies : apply[b].pc \in Last}
           V == {b \in Applies : apply'[b].pc \in Last}
<1>1. S \subseteq T /\ U \subseteq V
  BY DEF CallMoves, Others
<1>2. lastId' = lastId \/ (lastId' = lastId + 1 /\ (S # T \/ U # V))
  <2>1. lastId' # lastId => lastId' = lastId + 1
    BY DEF CallMoves
  <2>2. lastId' # lastId => (a \in T /\ a \notin S) \/ (a \in V /\ a \notin U)
    BY DEF CallMoves
  <2> HIDE DEF S, T, U, V
  <2> QED
    BY <2>1, <2>2
<1>3. lastId \in Nat \ {0} /\ lastId <= 1 + Cardinality(S) + Cardinality(U)
  BY IdsAndDigests DEF UpdateTypeInv, TypeOK, IdsCounted
<1> HIDE DEF S, T, U, V
<1>4. S \in SUBSET Applies /\ T \in SUBSET Applies /\ U \in SUBSET Applies /\ V \in SUBSET Applies
  BY DEF S, T, U, V
<1>5. /\ Cardinality(S) \in Nat /\ Cardinality(T) \in Nat
      /\ Cardinality(S) <= Cardinality(T) /\ Cardinality(T) <= Cardinality(Applies)
      /\ S # T => Cardinality(S) < Cardinality(T)
  BY <1>1, <1>4, SetsGrow
<1>6. /\ Cardinality(U) \in Nat /\ Cardinality(V) \in Nat
      /\ Cardinality(U) <= Cardinality(V) /\ Cardinality(V) <= Cardinality(Applies)
      /\ U # V => Cardinality(U) < Cardinality(V)
  BY <1>1, <1>4, SetsGrow
<1>7. lastId' <= 1 + Cardinality(T) + Cardinality(V) /\ lastId' \in Nat \ {0}
  BY <1>2, <1>3, <1>5, <1>6
<1>8. lastId' <= 1 + 2 * Cardinality(Applies)
  BY <1>5, <1>6, <1>7, IdsAndDigests
<1>9. lastId' \in Ids
  BY <1>7, <1>8, IdsAndDigests DEF Ids
<1> QED
  BY <1>7, <1>9 DEF IdsCounted, T, V

\* What a step of a call must keep besides.
LEMMA CallKeepsTypes ==
    ASSUME UpdateTypeInv, NEW a \in Applies, CallMoves(a), CallReady(a)',
           remote' = remote, check' = check, tag' \in Digests, overlapped' \subseteq Applies,
           applyInFlight' \in [Objects -> SUBSET Ids],
           lastId' \in Ids => container' \in Container,
           rows' \subseteq Row, \A r, q \in rows' : r.id = q.id => r = q, RowsReady'
    PROVE  UpdateTypeInv'
<1>1. lastId' \in Ids /\ IdsCounted'
  BY CountGoesOn
<1>2. TypeOK'
  BY <1>1 DEF UpdateTypeInv, TypeOK, CallMoves, ApplyRange
<1>3. \A b \in Applies : CallReady(b)'
  BY DEF UpdateTypeInv, CallMoves, Others, CallReady
<1>4. \A k \in Checks : CheckReady(k)'
  BY DEF UpdateTypeInv, CheckReady
<1> QED
  BY <1>1, <1>2, <1>3, <1>4 DEF UpdateTypeInv

LEMMA GoTyped ==
    ASSUME UpdateTypeInv, NEW a \in Applies, NEW next \in ApplyLabels, Goto(a, next)
    PROVE  /\ apply' \in [Applies -> ApplyRange] /\ Others(a)
           /\ apply'[a].pc = next /\ apply'[a].row = apply[a].row
           /\ apply'[a].look = apply[a].look
  BY SMTT(30) DEF UpdateTypeInv, TypeOK, ApplyRange, Goto, Others

Results == {"none", "busy", "failed", "ok", "rolledBack", "rollbackFailed"}

LEMMA ReturnTyped ==
    ASSUME UpdateTypeInv, NEW a \in Applies, NEW result \in Results, Return(a, result)
    PROVE  /\ apply' \in [Applies -> ApplyRange] /\ Others(a) /\ apply'[a].pc = "done"
           /\ applyInFlight' \in [Objects -> SUBSET Ids]
<1>0. apply \in [Applies -> ApplyRange] /\ applyInFlight \in [Objects -> SUBSET Ids]
  BY DEF UpdateTypeInv, TypeOK, ApplyRange
<1>1. apply' = [apply EXCEPT ![a] = [apply[a] EXCEPT !.pc = "done", !.result = result]]
  BY <1>0 DEF Return, ApplyRange
<1>2. applyInFlight' \in [Objects -> SUBSET Ids]
  BY <1>0 DEF Return, ApplyRange
<1>3. PICK q : q = [apply[a] EXCEPT !.pc = "done", !.result = result]
  OBVIOUS
<1>4. q \in ApplyRange /\ q.pc = "done"
  BY ZenonT(30), <1>0, <1>3 DEF ApplyRange, ApplyLabels, Results
<1>5. apply' = [apply EXCEPT ![a] = q]
  BY <1>1, <1>3
<1> HIDE DEF ApplyRange
<1> QED
  BY <1>0, <1>2, <1>4, <1>5 DEF Others

\* A call that ends, and may have made a container that is left behind.
LEMMA EndKeepsTypes ==
    ASSUME UpdateTypeInv, NEW a \in Applies, NEW result \in Results, Return(a, result),
           lastId' = lastId \/ (lastId' = lastId + 1 /\ apply[a].pc \notin Last),
           UNCHANGED <<remote, check, overlapped>>, tag' \in Digests,
           lastId' \in Ids => container' \in Container,
           rows' \subseteq Row, \A r, q \in rows' : r.id = q.id => r = q, RowsReady'
    PROVE  UpdateTypeInv'
<1>1. /\ apply' \in [Applies -> ApplyRange] /\ Others(a) /\ apply'[a].pc = "done"
      /\ applyInFlight' \in [Objects -> SUBSET Ids]
  BY ReturnTyped
<1>2. CallMoves(a)
  BY <1>1 DEF CallMoves, Last, Fresh
<1>3. CallReady(a)'
  BY <1>1 DEF CallReady
<1>4. overlapped' \subseteq Applies
  BY DEF UpdateTypeInv, TypeOK
<1> QED
  BY <1>1, <1>2, <1>3, <1>4, CallKeepsTypes

\* A call that goes on to what works with its row.
LEMMA GoKeepsTypes ==
    ASSUME UpdateTypeInv, NEW a \in Applies, NEW next \in ApplyLabels, Goto(a, next),
           UNCHANGED <<remote, check, overlapped, applyInFlight, rows>>, tag' \in Digests,
           lastId' \in Ids => container' \in Container,
           apply[a].pc \notin {"idle", "read", "done"}, next \notin {"write", "done"},
           apply[a].pc \notin Fresh => next \notin Fresh,
           apply[a].pc \notin Last,
           \/ lastId' = lastId
           \/ /\ lastId' = lastId + 1
              /\ next \in Last \/ (apply[a].pc \in Fresh /\ next \notin Fresh)
    PROVE  UpdateTypeInv'
<1>1. /\ apply' \in [Applies -> ApplyRange] /\ Others(a)
      /\ apply'[a].pc = next /\ apply'[a].row = apply[a].row
      /\ apply'[a].look = apply[a].look
  BY GoTyped
<1>2. CallMoves(a)
  BY <1>1 DEF CallMoves
<1>3. CallReady(a)'
  BY <1>1 DEF CallReady, UpdateTypeInv
<1>4. /\ overlapped' \subseteq Applies /\ applyInFlight' \in [Objects -> SUBSET Ids]
      /\ rows' \subseteq Row /\ \A r, q \in rows' : r.id = q.id => r = q
      /\ RowsReady'
  BY DEF UpdateTypeInv, TypeOK, RowsReady
<1> QED
  BY <1>1, <1>2, <1>3, <1>4, CallKeepsTypes

LEMMA MadeTyped ==
    ASSUME UpdateTypeInv, NEW img \in {Tag} \cup Digests, lastId + 1 \in Ids
    PROVE  Made(img) \in Container
  BY DEF UpdateTypeInv, TypeOK, Made, Container

LEMMA LostTyped == ASSUME UpdateTypeInv PROVE Lost \in Container /\ container \in Container
  BY DEF UpdateTypeInv, TypeOK, Lost, Container

LEMMA RecreateTyped ==
    ASSUME UpdateTypeInv, NEW a \in Applies, NEW id, NEW img \in {Tag} \cup Digests,
           NEW create \in ApplyLabels, NEW next \in ApplyLabels, NEW failed \in Results, NEW faults,
           Recreate(a, id, img, create, next, failed, faults),
           UNCHANGED <<remote, tag, rows, check, overlapped>>,
           \/ apply[a].pc = "recreate" /\ create = "create" /\ next = "health"
           \/ apply[a].pc = "rbRecreate" /\ create = "rbCreate" /\ next = "rbEnd"
    PROVE  UpdateTypeInv'
<1>1. /\ tag' \in Digests /\ rows' \subseteq Row /\ \A r, q \in rows' : r.id = q.id => r = q
      /\ RowsReady'
  BY DEF UpdateTypeInv, TypeOK, RowsReady
<1>2. CASE lastId' = lastId + 1 /\ Goto(a, next) /\ UNCHANGED applyInFlight
           /\ \E made \in {Tag, img} : container' = Made(made)
  <2>1. lastId' \in Ids => container' \in Container
    BY <1>2, MadeTyped
  <2> QED
    BY <1>1, <1>2, <2>1, GoKeepsTypes DEF Fresh, Last
<1>3. CASE lastId' = lastId /\ container' \in {container, Lost}
           /\ (Return(a, failed) \/ (Goto(a, create) /\ UNCHANGED applyInFlight))
  <2>1. container' \in Container
    BY <1>3, LostTyped
  <2>2. CASE Return(a, failed)
    BY <1>1, <1>3, <2>1, <2>2, EndKeepsTypes
  <2>3. CASE Goto(a, create) /\ UNCHANGED applyInFlight
    BY <1>1, <1>3, <2>1, <2>3, GoKeepsTypes DEF Fresh, Last
  <2> QED
    BY <1>3, <2>2, <2>3
<1>4. \/ /\ \E made \in {Tag, img} : container' = Made(made)
         /\ lastId' = lastId + 1 /\ Goto(a, next) /\ UNCHANGED applyInFlight
      \/ container' \in {container, Lost} /\ UNCHANGED lastId /\ Return(a, failed)
      \/ container' = Lost /\ UNCHANGED lastId /\ Goto(a, create) /\ UNCHANGED applyInFlight
      \/ UNCHANGED <<container, lastId>> /\ Return(a, failed)
  BY DEF Recreate
<1> QED
  BY <1>2, <1>3, <1>4

LEMMA CreateTyped ==
    ASSUME UpdateTypeInv, NEW a \in Applies, NEW img \in {Tag} \cup Digests,
           NEW next \in ApplyLabels, NEW failed \in Results, NEW faults,
           Create(a, img, next, failed, faults),
           UNCHANGED <<remote, tag, rows, check, overlapped>>,
           \/ apply[a].pc = "create" /\ next = "health"
           \/ apply[a].pc = "rbCreate" /\ next = "rbEnd"
    PROVE  UpdateTypeInv'
<1>1. /\ tag' \in Digests /\ rows' \subseteq Row /\ \A r, q \in rows' : r.id = q.id => r = q
      /\ RowsReady'
  BY DEF UpdateTypeInv, TypeOK, RowsReady
<1>2. CASE lastId' = lastId + 1 /\ container' = Made(img)
           /\ (Return(a, failed) \/ (Goto(a, next) /\ UNCHANGED applyInFlight))
  <2>1. lastId' \in Ids => container' \in Container
    BY <1>2, MadeTyped
  <2>2. CASE Return(a, failed)
    BY <1>1, <1>2, <2>1, <2>2, EndKeepsTypes DEF Last
  <2>3. CASE Goto(a, next) /\ UNCHANGED applyInFlight
    BY <1>1, <1>2, <2>1, <2>3, GoKeepsTypes DEF Fresh, Last
  <2> QED
    BY <1>2, <2>2, <2>3
<1>3. CASE UNCHANGED <<container, lastId>> /\ Return(a, failed)
  <2>1. container' \in Container
    BY <1>3, LostTyped
  <2> QED
    BY <1>1, <1>3, <2>1, EndKeepsTypes
<1>4. \/ /\ container' = Made(img) /\ lastId' = lastId + 1
         /\ Return(a, failed) \/ (Goto(a, next) /\ UNCHANGED applyInFlight)
      \/ UNCHANGED <<container, lastId>> /\ Return(a, failed)
  BY DEF Create
<1> QED
  BY <1>2, <1>3, <1>4

\* What a step that leaves the rows alone keeps of them.
LEMMA RowsTyped ==
    ASSUME UpdateTypeInv, rows' = rows
    PROVE  rows' \subseteq Row /\ (\A r, q \in rows' : r.id = q.id => r = q) /\ RowsReady'
  BY DEF UpdateTypeInv, TypeOK, RowsReady

LEMMA RowOfTyped ==
    ASSUME UpdateTypeInv, NEW i, RowOf(i) # NoRow
    PROVE  RowOf(i) \in rows /\ RowOf(i) \in Row /\ RowOf(i).id = i
  BY DEF RowOf, UpdateTypeInv, TypeOK

LEMMA LookTyped ==
    ASSUME UpdateTypeInv, NEW c \in Container \cup {NoRow}, NEW found
    PROVE  LookAt(c, found) \in Look /\ LookAt(c, found).seen = c
<1>1. c.id # NoId => c \in Container
  BY DEF NoRow, NoId
<1>2. (IF RowOf(c.id) = NoRow THEN NoDigest ELSE RowOf(c.id).remote) \in {NoDigest} \cup Digests
  BY RowOfTyped DEF Row
<1>3. (IF c.id = NoId \/ ~ found THEN NoDigest ELSE IF c.image = Tag THEN tag ELSE c.image)
         \in {NoDigest} \cup Digests
  BY <1>1 DEF Container, UpdateTypeInv, TypeOK
<1> QED
  BY <1>2, <1>3 DEF LookAt, Look

\* The rows after a check of a container that is there.
LEMMA CheckedTyped ==
    ASSUME UpdateTypeInv, NEW look \in Look, NEW fetched, look.seen.id # NoId
    PROVE  /\ Checked(look, fetched) \subseteq Row
           /\ \A r, q \in Checked(look, fetched) : r.id = q.id => r = q
           /\ \A r \in Checked(look, fetched) : r.available => r.remote # NoDigest
<1> DEFINE rd == IF fetched THEN remote ELSE look.previous
           new == [id |-> look.seen.id, image |-> look.seen.image, current |-> look.local,
                   remote |-> rd,
                   available |-> NoDigest \notin {look.local, rd} /\ look.local # rd]
<1>1. look.seen \in Container
  BY DEF Look, NoRow, NoId
<1>2. rd \in {NoDigest} \cup Digests /\ look.local \in {NoDigest} \cup Digests
  BY DEF Look, UpdateTypeInv, TypeOK
<1>3. Checked(look, fetched) = {new} \cup Without(look.seen.id)
  BY DEF Checked
<1> HIDE DEF rd
<1>4. new \in Row /\ new.id = look.seen.id /\ (new.available => new.remote # NoDigest)
  BY <1>1, <1>2 DEF Container, Row, NoId
<1> HIDE DEF new
<1> QED
  BY <1>3, <1>4 DEF Without, UpdateTypeInv, TypeOK, RowsReady

LEMMA CallTyped ==
    ASSUME UpdateTypeInv, NEW a \in Applies, ApplyCall(a)
    PROVE  UpdateTypeInv'
<1>1. PICK id \in {r.id : r \in rows} :
        IF id \in applyInFlight[apply[a].obj]
        THEN /\ apply' = [apply EXCEPT ![a] = [apply[a] EXCEPT !.pc = "done", !.target = id,
                                                               !.result = "busy"]]
             /\ UNCHANGED <<applyInFlight, overlapped>>
        ELSE /\ apply' = [apply EXCEPT ![a] = [apply[a] EXCEPT !.pc = "read", !.target = id]]
             /\ applyInFlight' = [applyInFlight EXCEPT ![apply[a].obj] = @ \cup {id}]
             /\ overlapped' = overlapped \cup Meeting(a)
  BY DEF ApplyCall
<1>0. /\ apply \in [Applies -> ApplyRange] /\ applyInFlight \in [Objects -> SUBSET Ids]
      /\ overlapped \subseteq Applies /\ tag \in Digests /\ container \in Container
      /\ apply[a].obj \in Objects
  BY DEF UpdateTypeInv, TypeOK, ApplyRange
<1>2. id \in Ids
  BY DEF UpdateTypeInv, TypeOK, Row
<1>3. UNCHANGED <<remote, tag, container, lastId, rows, check>> /\ apply[a].pc = "idle"
  BY DEF ApplyCall, At
<1>4. /\ rows' \subseteq Row /\ \A r, q \in rows' : r.id = q.id => r = q
      /\ RowsReady'
  BY <1>3, RowsTyped
<1>5. ASSUME NEW q \in ApplyRange, apply' = [apply EXCEPT ![a] = q], q.pc \in {"done", "read"},
             applyInFlight' \in [Objects -> SUBSET Ids], overlapped' \subseteq Applies
      PROVE  UpdateTypeInv'
  <2>1. apply' \in [Applies -> ApplyRange] /\ Others(a) /\ apply'[a].pc \in {"done", "read"}
    BY <1>0, <1>5 DEF Others
  <2>2. CallMoves(a) /\ CallReady(a)'
    BY <1>3, <2>1 DEF CallMoves, CallReady, Fresh, Last
  <2> QED
    BY <1>0, <1>3, <1>4, <1>5, <2>2, CallKeepsTypes
<1>6. CASE id \in applyInFlight[apply[a].obj]
  <2>1. PICK q : q = [apply[a] EXCEPT !.pc = "done", !.target = id, !.result = "busy"]
    OBVIOUS
  <2>2. q \in ApplyRange /\ q.pc = "done"
    BY ZenonT(30), <1>0, <1>2, <2>1 DEF ApplyRange, ApplyLabels
  <2>3. apply' = [apply EXCEPT ![a] = q]
    BY <1>0, <1>1, <1>6, <2>1 DEF ApplyRange
  <2> QED
    BY <1>0, <1>1, <1>5, <1>6, <2>2, <2>3
<1>7. CASE id \notin applyInFlight[apply[a].obj]
  <2>1. PICK q : q = [apply[a] EXCEPT !.pc = "read", !.target = id]
    OBVIOUS
  <2>2. q \in ApplyRange /\ q.pc = "read"
    BY ZenonT(30), <1>0, <1>2, <2>1 DEF ApplyRange, ApplyLabels
  <2>3. apply' = [apply EXCEPT ![a] = q]
    BY <1>0, <1>1, <1>7, <2>1 DEF ApplyRange
  <2>4. applyInFlight' \in [Objects -> SUBSET Ids]
    BY <1>0, <1>1, <1>2, <1>7
  <2>5. overlapped' \subseteq Applies
    BY <1>0, <1>1, <1>7 DEF Meeting
  <2> QED
    BY <1>5, <2>2, <2>3, <2>4, <2>5
<1> QED
  BY <1>6, <1>7

LEMMA ReadTyped ==
    ASSUME UpdateTypeInv, NEW a \in Applies, ApplyRead(a)
    PROVE  UpdateTypeInv'
<1>0. /\ apply \in [Applies -> ApplyRange] /\ applyInFlight \in [Objects -> SUBSET Ids]
      /\ overlapped \subseteq Applies /\ tag \in Digests /\ container \in Container
  BY DEF UpdateTypeInv, TypeOK, ApplyRange
<1>1. UNCHANGED <<remote, tag, container, lastId, rows, check, overlapped>> /\ apply[a].pc = "read"
  BY DEF ApplyRead, At
<1>2. /\ rows' \subseteq Row /\ \A r, q \in rows' : r.id = q.id => r = q
      /\ RowsReady'
  BY <1>1, RowsTyped
<1> DEFINE row == RowOf(apply[a].target)
<1>3. CASE Return(a, "failed")
  BY <1>0, <1>1, <1>2, <1>3, EndKeepsTypes DEF Results
<1>4. CASE ~Return(a, "failed")
  <2>1. row \in Row /\ row.remote # NoDigest
    BY <1>4, RowOfTyped DEF ApplyRead, UpdateTypeInv, RowsReady
  <2>2. PICK how \in {apply[a].kind, "standalone"} :
          apply' = [apply EXCEPT ![a] = [apply[a] EXCEPT !.pc = "pull", !.row = row, !.kind = how]]
    BY <1>4 DEF ApplyRead
  <2>3. how \in Kinds \cup {"standalone"}
    BY <1>0 DEF ApplyRange
  <2> HIDE DEF row
  <2>4. PICK q : q = [apply[a] EXCEPT !.pc = "pull", !.row = row, !.kind = how]
    OBVIOUS
  <2>5. q \in ApplyRange /\ q.pc = "pull" /\ q.row = row
    BY ZenonT(30), <1>0, <2>1, <2>3, <2>4 DEF ApplyRange, ApplyLabels
  <2>6. apply' = [apply EXCEPT ![a] = q]
    BY <1>0, <2>2, <2>4 DEF ApplyRange
  <2>7. /\ apply' \in [Applies -> ApplyRange] /\ Others(a)
        /\ apply'[a].pc = "pull" /\ apply'[a].row = row
    BY <1>0, <2>5, <2>6 DEF Others
  <2>8. CallMoves(a) /\ CallReady(a)'
    BY <1>1, <2>1, <2>7 DEF CallMoves, CallReady, Fresh, Last
  <2>9. UNCHANGED applyInFlight
    BY <1>4 DEF ApplyRead, row
  <2> QED
    BY <1>0, <1>1, <1>2, <2>8, <2>9, CallKeepsTypes
<1> QED
  BY <1>3, <1>4

LEMMA PullTyped ==
    ASSUME UpdateTypeInv, NEW a \in Applies, ApplyPull(a)
    PROVE  UpdateTypeInv'
<1>0. tag \in Digests /\ container \in Container /\ remote \in Digests
  BY DEF UpdateTypeInv, TypeOK
<1>1. UNCHANGED <<remote, container, lastId, rows, check, overlapped>> /\ apply[a].pc = "pull"
  BY DEF ApplyPull, At
<1>2. /\ rows' \subseteq Row /\ \A r, q \in rows' : r.id = q.id => r = q
      /\ RowsReady'
  BY <1>1, RowsTyped
<1>3. apply[a].row.remote \in Digests
  BY <1>1 DEF UpdateTypeInv, CallReady, Row
<1>4. tag' \in Digests
  BY <1>0, <1>3 DEF ApplyPull
<1>5. Return(a, "failed") \/ (Goto(a, "recreate") /\ UNCHANGED applyInFlight)
  BY DEF ApplyPull
<1>6. CASE Return(a, "failed")
  BY <1>0, <1>1, <1>2, <1>4, <1>6, EndKeepsTypes DEF Results
<1>7. CASE Goto(a, "recreate") /\ UNCHANGED applyInFlight
  BY <1>0, <1>1, <1>4, <1>7, GoKeepsTypes DEF ApplyLabels, Fresh, Last
<1> QED
  BY <1>5, <1>6, <1>7

LEMMA BeginTyped ==
    ASSUME UpdateTypeInv, NEW a \in Applies, ApplyBegin(a)
    PROVE  UpdateTypeInv'
<1>0. /\ apply \in [Applies -> ApplyRange] /\ applyInFlight \in [Objects -> SUBSET Ids]
      /\ overlapped \subseteq Applies /\ tag \in Digests /\ container \in Container
      /\ container.digest \in Digests
  BY DEF UpdateTypeInv, TypeOK, ApplyRange, Container
<1>1. /\ UNCHANGED <<remote, tag, container, lastId, rows, applyInFlight, check, overlapped>>
      /\ apply' = [apply EXCEPT ![a].before = container.digest]
  BY DEF ApplyBegin
<1>2. /\ rows' \subseteq Row /\ \A r, q \in rows' : r.id = q.id => r = q
      /\ RowsReady'
  BY <1>1, RowsTyped
<1>3. /\ apply' \in [Applies -> ApplyRange] /\ Others(a)
      /\ apply'[a].pc = apply[a].pc /\ apply'[a].row = apply[a].row
      /\ apply'[a].look = apply[a].look
  BY <1>0, <1>1 DEF ApplyRange, Others
<1>4. CallMoves(a) /\ CallReady(a)'
  BY <1>1, <1>3 DEF CallMoves, CallReady, UpdateTypeInv
<1> QED
  BY <1>0, <1>1, <1>2, <1>4, CallKeepsTypes

\* What is recreated is the row's image, or the one before.
LEMMA ImagesTyped ==
    ASSUME UpdateTypeInv, NEW a \in Applies, apply[a].pc \notin {"idle", "read", "done"}
    PROVE  /\ apply[a].row.image \in {Tag} \cup Digests
           /\ PreviousImage(a) \in {Tag} \cup Digests
  BY DEF UpdateTypeInv, CallReady, Row, PreviousImage, NoDigest, Tag

LEMMA RecreatingTyped ==
    ASSUME UpdateTypeInv, NEW a \in Applies, ApplyRecreate(a)
    PROVE  UpdateTypeInv'
<1>1. UNCHANGED <<remote, tag, rows, check, overlapped>>
  BY DEF ApplyRecreate
<1>2. CASE apply[a].pc = "recreate"
  <2>1. Recreate(a, apply[a].target, apply[a].row.image, "create", "health", "failed", ApplyFaults)
    BY <1>2 DEF ApplyRecreate, At
  <2>2. apply[a].row.image \in {Tag} \cup Digests
    BY <1>2, ImagesTyped
  <2>3. {"create", "health"} \subseteq ApplyLabels /\ "failed" \in Results
    BY DEF ApplyLabels, Results
  <2> QED
    BY <1>1, <1>2, <2>1, <2>2, <2>3, RecreateTyped
<1>3. CASE apply[a].pc = "create"
  <2>1. Create(a, apply[a].row.image, "health", "failed", ApplyFaults)
    BY <1>3 DEF ApplyRecreate, At
  <2>2. apply[a].row.image \in {Tag} \cup Digests
    BY <1>3, ImagesTyped
  <2>3. "health" \in ApplyLabels /\ "failed" \in Results
    BY DEF ApplyLabels, Results
  <2> QED
    BY <1>1, <1>3, <2>1, <2>2, <2>3, CreateTyped
<1> QED
  BY <1>2, <1>3 DEF ApplyRecreate, At

LEMMA HealthTyped ==
    ASSUME UpdateTypeInv, NEW a \in Applies, ApplyHealth(a)
    PROVE  UpdateTypeInv'
<1>1. /\ UNCHANGED <<remote, tag, container, lastId, rows, applyInFlight, check, overlapped>>
      /\ apply[a].pc = "health" /\ (Goto(a, "refresh") \/ Goto(a, "rbPull"))
  BY DEF ApplyHealth, At
<1>2. tag' \in Digests /\ container' \in Container
  BY <1>1 DEF UpdateTypeInv, TypeOK
<1>3. PICK next \in {"refresh", "rbPull"} : Goto(a, next)
  BY <1>1
<1> QED
  BY <1>1, <1>2, <1>3, GoKeepsTypes DEF ApplyLabels, Fresh, Last

LEMMA RefreshTyped ==
    ASSUME UpdateTypeInv, NEW a \in Applies, ApplyRefresh(a)
    PROVE  UpdateTypeInv'
<1>0. /\ apply \in [Applies -> ApplyRange] /\ applyInFlight \in [Objects -> SUBSET Ids]
      /\ overlapped \subseteq Applies /\ tag \in Digests /\ container \in Container
  BY DEF UpdateTypeInv, TypeOK, ApplyRange
<1>1. /\ UNCHANGED <<remote, tag, container, lastId, rows, applyInFlight, check, overlapped>>
      /\ apply[a].pc = "refresh"
      /\ \E found \in BOOLEAN :
           apply' = [apply EXCEPT ![a] = [apply[a] EXCEPT !.pc = "write",
                                                          !.look = LookAt(container, found)]]
  BY DEF ApplyRefresh, At
<1>2. /\ rows' \subseteq Row /\ \A r, q \in rows' : r.id = q.id => r = q
      /\ RowsReady'
  BY <1>1, RowsTyped
<1>3. PICK look \in Look : apply' = [apply EXCEPT ![a] =
                                       [apply[a] EXCEPT !.pc = "write", !.look = look]]
  BY <1>0, <1>1, LookTyped
<1>4. PICK q : q = [apply[a] EXCEPT !.pc = "write", !.look = look]
  OBVIOUS
<1>5. q \in ApplyRange /\ q.pc = "write" /\ q.look = look /\ q.row = apply[a].row
  BY ZenonT(30), <1>0, <1>3, <1>4 DEF ApplyRange, ApplyLabels
<1>6. apply' = [apply EXCEPT ![a] = q]
  BY <1>0, <1>1, <1>3, <1>4 DEF ApplyRange
<1>7. /\ apply' \in [Applies -> ApplyRange] /\ Others(a)
      /\ apply'[a].pc = "write" /\ apply'[a].look = look /\ apply'[a].row = apply[a].row
  BY <1>0, <1>5, <1>6 DEF Others
<1>8. CallMoves(a)
  BY <1>1, <1>7 DEF CallMoves, Fresh, Last
<1>9. CallReady(a)'
  BY <1>1, <1>3, <1>7 DEF CallReady, UpdateTypeInv
<1> QED
  BY <1>0, <1>1, <1>2, <1>8, <1>9, CallKeepsTypes

\* A call that writes the rows and goes on.
LEMMA WritingTyped ==
    ASSUME UpdateTypeInv, NEW a \in Applies, NEW next \in {"forget", "tidy"}, Goto(a, next),
           apply[a].pc \in {"write", "forget"},
           UNCHANGED <<remote, tag, container, lastId, applyInFlight, check, overlapped>>,
           rows' \subseteq Row, \A r, q \in rows' : r.id = q.id => r = q, RowsReady'
    PROVE  UpdateTypeInv'
<1>1. /\ apply' \in [Applies -> ApplyRange] /\ Others(a)
      /\ apply'[a].pc = next /\ apply'[a].row = apply[a].row
  BY GoTyped DEF ApplyLabels
<1>2. CallMoves(a)
  BY <1>1 DEF CallMoves, Fresh, Last
<1>3. CallReady(a)'
  BY <1>1 DEF CallReady, UpdateTypeInv
<1>4. /\ tag' \in Digests /\ container' \in Container /\ overlapped' \subseteq Applies
      /\ applyInFlight' \in [Objects -> SUBSET Ids]
  BY DEF UpdateTypeInv, TypeOK
<1> QED
  BY <1>2, <1>3, <1>4, CallKeepsTypes

LEMMA WithdrawnTyped ==
    ASSUME UpdateTypeInv, NEW i
    PROVE  /\ Withdrawn(i) \subseteq Row
           /\ \A r, q \in Withdrawn(i) : r.id = q.id => r = q
           /\ \A r \in Withdrawn(i) : r.available => r.remote # NoDigest
<1>1. CASE RowOf(i) = NoRow
  BY <1>1 DEF Withdrawn, UpdateTypeInv, TypeOK, RowsReady
<1>2. CASE RowOf(i) # NoRow
  <2>1. PICK q : q = [RowOf(i) EXCEPT !.available = FALSE]
    OBVIOUS
  <2>2. RowOf(i) \in Row /\ RowOf(i).id = i
    BY <1>2, RowOfTyped
  <2>3. q \in Row /\ q.id = i /\ ~q.available
    BY <2>1, <2>2 DEF Row
  <2>4. Withdrawn(i) = {q} \cup Without(i)
    BY <1>2, <2>1 DEF Withdrawn
  <2> QED
    BY <2>3, <2>4 DEF Without, UpdateTypeInv, TypeOK, RowsReady
<1> QED
  BY <1>1, <1>2

LEMMA WriteTyped ==
    ASSUME UpdateTypeInv, NEW a \in Applies, ApplyWrite(a) \/ ApplyForget(a)
    PROVE  UpdateTypeInv'
<1>0. apply[a].look \in Look
  BY DEF UpdateTypeInv, TypeOK
<1>1. /\ UNCHANGED <<remote, tag, container, lastId, applyInFlight, check, overlapped>>
      /\ apply[a].pc \in {"write", "forget"}
      /\ \E next \in {"forget", "tidy"} : Goto(a, next)
  BY DEF ApplyWrite, ApplyForget, At
<1> DEFINE look == apply[a].look
           old == apply[a].target
<1>2. \/ rows' = rows \/ rows' = Withdrawn(old) \/ rows' \subseteq rows
      \/ look.seen.id # NoId /\ \E fetched \in BOOLEAN : rows' = Checked(look, fetched)
  BY DEF ApplyWrite, ApplyForget, Without
<1>3. /\ rows' \subseteq Row /\ \A r, q \in rows' : r.id = q.id => r = q
      /\ RowsReady'
  <2>1. CASE rows' \subseteq rows
    BY <2>1 DEF UpdateTypeInv, TypeOK, RowsReady
  <2>2. CASE rows' = Withdrawn(old)
    BY <2>2, WithdrawnTyped DEF RowsReady
  <2>3. CASE look.seen.id # NoId /\ \E fetched \in BOOLEAN : rows' = Checked(look, fetched)
    <3>1. PICK fetched \in BOOLEAN : rows' = Checked(look, fetched)
      BY <2>3
    <3>2. /\ Checked(look, fetched) \subseteq Row
          /\ \A r, q \in Checked(look, fetched) : r.id = q.id => r = q
          /\ \A r \in Checked(look, fetched) : r.available => r.remote # NoDigest
      BY <1>0, <2>3, CheckedTyped
    <3> HIDE DEF look
    <3> QED
      BY <3>1, <3>2 DEF RowsReady
  <2> QED
    BY <1>2, <2>1, <2>2, <2>3
<1> QED
  BY <1>1, <1>3, WritingTyped

LEMMA TidyTyped ==
    ASSUME UpdateTypeInv, NEW a \in Applies, ApplyTidy(a)
    PROVE  UpdateTypeInv'
<1>0. tag \in Digests /\ container \in Container
  BY DEF UpdateTypeInv, TypeOK
<1>1. /\ UNCHANGED <<remote, tag, container, lastId, rows, check, overlapped>>
      /\ Return(a, "ok")
  BY DEF ApplyTidy
<1> QED
  BY <1>0, <1>1, RowsTyped, EndKeepsTypes DEF Results

LEMMA RollbackTyped ==
    ASSUME UpdateTypeInv, NEW a \in Applies, ApplyRollback(a)
    PROVE  UpdateTypeInv'
<1>0. tag \in Digests /\ container \in Container /\ remote \in Digests
  BY DEF UpdateTypeInv, TypeOK
<1>1. UNCHANGED <<remote, rows, check, overlapped>>
  BY DEF ApplyRollback
<1>2. /\ rows' \subseteq Row /\ \A r, q \in rows' : r.id = q.id => r = q
      /\ RowsReady'
  BY <1>1, RowsTyped
<1>3. {"rbRecreate", "rbCreate", "rbEnd"} \subseteq ApplyLabels
  BY DEF ApplyLabels
<1>4. CASE apply[a].pc = "rbPull"
  <2>1. /\ UNCHANGED <<container, lastId>> /\ tag' \in Digests
        /\ Return(a, "rollbackFailed") \/ (Goto(a, "rbRecreate") /\ UNCHANGED applyInFlight)
    BY <1>0, <1>4 DEF ApplyRollback, At
  <2>2. CASE Return(a, "rollbackFailed")
    BY <1>0, <1>1, <1>2, <2>1, <2>2, EndKeepsTypes DEF Results
  <2>3. CASE Goto(a, "rbRecreate") /\ UNCHANGED applyInFlight
    BY <1>0, <1>1, <1>3, <1>4, <2>1, <2>3, GoKeepsTypes DEF Fresh, Last
  <2> QED
    BY <2>1, <2>2, <2>3
<1>5. CASE apply[a].pc = "rbRecreate"
  <2>1. CASE apply[a].kind = "standalone" /\ container.id = NoId
    <3>1. Goto(a, "rbEnd") /\ UNCHANGED <<tag, container, lastId, applyInFlight>>
      BY <1>5, <2>1 DEF ApplyRollback, At
    <3> QED
      BY <1>0, <1>1, <1>3, <1>5, <3>1, GoKeepsTypes DEF Fresh, Last
  <2>2. CASE ~(apply[a].kind = "standalone" /\ container.id = NoId)
    <3>1. /\ Recreate(a, container.id, PreviousImage(a), "rbCreate", "rbEnd", "rollbackFailed",
                      ApplyFaults)
          /\ UNCHANGED tag
      BY <1>5, <2>2 DEF ApplyRollback, At
    <3>2. PreviousImage(a) \in {Tag} \cup Digests /\ "rollbackFailed" \in Results
      BY <1>5, ImagesTyped DEF Results
    <3> QED
      BY <1>1, <1>3, <1>5, <3>1, <3>2, RecreateTyped
  <2> QED
    BY <2>1, <2>2
<1>6. CASE apply[a].pc = "rbCreate"
  <2>1. /\ Create(a, PreviousImage(a), "rbEnd", "rollbackFailed", ApplyFaults)
        /\ UNCHANGED tag
    BY <1>6 DEF ApplyRollback, At
  <2>2. PreviousImage(a) \in {Tag} \cup Digests /\ "rollbackFailed" \in Results
    BY <1>6, ImagesTyped DEF Results
  <2> QED
    BY <1>1, <1>3, <1>6, <2>1, <2>2, CreateTyped
<1>7. CASE apply[a].pc = "rbEnd"
  <2>1. Return(a, "rolledBack") /\ UNCHANGED <<tag, container, lastId>>
    BY <1>7 DEF ApplyRollback, At
  <2> QED
    BY <1>0, <1>1, <1>2, <2>1, EndKeepsTypes DEF Results
<1> QED
  BY <1>4, <1>5, <1>6, <1>7 DEF ApplyRollback, At

\* The checks write rows, and nothing else of the updates.
LEMMA CheckTyped ==
    ASSUME UpdateTypeInv, NEW k \in Checks, CheckList(k) \/ CheckStep(k)
    PROVE  UpdateTypeInv'
<1>0. check \in [Checks -> [pc : CheckLabels, look : Look]] /\ container \in Container
  BY DEF UpdateTypeInv, TypeOK
<1>1. UNCHANGED <<remote, tag, container, lastId, applyInFlight, apply, overlapped>>
  BY DEF CheckList, CheckStep, CheckInspect, CheckWrite, CheckPrune, OnlyCheck
<1>2. ASSUME NEW q \in [pc : CheckLabels, look : Look], check' = [check EXCEPT ![k] = q],
             q.pc \in {"inspect", "write"} => q.look.seen.id # NoId,
             rows' \subseteq Row, \A r, s \in rows' : r.id = s.id => r = s, RowsReady'
      PROVE  UpdateTypeInv'
  <2>1. TypeOK'
    BY <1>0, <1>1, <1>2 DEF UpdateTypeInv, TypeOK
  <2>2. \A j \in Checks : CheckReady(j)'
    BY <1>0, <1>2 DEF UpdateTypeInv, CheckReady
  <2>3. IdsCounted' /\ \A a \in Applies : CallReady(a)'
    BY <1>1 DEF UpdateTypeInv, IdsCounted, CallReady
  <2> QED
    BY <1>2, <2>1, <2>2, <2>3 DEF UpdateTypeInv
<1>3. CASE CheckList(k)
  <2>1. PICK look : look = [NoLook EXCEPT !.seen = container]
    OBVIOUS
  <2>2. look \in Look /\ look.seen = container
    BY <1>0, <2>1, AbsentIsTyped DEF Look
  <2>3. PICK next \in {"inspect", "prune"} :
          /\ container.id = NoId => next = "prune"
          /\ check' = [check EXCEPT ![k] = [pc |-> next, look |-> look]]
    BY <1>3, <2>1 DEF CheckList
  <2>4. PICK q : q = [pc |-> next, look |-> look]
    OBVIOUS
  <2>5. /\ q \in [pc : CheckLabels, look : Look] /\ q.pc = next /\ q.look = look
        /\ check' = [check EXCEPT ![k] = q]
    BY <2>2, <2>3, <2>4 DEF CheckLabels
  <2>6. rows' = rows
    BY <1>3 DEF CheckList
  <2> QED
    BY <1>2, <2>2, <2>3, <2>5, <2>6, RowsTyped
<1>4. CASE CheckInspect(k)
  <2>1. /\ check[k].pc = "inspect" /\ rows' = rows
        /\ \E found \in BOOLEAN :
             check' = [check EXCEPT ![k] = [pc |-> "write",
                                            look |-> LookAt(check[k].look.seen, found)]]
    BY <1>0, <1>4 DEF CheckInspect
  <2>2. check[k].look.seen \in Container \cup {NoRow} /\ check[k].look.seen.id # NoId
    BY <1>0, <2>1 DEF Look, UpdateTypeInv, CheckReady
  <2>3. PICK look \in Look : /\ look.seen.id # NoId
                             /\ check' = [check EXCEPT ![k] = [pc |-> "write", look |-> look]]
    BY <2>1, <2>2, LookTyped
  <2>4. PICK q : q = [pc |-> "write", look |-> look]
    OBVIOUS
  <2>5. /\ q \in [pc : CheckLabels, look : Look] /\ q.pc = "write" /\ q.look = look
        /\ check' = [check EXCEPT ![k] = q]
    BY <2>1, <2>3, <2>4 DEF CheckLabels
  <2> QED
    BY <1>2, <2>1, <2>3, <2>5, RowsTyped
<1>5. ASSUME NEW to \in {"prune", "done"}, check' = [check EXCEPT ![k].pc = to],
             rows' \subseteq Row, \A r, s \in rows' : r.id = s.id => r = s, RowsReady'
      PROVE  UpdateTypeInv'
  <2>1. PICK q : q = [check[k] EXCEPT !.pc = to]
    OBVIOUS
  <2>2. /\ q \in [pc : CheckLabels, look : Look] /\ q.pc = to
        /\ check' = [check EXCEPT ![k] = q]
    BY <1>0, <1>5, <2>1 DEF CheckLabels
  <2> QED
    BY <1>2, <1>5, <2>2
<1>6. CASE CheckWrite(k)
  <2>1. check[k].pc = "write" /\ check' = [check EXCEPT ![k].pc = "prune"]
    BY <1>6 DEF CheckWrite
  <2>2. PICK fetched \in BOOLEAN : rows' = Checked(check[k].look, fetched)
    BY <1>6 DEF CheckWrite
  <2>3. check[k].look \in Look /\ check[k].look.seen.id # NoId
    BY <1>0, <2>1 DEF UpdateTypeInv, CheckReady
  <2>4. rows' \subseteq Row /\ (\A r, q \in rows' : r.id = q.id => r = q) /\ RowsReady'
    BY <2>2, <2>3, CheckedTyped DEF RowsReady
  <2> QED
    BY <1>5, <2>1, <2>4
<1>7. CASE CheckPrune(k)
  <2>1. check' = [check EXCEPT ![k].pc = "done"] /\ rows' \subseteq rows
    BY <1>7 DEF CheckPrune
  <2>2. rows' \subseteq Row /\ (\A r, q \in rows' : r.id = q.id => r = q) /\ RowsReady'
    BY <2>1 DEF UpdateTypeInv, TypeOK, RowsReady
  <2> QED
    BY <1>5, <2>1, <2>2
<1> QED
  BY <1>3, <1>4, <1>6, <1>7 DEF CheckStep

LEMMA UpdateTypeStep == UpdateTypeInv /\ [Next]_vars => UpdateTypeInv'
<1> SUFFICES ASSUME UpdateTypeInv, [Next]_vars PROVE UpdateTypeInv'
  OBVIOUS
<1>1. CASE Publish
  <2>1. remote' \in Digests
    BY <1>1, AppliesAssumption DEF Publish, UpdateTypeInv, TypeOK, Digests
  <2> QED
    BY <1>1, <2>1 DEF Publish, UpdateTypeInv, TypeOK, IdsCounted, RowsReady, CallReady, CheckReady
<1>2. CASE UNCHANGED vars
  BY <1>2 DEF vars, UpdateTypeInv, TypeOK, IdsCounted, RowsReady, CallReady, CheckReady
<1>3. ASSUME NEW a \in Applies, ApplyStep(a) PROVE UpdateTypeInv'
  BY <1>3, ReadTyped, PullTyped, BeginTyped, RecreatingTyped, HealthTyped, RefreshTyped,
     WriteTyped, TidyTyped, RollbackTyped DEF ApplyStep
<1> QED
  BY <1>1, <1>2, <1>3, CallTyped, CheckTyped DEF Next

LEMMA UpdateTypeInit == Init => UpdateTypeInv
<1> SUFFICES ASSUME Init PROVE UpdateTypeInv
  OBVIOUS
<1>1. PICK sort \in Kinds :
        apply \in [Applies -> [pc : {"idle"}, obj : Objects, target : {NoId}, row : {NoRow},
                     kind : {sort}, look : {NoLook}, before : {NoDigest}, result : {"none"}]]
  BY DEF Init
<1>2. apply \in [Applies -> ApplyRange]
  BY <1>1, AbsentIsTyped DEF ApplyRange, ApplyLabels
<1>3. check \in [Checks -> [pc : {"idle"}, look : Look]]
  BY AbsentIsTyped DEF Init
<1>4. PICK r : r = [id |-> 1, image |-> Tag, current |-> 1, remote |-> 1, available |-> FALSE]
  OBVIOUS
<1>5. r \in Row /\ rows = {r} /\ ~r.available
  BY <1>4, IdsAndDigests DEF Row, Init
<1>6. container \in Container
  BY IdsAndDigests DEF Init, Container
<1>7. TypeOK
  BY <1>2, <1>3, <1>5, <1>6, IdsAndDigests DEF Init, TypeOK, ApplyRange, CheckLabels
<1>8. /\ {a \in Applies : apply[a].pc \notin Fresh} = {}
      /\ {a \in Applies : apply[a].pc \in Last} = {}
  BY <1>1 DEF Fresh, Last
<1>9. IdsCounted
  <2>1. Cardinality({}) = 0 /\ lastId = 1
    BY FS_EmptySet DEF Init
  <2> QED
    BY <1>8, <2>1 DEF IdsCounted
<1> QED
  BY <1>1, <1>3, <1>5, <1>7, <1>9 DEF UpdateTypeInv, RowsReady, CallReady, CheckReady

\* Tags, container, rows, marks, calls and checks keep their types, for any number of updates: each
\* makes at most two containers, one when it recreates and one when it rolls back
\* (updates.service.ts:66, :243).
THEOREM UpdateTypesStay == Spec => []TypeOK
  BY UpdateTypeInit, UpdateTypeStep, PTL DEF Spec, UpdateTypeInv

--------------------------------------------------------------------------------
\* Dockora's update of itself

ClickLabels == {"idle", "inspect", "status", "pull", "remove", "create", "start", "ok",
                "failed", "refused", "lost"}

\* Calls, container and progress are records with these fields.
SelfTypes ==
    /\ click \in [Clicks -> [pc : ClickLabels, id : Nat, seen : Nat, inspection : Inspections]]
    /\ updater \in [id : Nat, state : {"none", "created", "running", "exited"}, pc : Labels,
                    sha : Nat, log : Progress]
    /\ file \in Progress /\ lastUpdaterId \in Nat
    /\ updater.state = "none" => updater.id = 0
    /\ updater.state # "none" => updater.id = lastUpdaterId /\ updater.id > 0

\* What runs is never older than what is written down, and never newer than the images, the
\* files and main.
Chain ==
    /\ {remoteHead, source, image, running, revision} \subseteq Nat \ {0}
    /\ revision <= running /\ running <= image /\ image <= source /\ source <= remoteHead

\* The revision that the script will write down is not newer than what is in place by then.
ShaStands ==
    /\ updater.pc = "sync" => updater.sha > 0 /\ updater.sha <= remoteHead
    /\ updater.pc \in {"rebuild", "build"} => updater.sha > 0 /\ updater.sha <= source
    /\ updater.pc = "up" => updater.sha > 0 /\ updater.sha <= image
    /\ updater.pc = "mark" => updater.sha > 0 /\ updater.sha <= running

Revs == Chain /\ ShaStands

\* An updater that was made for a call is that call's, and waits to be started.
OwnUpdater(c) ==
    /\ click[c].id <= lastUpdaterId
    /\ AtClick(c, "start") =>
         /\ click[c].id > 0
         /\ updater.id = click[c].id => updater.state = "created"
         /\ \A d \in Clicks \ {c} : AtClick(d, "start") => click[d].id # click[c].id

\* Of the updaters that had been started when the call was made none will be started, and
\* past an inspection that did not fail none runs.
SeenStands(c) ==
    /\ click[c].seen <= lastUpdaterId
    /\ AtClick(c, "inspect") => updater.id > click[c].seen \/ updater.state # "created"
    /\ click[c].pc \in {"status", "pull", "remove"} =>
         \/ updater.id > click[c].seen \/ updater.state \notin {"created", "running"}
         \/ click[c].inspection = "fails"

ClicksStand == \A c \in Clicks : OwnUpdater(c) /\ SeenStands(c)

SelfIInv == SelfTypes /\ Revs /\ ClicksStand

LEMMA SelfInit == ASSUME Installed = 1 PROVE SelfUpdateInit => SelfIInv
  BY DEF SelfUpdateInit, SelfIInv, SelfTypes, Revs, Chain, ShaStands, ClicksStand, OwnUpdater,
         SeenStands, AtClick, NoUpdater, NoProgress, Progress, Percents, Labels, ClickLabels,
         Inspections

--------------------------------------------------------------------------------
\* The script

\* What a step of the script does to the container and to the calls.
Works ==
    /\ updater.state = "running" /\ updater'.state \in {"running", "exited"}
    /\ updater'.id = updater.id /\ lastUpdaterId' = lastUpdaterId
    /\ \A c \in Clicks : /\ click'[c].id = click[c].id /\ click'[c].seen = click[c].seen
                         /\ click'[c].inspection = click[c].inspection
                         /\ click'[c].pc \in {click[c].pc, "lost"}

LEMMA ProgressKeeps ==
    ASSUME NEW percent \in Percents, NEW step \in {"none", "work", "error", "done"}, SelfTypes
    PROVE  /\ Written(percent, step) \in Progress
           /\ \A p \in Progress : Logged(p) \in Progress
  BY DEF SelfTypes, Written, Larger, Logged, Progress, Percents

LEMMA ReportWorks ==
    ASSUME SelfTypes, NEW percent \in Percents, NEW step \in {"none", "work", "error", "done"},
           NEW label \in Labels, NEW state \in {"running", "exited"},
           Report(percent, step, label, state)
    PROVE  /\ file' \in Progress
           /\ updater' \in [id : Nat, state : {"running", "exited"}, pc : {label},
                            sha : {updater.sha}, log : Progress]
           /\ updater'.id = updater.id
<1>1. PICK p \in Progress : p = Written(percent, step)
  BY ProgressKeeps
<1>2. file' = p /\ updater' = [updater EXCEPT !.pc = label, !.state = state, !.log = Logged(p)]
  BY <1>1 DEF Report
<1>3. Logged(p) \in Progress
  BY <1>1, ProgressKeeps DEF Percents
<1> QED
  BY <1>1, <1>2, <1>3 DEF SelfTypes

LEMMA ExitWorks ==
    ASSUME SelfTypes, Exit
    PROVE  /\ file' \in Progress
           /\ updater' \in [id : Nat, state : {"exited"}, pc : {"end"}, sha : {updater.sha},
                            log : Progress]
           /\ updater'.id = updater.id
  BY DEF Exit, SelfTypes, Labels

LEMMA SyncedWorks ==
    ASSUME SelfTypes, NEW percent \in Percents, NEW label \in Labels, NEW sha \in Nat,
           updater.state = "running",
           LET p == Written(percent, "work") IN
             /\ file' = p
             /\ updater' = [updater EXCEPT !.pc = label, !.sha = sha, !.log = Logged(p)]
    PROVE  /\ file' \in Progress
           /\ updater' \in [id : Nat, state : {"running"}, pc : {label}, sha : {sha},
                            log : Progress]
           /\ updater'.id = updater.id
<1>1. PICK p \in Progress : p = Written(percent, "work")
  BY ProgressKeeps
<1>2. Logged(p) \in Progress
  BY <1>1, ProgressKeeps
<1> QED
  BY <1>1, <1>2 DEF SelfTypes

\* Only compose's last step and the record of the revision touch what the chain is about.
LEMMA ScriptKeeps ==
    ASSUME SelfTypes, Revs, ScriptStep
    PROVE  /\ Works /\ Revs'
           /\ file' \in Progress
           /\ updater' \in [id : Nat, state : {"running", "exited"}, pc : Labels, sha : Nat,
                            log : Progress]
           /\ click' \in [Clicks ->
                 [pc : ClickLabels, id : Nat, seen : Nat, inspection : Inspections]]
<1> USE DEF Labels, Percents
<1>0. /\ click \in [Clicks -> [pc : ClickLabels, id : Nat, seen : Nat, inspection : Inspections]]
      /\ updater.sha \in Nat /\ updater.id \in Nat /\ file \in Progress
      /\ updater \in [id : Nat, state : {"none", "created", "running", "exited"}, pc : Labels,
                      sha : Nat, log : Progress]
  BY DEF SelfTypes
<1>1. CASE ScriptBegin
  <2>1. PICK p \in Progress : p = [percent |-> 4, step |-> "work"]
    <3>1. [percent |-> 4, step |-> "work"] \in Progress
      BY DEF Progress
    <3> QED
      BY <3>1
  <2>2. file' = p /\ updater' = [updater EXCEPT !.pc = "resolve", !.log = p]
    BY <1>1, <2>1 DEF ScriptBegin
  <2>3. updater.state = "running" /\ UNCHANGED <<stackOnHost, lastUpdaterId, click>>
    BY <1>1 DEF ScriptBegin, Script
  <2>4. updater' \in [id : Nat, state : {"running"}, pc : {"resolve"}, sha : Nat, log : Progress]
    BY <1>0, <2>2, <2>3
  <2>5. updater'.id = updater.id
    BY <1>0, <2>2
  <2> QED
    BY <1>0, <2>2, <2>3, <2>4, <2>5 DEF Works, Revs, Chain, ShaStands, stackOnHost
<1>2. CASE ScriptResolve
  <2>1. CASE Exit
    BY <1>0, <1>2, <2>1, ExitWorks DEF ScriptResolve, Script, Works, Revs, Chain, ShaStands,
                                       stackOnHost
  <2>2. CASE ~Exit
    <3>1. /\ file' \in Progress
          /\ updater' \in [id : Nat, state : {"running"}, pc : {"sync"}, sha : {remoteHead},
                           log : Progress]
          /\ updater'.id = updater.id
      <4>1. /\ updater.state = "running" /\ remoteHead \in Nat
            /\ LET p == Written(12, "work") IN
                 /\ file' = p
                 /\ updater' = [updater EXCEPT !.pc = "sync", !.sha = remoteHead, !.log = Logged(p)]
        BY <1>2, <2>2 DEF ScriptResolve, Script, Revs, Chain
      <4>2. 12 \in Percents /\ "sync" \in Labels
        OBVIOUS
      <4> QED
        BY <4>1, <4>2, SyncedWorks
    <3> QED
      BY <1>0, <1>2, <3>1 DEF ScriptResolve, Script, Works, Revs, Chain, ShaStands, stackOnHost
  <2> QED
    BY <2>1, <2>2
<1>3. CASE ScriptSync
  <2>1. CASE Exit
    BY <1>0, <1>3, <2>1, ExitWorks DEF ScriptSync, Script, Works, Revs, Chain, ShaStands
  <2>2. CASE ~Exit
    <3>1. PICK sha \in {remoteHead, updater.sha} :
             LET p == Written(22, "work") IN
             /\ file' = p
             /\ updater' = [updater EXCEPT !.pc = "rebuild", !.sha = sha, !.log = Logged(p)]
      BY <1>3, <2>2 DEF ScriptSync
    <3>2. /\ file' \in Progress
          /\ updater' \in [id : Nat, state : {"running"}, pc : {"rebuild"}, sha : {sha},
                           log : Progress]
          /\ updater'.id = updater.id
      <4>1. updater.state = "running" /\ sha \in Nat
        BY <1>0, <1>3, <3>1 DEF ScriptSync, Script, Revs, Chain
      <4>2. 22 \in Percents /\ "rebuild" \in Labels
        OBVIOUS
      <4> QED
        BY <3>1, <4>1, <4>2, SyncedWorks
    <3>3. source' = remoteHead /\ UNCHANGED <<remoteHead, image, running, revision>>
      BY <1>3, <2>2 DEF ScriptSync
    <3> QED
      BY <1>0, <1>3, <3>2, <3>3 DEF ScriptSync, Script, Works, Revs, Chain, ShaStands
  <2> QED
    BY <2>1, <2>2
<1>4. CASE ScriptRebuild \/ ScriptWatch \/ ScriptPrune
  <2>1. PICK percent \in Percents, step \in {"work", "done"}, label \in Labels,
             state \in {"running", "exited"} :
          /\ Report(percent, step, label, state) /\ updater.state = "running"
          /\ \/ updater.pc = "rebuild" /\ label = "build"
             \/ updater.pc \in {"build", "up"} /\ label = updater.pc
             \/ label = "end"
    <3>1. CASE ScriptRebuild
      BY SMTT(30), <3>1 DEF ScriptRebuild, Script
    <3>2. CASE ScriptWatch
      <4>1. PICK percent \in Watched : Report(percent, "work", updater.pc, "running")
        BY <3>2 DEF ScriptWatch
      <4>2. percent \in Percents
        BY VersionsAssumption
      <4>3. updater.state = "running" /\ updater.pc \in {"build", "up"}
        BY <3>2 DEF ScriptWatch, Script
      <4> QED
        BY <4>1, <4>2, <4>3
    <3>3. CASE ScriptPrune
      BY <3>3 DEF ScriptPrune, Script
    <3> QED
      BY <1>4, <3>1, <3>2, <3>3
  <2>2. UNCHANGED <<stackOnHost, lastUpdaterId, click>>
    BY SMTT(30), <1>4 DEF ScriptRebuild, ScriptWatch, ScriptPrune
  <2>3. /\ file' \in Progress
        /\ updater' \in [id : Nat, state : {"running", "exited"}, pc : {label},
                         sha : {updater.sha}, log : Progress]
        /\ updater'.id = updater.id
    BY ZenonT(30), <2>1, ReportWorks
  <2>4. /\ updater'.sha = updater.sha /\ updater'.state \in {"running", "exited"}
        /\ updater'.pc = label
        /\ updater' \in [id : Nat, state : {"running", "exited"}, pc : Labels, sha : Nat,
                         log : Progress]
    BY <1>0, <2>1, <2>3
  <2>5. UNCHANGED stackOnHost
    BY <2>2
  <2>6. Revs'
    BY <1>0, <2>1, <2>4, <2>5 DEF Revs, Chain, ShaStands, stackOnHost
  <2>7. Works
    BY <1>0, <2>1, <2>2, <2>4, <2>3 DEF Works
  <2> QED
    BY SMTT(30), <1>0, <2>2, <2>3, <2>4, <2>6, <2>7
<1>5. CASE ScriptBuild
  <2>1. CASE ComposeFails /\ UNCHANGED image
    <3>1. Report(0, "error", "end", "exited") /\ updater.state = "running"
      BY <1>5, <2>1 DEF ComposeFails, ScriptBuild, Script
    <3>2. /\ file' \in Progress
          /\ updater' \in [id : Nat, state : {"exited"}, pc : {"end"}, sha : {updater.sha},
                           log : Progress]
          /\ updater'.id = updater.id
      <4>1. 0 \in Percents /\ "end" \in Labels
        OBVIOUS
      <4>2. /\ updater' \in [id : Nat, state : {"running", "exited"}, pc : {"end"},
                             sha : {updater.sha}, log : Progress]
            /\ file' \in Progress /\ updater'.id = updater.id
        BY <3>1, <4>1, ReportWorks
      <4>3. updater'.state = "exited"
        BY <1>0, <3>1 DEF Report
      <4> QED
        BY <4>2, <4>3
    <3>3. UNCHANGED <<remoteHead, source, running, revision, lastUpdaterId, click>>
      BY <1>5 DEF ScriptBuild
    <3>4. image' = image
      BY <2>1
    <3> QED
      BY <1>0, <3>1, <3>2, <3>3, <3>4 DEF Works, Revs, Chain, ShaStands
  <2>2. CASE ~(ComposeFails /\ UNCHANGED image)
    BY <1>0, <1>5, <2>2 DEF ScriptBuild, Script, Works, Revs, Chain, ShaStands
  <2> QED
    BY <2>1, <2>2
<1>6. CASE ScriptUp
  <2>1. CASE ComposeFails /\ UNCHANGED <<running, updateInFlight, finalizers, click>>
    <3>1. Report(0, "error", "end", "exited") /\ updater.state = "running"
      BY <1>6, <2>1 DEF ComposeFails, ScriptUp, Script
    <3>2. /\ file' \in Progress
          /\ updater' \in [id : Nat, state : {"exited"}, pc : {"end"}, sha : {updater.sha},
                           log : Progress]
          /\ updater'.id = updater.id
      <4>1. 0 \in Percents /\ "end" \in Labels
        OBVIOUS
      <4>2. /\ updater' \in [id : Nat, state : {"running", "exited"}, pc : {"end"},
                             sha : {updater.sha}, log : Progress]
            /\ file' \in Progress /\ updater'.id = updater.id
        BY <3>1, <4>1, ReportWorks
      <4>3. updater'.state = "exited"
        BY <1>0, <3>1 DEF Report
      <4> QED
        BY <4>2, <4>3
    <3>3. UNCHANGED <<remoteHead, source, running, revision, lastUpdaterId, click>>
      BY <1>6, <2>1 DEF ScriptUp
    <3>4. image' = image
      BY <1>6 DEF ScriptUp
    <3> QED
      BY <1>0, <3>1, <3>2, <3>3, <3>4 DEF Works, Revs, Chain, ShaStands
  <2>2. CASE ~(ComposeFails /\ UNCHANGED <<running, updateInFlight, finalizers, click>>)
    <3>1. /\ click' \in [Clicks ->
                [pc : ClickLabels, id : Nat, seen : Nat, inspection : Inspections]]
          /\ \A c \in Clicks : /\ click'[c].id = click[c].id /\ click'[c].seen = click[c].seen
                               /\ click'[c].inspection = click[c].inspection
                               /\ click'[c].pc \in {click[c].pc, "lost"}
      BY <1>0, <1>6, <2>2 DEF ScriptUp, ApiRestart, ClickLabels
    <3>2. PICK log \in {updater.log, [percent |-> 28, step |-> "work"]} :
               \/ updater' = [updater EXCEPT !.pc = "mark", !.log = log] /\ UNCHANGED file
               \/ LET p == Written(0, "error") IN
                  /\ file' = p
                  /\ updater' = [updater EXCEPT !.pc = "end", !.state = "exited", !.log = p]
      BY <1>6, <2>2 DEF ScriptUp
    <3>3. log \in Progress
      BY <1>0 DEF Progress
    <3>4. /\ file' \in Progress
          /\ updater' \in [id : Nat, state : {"running", "exited"}, pc : {"mark", "end"},
                           sha : {updater.sha}, log : Progress]
          /\ updater'.id = updater.id
      <4>1. PICK p \in Progress : p = Written(0, "error")
        BY ProgressKeeps
      <4> QED
        BY <1>0, <1>6, <3>2, <3>3, <4>1 DEF ScriptUp, Script
    <3>5. /\ running' = image /\ updater.pc = "up" /\ updater.state = "running"
          /\ UNCHANGED <<remoteHead, source, image, revision, lastUpdaterId>>
      BY <1>6, <2>2 DEF ScriptUp, Script
    <3> QED
      BY <1>0, <3>1, <3>4, <3>5 DEF Works, Revs, Chain, ShaStands
  <2> QED
    BY <2>1, <2>2
<1>7. CASE ScriptMark
  <2>1. PICK percent \in Percents, label \in {"prune", "end"}, state \in {"running", "exited"} :
          Report(percent, "work", label, state)
    BY SMTT(30), <1>7 DEF ScriptMark
  <2>2. /\ file' \in Progress
        /\ updater' \in [id : Nat, state : {"running", "exited"}, pc : {label},
                         sha : {updater.sha}, log : Progress]
        /\ updater'.id = updater.id
    BY <2>1, ReportWorks
  <2> QED
    BY <1>0, <1>7, <2>2 DEF ScriptMark, Script, Works, Revs, Chain, ShaStands
<1>8. CASE ScriptHang
  BY <1>0, <1>8 DEF ScriptHang, Script, Works, Revs, Chain, ShaStands, stackOnHost
<1> QED
  BY <1>1, <1>2, <1>3, <1>4, <1>5, <1>6, <1>7, <1>8 DEF ScriptStep

LEMMA ScriptHolds == ASSUME SelfIInv, ScriptStep PROVE SelfIInv'
<1>1. /\ Works /\ Revs' /\ file' \in Progress
      /\ updater' \in [id : Nat, state : {"running", "exited"}, pc : Labels, sha : Nat,
                       log : Progress]
      /\ click' \in [Clicks ->
            [pc : ClickLabels, id : Nat, seen : Nat, inspection : Inspections]]
  BY ScriptKeeps DEF SelfIInv
<1>2. SelfTypes'
  BY <1>1 DEF SelfIInv, SelfTypes, Works
<1>3. ClicksStand'
  BY <1>1 DEF SelfIInv, SelfTypes, Works, ClicksStand, OwnUpdater, SeenStands, AtClick
<1> QED
  BY <1>1, <1>2, <1>3 DEF SelfIInv

--------------------------------------------------------------------------------
\* The calls

LEMMA ClickHolds ==
    ASSUME SelfIInv, NEW c \in Clicks, ClickCall(c) \/ ClickStep(c)
    PROVE  SelfIInv'
<1>0. SelfTypes /\ Revs /\ ClicksStand
  BY DEF SelfIInv
<1>1. UNCHANGED <<remoteHead, source, image, running, revision, file>>
  BY DEF ClickCall, ClickStep, ClickInspect, ClickStatus, ClickPull, ClickRemove, ClickCreate,
         ClickStart, stackOnHost
<1>2. CASE ClickCall(c)
  <2>1. LastStarted \in Nat /\ LastStarted <= lastUpdaterId
    BY <1>0 DEF SelfTypes, LastStarted
  <2>2. updater.id > LastStarted \/ updater.state # "created"
    BY <1>0 DEF SelfTypes, LastStarted, ClicksStand
  <2>3. SelfTypes'
    BY ZenonT(30), <1>0, <1>1, <1>2, <2>1 DEF ClickCall, SelfTypes, ClickLabels
  <2> QED
    BY <1>0, <1>1, <1>2, <2>1, <2>2, <2>3
    DEF ClickCall, SelfIInv, SelfTypes, Revs, Chain, ShaStands, ClicksStand, OwnUpdater,
        SeenStands, AtClick
\* The call goes on, and has perhaps taken a failing inspection for there being no updater.
<1>7. ASSUME NEW to \in {"refused", "status", "pull", "remove", "failed"},
             NEW inspection \in Inspections,
             click' = [click EXCEPT ![c] =
                         [click[c] EXCEPT !.pc = to, !.inspection = inspection]],
             click[c].pc \in {"inspect", "status", "pull"},
             IF click[c].pc = "inspect"
             THEN \/ to = "refused"
                  \/ to = "status" /\ (updater.state = "running" => inspection = "fails")
             ELSE inspection = click[c].inspection,
             UNCHANGED <<updater, lastUpdaterId>>
      PROVE  SelfIInv'
  <2>1. PICK q : q = [click[c] EXCEPT !.pc = to, !.inspection = inspection]
    OBVIOUS
  <2>2. /\ q \in [pc : ClickLabels, id : Nat, seen : Nat, inspection : Inspections]
        /\ q.pc = to /\ q.inspection = inspection
        /\ q.id = click[c].id /\ q.seen = click[c].seen
    BY <1>0, <1>7, <2>1 DEF SelfTypes, ClickLabels
  <2>3. click' = [click EXCEPT ![c] = q]
    BY <1>7, <2>1
  <2>4. SelfTypes'
    BY <1>0, <1>1, <1>7, <2>2, <2>3 DEF SelfTypes
  <2>5. /\ click'[c] = q /\ \A d \in Clicks \ {c} : click'[d] = click[d]
    BY <1>0, <2>3 DEF SelfTypes
  <2>6. ASSUME NEW d \in Clicks PROVE (OwnUpdater(d) /\ SeenStands(d))'
    BY <1>0, <1>7, <2>2, <2>5 DEF ClicksStand, OwnUpdater, SeenStands, AtClick
  <2>7. Revs'
    BY <1>0, <1>1, <1>7 DEF Revs, Chain, ShaStands
  <2> QED
    BY <2>4, <2>6, <2>7 DEF SelfIInv, ClicksStand
<1>3. CASE ClickInspect(c) \/ ClickStatus(c) \/ ClickPull(c)
  <2>1. PICK to \in {"refused", "status", "pull", "remove", "failed"}, inspection \in Inspections :
           /\ click' = [click EXCEPT ![c] =
                          [click[c] EXCEPT !.pc = to, !.inspection = inspection]]
           /\ click[c].pc \in {"inspect", "status", "pull"}
           /\ IF click[c].pc = "inspect"
              THEN \/ to = "refused"
                   \/ to = "status" /\ (updater.state = "running" => inspection = "fails")
              ELSE inspection = click[c].inspection
    <3>1. ASSUME NEW to, ClickGoes(c, to)
          PROVE  click' = [click EXCEPT ![c] =
                             [click[c] EXCEPT !.pc = to, !.inspection = click[c].inspection]]
      <4>1. click[c].inspection \in Inspections /\ click[c].pc \in ClickLabels
        BY <1>0 DEF SelfTypes
      <4> QED
        BY <1>0, <3>1, <4>1 DEF ClickGoes, SelfTypes
    <3>2. click[c].inspection \in Inspections
      BY <1>0 DEF SelfTypes
    <3>3. CASE ClickInspect(c)
      <4>1. CASE ClickGoes(c, IF updater.state = "running" THEN "refused" ELSE "status")
        <5>1. PICK to \in {"refused", "status"} :
                /\ to = "status" => updater.state # "running"
                /\ ClickGoes(c, to)
          BY <4>1
        <5>2. click[c].pc = "inspect"
          BY <3>3 DEF ClickInspect, AtClick
        <5> QED
          BY <3>1, <3>2, <5>1, <5>2
      <4>2. CASE ~ ClickGoes(c, IF updater.state = "running" THEN "refused" ELSE "status")
        BY <3>3, <4>2 DEF ClickInspect, AtClick, Inspections
      <4> QED
        BY <4>1, <4>2
    <3>4. CASE ClickStatus(c)
      BY <3>1, <3>2, <3>4 DEF ClickStatus, AtClick
    <3>5. CASE ClickPull(c)
      BY <3>1, <3>2, <3>5 DEF ClickPull, AtClick, Answer
    <3> QED
      BY <1>3, <3>3, <3>4, <3>5
  <2>2. UNCHANGED <<updater, lastUpdaterId>>
    BY <1>3 DEF ClickInspect, ClickStatus, ClickPull
  <2> QED
    BY <1>7, <2>1, <2>2
<1>4. CASE ClickRemove(c)
  <2>1. SelfTypes'
    BY <1>0, <1>1, <1>4 DEF ClickRemove, ClickGoes, SelfTypes, ClickLabels, NoUpdater, NoProgress,
                            Progress, Percents, Labels
  <2> QED
    BY <1>0, <1>1, <1>4, <2>1
    DEF ClickRemove, ClickGoes, SelfIInv, SelfTypes, Revs, Chain, NoUpdater,
        ShaStands, ClicksStand, OwnUpdater, SeenStands, AtClick
<1>5. CASE ClickCreate(c)
  <2>1. CASE Answer(c, "failed")
    <3>1. click' = [click EXCEPT ![c].pc = "failed"]
      BY <2>1 DEF Answer, ClickGoes
    <3>2. click'[c].pc = "failed"
      BY <1>0, <3>1 DEF SelfTypes
    <3>3. ASSUME click' = [click EXCEPT ![c] =
                             [click[c] EXCEPT !.pc = "start", !.id = lastUpdaterId + 1]]
          PROVE  FALSE
      <4>1. click'[c].pc = "start"
        BY <1>0, <3>3 DEF SelfTypes
      <4> QED
        BY <3>2, <4>1
    <3>4. UNCHANGED <<updater, lastUpdaterId>>
      BY <1>5, <3>3 DEF ClickCreate
    <3> QED
      BY <1>0, <1>1, <3>1, <3>4
      DEF SelfIInv, SelfTypes, ClickLabels, Revs, Chain, ShaStands, ClicksStand, OwnUpdater,
          SeenStands, AtClick
  <2>2. CASE ~Answer(c, "failed")
    <3>1. /\ updater.state = "none" /\ lastUpdaterId' = lastUpdaterId + 1
          /\ updater' = [NoUpdater EXCEPT !.id = lastUpdaterId + 1, !.state = "created"]
          /\ click' = [click EXCEPT ![c] =
                         [click[c] EXCEPT !.pc = "start", !.id = lastUpdaterId + 1]]
      BY <1>5, <2>2 DEF ClickCreate
    <3>2. SelfTypes'
      <4>1. NoUpdater \in [id : Nat, state : {"none"}, pc : Labels, sha : Nat, log : Progress]
        BY DEF NoUpdater, NoProgress, Progress, Percents, Labels
      <4>2. lastUpdaterId \in Nat /\ lastUpdaterId' \in Nat /\ lastUpdaterId' > 0
        BY <1>0, <3>1 DEF SelfTypes
      <4>3. updater' \in [id : Nat, state : {"created"}, pc : Labels, sha : Nat, log : Progress]
        BY <3>1, <4>1, <4>2
      <4>4. updater'.id = lastUpdaterId' /\ updater'.state = "created"
        BY <3>1, <4>1, <4>2
      <4>5. click' \in [Clicks ->
               [pc : ClickLabels, id : Nat, seen : Nat, inspection : Inspections]]
        BY ZenonT(30), <1>0, <3>1, <4>2 DEF SelfTypes, ClickLabels
      <4> QED
        BY <1>0, <1>1, <4>2, <4>3, <4>4, <4>5 DEF SelfTypes
    <3>3. Revs'
      BY <1>0, <1>1, <3>1 DEF Revs, Chain, ShaStands, NoUpdater
    <3>4. ASSUME NEW d \in Clicks PROVE (OwnUpdater(d) /\ SeenStands(d))'
      <4>1. updater'.id = lastUpdaterId + 1 /\ updater'.state = "created"
        BY <3>1 DEF NoUpdater
      <4> QED
        BY <1>0, <3>1, <4>1 DEF SelfTypes, ClicksStand, OwnUpdater, SeenStands, AtClick
    <3> QED
      BY <3>2, <3>3, <3>4 DEF SelfIInv, ClicksStand
  <2> QED
    BY <2>1, <2>2
<1>6. CASE ClickStart(c)
  <2>1. CASE Answer(c, "failed")
    BY <1>0, <1>1, <1>6, <2>1
    DEF ClickStart, ClickGoes, Answer, SelfIInv, SelfTypes, ClickLabels, Revs, Chain,
        ShaStands, ClicksStand, OwnUpdater, SeenStands, AtClick
  <2>2. CASE ~Answer(c, "failed")
    <3>1. /\ updater.id = click[c].id /\ click[c].pc = "start" /\ lastUpdaterId' = lastUpdaterId
          /\ updater' = [updater EXCEPT !.state = "running", !.pc = "begin"]
          /\ click' = [click EXCEPT ![c].pc = "ok"]
      BY <1>6, <2>2 DEF ClickStart, AtClick, Answer, ClickGoes
    <3>2. updater.state = "created"
      BY <1>0, <3>1 DEF ClicksStand, OwnUpdater, AtClick
    <3>3. SelfTypes'
      <4>1. /\ updater' \in [id : Nat, state : {"running"}, pc : {"begin"}, sha : Nat,
                             log : Progress]
            /\ updater'.id = updater.id
        BY <1>0, <3>1 DEF SelfTypes
      <4>2. click' \in [Clicks ->
               [pc : ClickLabels, id : Nat, seen : Nat, inspection : Inspections]]
        BY <1>0, <3>1 DEF SelfTypes, ClickLabels
      <4>3. updater.state = "created"
        BY <3>2
      <4> QED
        BY <1>0, <1>1, <3>1, <4>1, <4>2, <4>3 DEF SelfTypes, Labels
    <3>4. Revs'
      BY <1>0, <1>1, <3>1, <3>3 DEF Revs, Chain, ShaStands, SelfTypes
    <3>5. ASSUME NEW d \in Clicks PROVE (OwnUpdater(d) /\ SeenStands(d))'
      BY <1>0, <3>1, <3>2 DEF SelfTypes, ClicksStand, OwnUpdater, SeenStands, AtClick
    <3> QED
      BY <3>3, <3>4, <3>5 DEF SelfIInv, ClicksStand
  <2> QED
    BY <2>1, <2>2
<1> QED
  BY <1>2, <1>3, <1>4, <1>5, <1>6 DEF ClickStep

LEMMA SelfHolds ==
    ASSUME SelfIInv, [SelfUpdateNext]_selfUpdateVars
    PROVE  SelfIInv'
<1>1. CASE Push
  BY <1>1 DEF Push, SelfIInv, SelfTypes, Revs, Chain, ShaStands, ClicksStand, OwnUpdater,
              SeenStands, AtClick
<1>2. ASSUME NEW i \in UpdaterIds, Finalize(i) PROVE SelfIInv'
  BY <1>2 DEF Finalize, SelfIInv, SelfTypes, Revs, Chain, ShaStands, ClicksStand, OwnUpdater,
              SeenStands, AtClick, stackOnHost, NoUpdater, NoProgress, Progress, Percents, Labels
<1>3. CASE UNCHANGED selfUpdateVars
  BY <1>3 DEF selfUpdateVars, SelfIInv, SelfTypes, Revs, Chain, ShaStands, ClicksStand,
              OwnUpdater, SeenStands, AtClick
<1> QED
  BY <1>1, <1>2, <1>3, ScriptHolds, ClickHolds DEF SelfUpdateNext

LEMMA SelfShows ==
    ASSUME SelfIInv
    PROVE  NoUpdateHidden /\ \A c \in Clicks : KeepsRunningUpdater(c)
<1>1. NoUpdateHidden
  BY DEF SelfIInv, Revs, Chain, NoUpdateHidden, UpdateAvailable, LocalRevision
<1>2. \A c \in Clicks : KeepsRunningUpdater(c)
  BY DEF SelfIInv, SelfTypes, ClicksStand, SeenStands, KeepsRunningUpdater,
         TakesRunningUpdater, AtClick
<1> QED
  BY <1>1, <1>2

\* For any number of calls, and whatever steps of the updater's script fail or hang: with a
\* .dockora-revision no pending update is hidden, and no apply removes an updater that ran when
\* it was called, unless its inspection of that updater failed (self-update.service.ts:81, 118,
\* 539).
THEOREM SelfUpdatesAreKept ==
    ASSUME Installed = 1
    PROVE  SelfUpdateSpec => UpdatesAreKept
<1>1. SelfIInv /\ [SelfUpdateNext]_selfUpdateVars => SelfIInv'
  BY SelfHolds
<1>2. SelfIInv /\ SelfIInv' =>
        [NoUpdateHidden' /\ \A c \in Clicks : KeepsRunningUpdater(c)]_selfUpdateVars
  <2>1. SelfIInv => NoUpdateHidden /\ \A c \in Clicks : KeepsRunningUpdater(c)
    BY SelfShows
  <2>2. SelfIInv' => NoUpdateHidden'
    <3>1. SelfIInv => NoUpdateHidden
      BY SelfShows
    <3> QED
      BY <3>1, PTL
  <2> QED
    BY <2>1, <2>2
<1> QED
  BY <1>1, <1>2, SelfInit, PTL DEF SelfUpdateSpec, UpdatesAreKept

--------------------------------------------------------------------------------
\* The types of Dockora's update of itself

\* Every updater was made for a call, which has its id from then on.
Counted ==
    /\ lastUpdaterId = Cardinality({c \in Clicks : click[c].id # 0})
    /\ \A c \in Clicks :
         /\ click[c].pc \in {"idle", "inspect", "status", "pull", "remove", "create"}
              => click[c].id = 0
         /\ click[c].pc = "start" => click[c].id # 0
    /\ updater.state = "none" => updater.id = 0
    /\ updater.state # "none" => updater.id = lastUpdaterId /\ updater.id > 0

ScriptIds ==
    /\ updater' \in [id : UpdaterIds, state : {"running", "exited"}, pc : Labels,
                     sha : {0} \cup Revisions, log : Progress]
    /\ file' \in Progress
    /\ UNCHANGED <<updater.id, lastUpdaterId>> /\ updater.state = "running"

HostTypes ==
    /\ {remoteHead, source, image, running} \subseteq Revisions
    /\ revision \in {0} \cup Revisions

CallTypes ==
    /\ click \in [Clicks -> [pc : ClickLabels, id : UpdaterIds, seen : UpdaterIds,
                             inspection : Inspections]]
    /\ updateInFlight \in BOOLEAN /\ finalizers \subseteq UpdaterIds

CallsLive ==
    UNCHANGED <<updateInFlight, finalizers, click>> \/ ApiRestart

LEMMA IdsAreNumbers ==
    /\ UpdaterIds \subseteq Nat /\ Revisions \subseteq Nat /\ 0 \in UpdaterIds
    /\ Cardinality(Clicks) \in Nat /\ 1 \in Revisions
  BY ClicksAssumption, VersionsAssumption, FS_CardinalityType DEF UpdaterIds, Revisions

LEMMA NoneIsTyped ==
    /\ NoProgress \in Progress
    /\ NoUpdater \in [id : UpdaterIds, state : {"none"}, pc : Labels, sha : {0} \cup Revisions,
                      log : Progress]
  BY IdsAreNumbers DEF NoProgress, NoUpdater, Progress, Percents, Labels

LEMMA TypesAreWeaker == SelfUpdateTypeOK /\ Counted => SelfTypes /\ HostTypes /\ CallTypes
  BY IdsAreNumbers DEF SelfUpdateTypeOK, Counted, SelfTypes, HostTypes, CallTypes, ClickLabels

LEMMA ReportTyped ==
    ASSUME SelfUpdateTypeOK, Counted, NEW percent \in Percents,
           NEW step \in {"none", "work", "error", "done"},
           NEW label \in Labels, NEW state \in {"running", "exited"},
           Report(percent, step, label, state), updater.state = "running",
           lastUpdaterId' = lastUpdaterId
    PROVE  ScriptIds
<1>1. /\ file' \in Progress
      /\ updater' \in [id : Nat, state : {"running", "exited"}, pc : {label},
                       sha : {updater.sha}, log : Progress]
      /\ updater'.id = updater.id
  BY TypesAreWeaker, ReportWorks
<1> QED
  BY <1>1 DEF ScriptIds, SelfUpdateTypeOK

LEMMA ExitTyped ==
    ASSUME SelfUpdateTypeOK, Counted, Exit, updater.state = "running",
           lastUpdaterId' = lastUpdaterId
    PROVE  ScriptIds
  BY TypesAreWeaker, ExitWorks DEF ScriptIds, SelfUpdateTypeOK, Labels

LEMMA SyncedTyped ==
    ASSUME SelfUpdateTypeOK, Counted, NEW percent \in Percents, NEW label \in Labels,
           NEW sha \in {0} \cup Revisions, updater.state = "running",
           LET p == Written(percent, "work") IN
             /\ file' = p
             /\ updater' = [updater EXCEPT !.pc = label, !.sha = sha, !.log = Logged(p)],
           lastUpdaterId' = lastUpdaterId
    PROVE  ScriptIds
<1>1. /\ file' \in Progress
      /\ updater' \in [id : Nat, state : {"running"}, pc : {label}, sha : {sha}, log : Progress]
      /\ updater'.id = updater.id
  BY IdsAreNumbers, TypesAreWeaker, SyncedWorks
<1> QED
  BY <1>1 DEF ScriptIds, SelfUpdateTypeOK

\* A step of the script keeps the container's id and the types of what it writes.
LEMMA ScriptTyped ==
    ASSUME SelfUpdateTypeOK, Counted, ScriptStep
    PROVE  ScriptIds /\ HostTypes' /\ CallsLive
<1> USE DEF Percents, Labels
<1>0. HostTypes
  BY TypesAreWeaker
<1>1. CASE ScriptBegin
  <2>1. PICK p \in Progress : p = [percent |-> 4, step |-> "work"]
    <3>1. [percent |-> 4, step |-> "work"] \in Progress
      BY DEF Progress
    <3> QED
      BY <3>1
  <2>2. /\ file' = p /\ updater' = [updater EXCEPT !.pc = "resolve", !.log = p]
        /\ updater.state = "running" /\ UNCHANGED <<stackOnHost, lastUpdaterId>> /\ CallsLive
    BY <1>1, <2>1 DEF ScriptBegin, Script, CallsLive
  <2>3. ScriptIds
    BY <2>1, <2>2 DEF ScriptIds, SelfUpdateTypeOK
  <2> QED
    BY <1>0, <2>2, <2>3 DEF HostTypes, stackOnHost
<1>2. CASE ScriptResolve
  <2>1. /\ updater.state = "running" /\ UNCHANGED <<stackOnHost, lastUpdaterId>> /\ CallsLive
    BY <1>2 DEF ScriptResolve, Script, CallsLive
  <2>2. CASE Exit
    BY <1>0, <2>1, <2>2, ExitTyped DEF HostTypes, stackOnHost
  <2>3. CASE ~Exit
    <3>1. LET p == Written(12, "work") IN
            /\ file' = p
            /\ updater' = [updater EXCEPT !.pc = "sync", !.sha = remoteHead, !.log = Logged(p)]
      BY <1>2, <2>3 DEF ScriptResolve
    <3>2. 12 \in Percents /\ "sync" \in Labels /\ remoteHead \in {0} \cup Revisions
      BY <1>0 DEF HostTypes
    <3> QED
      BY <1>0, <2>1, <3>1, <3>2, SyncedTyped DEF HostTypes, stackOnHost
  <2> QED
    BY <2>2, <2>3
<1>3. CASE ScriptSync
  <2>1. /\ updater.state = "running" /\ CallsLive
        /\ UNCHANGED <<remoteHead, image, running, revision, lastUpdaterId>>
    BY <1>3 DEF ScriptSync, Script, CallsLive
  <2>2. CASE Exit /\ UNCHANGED source
    BY <1>0, <2>1, <2>2, ExitTyped DEF HostTypes
  <2>3. CASE ~(Exit /\ UNCHANGED source)
    <3>1. source' = remoteHead
      BY <1>3, <2>3 DEF ScriptSync
    <3>2. PICK sha \in {remoteHead, updater.sha} :
             LET p == Written(22, "work") IN
             /\ file' = p
             /\ updater' = [updater EXCEPT !.pc = "rebuild", !.sha = sha, !.log = Logged(p)]
      BY <1>3, <2>3 DEF ScriptSync
    <3>3. 22 \in Percents /\ "rebuild" \in Labels /\ sha \in {0} \cup Revisions
      BY SMTT(30), <1>0, <3>2 DEF HostTypes, SelfUpdateTypeOK
    <3>4. ScriptIds
      BY ZenonT(30), <2>1, <3>2, <3>3, SyncedTyped
    <3> QED
      BY <1>0, <2>1, <3>1, <3>4 DEF HostTypes
  <2> QED
    BY <2>2, <2>3
<1>4. CASE ScriptRebuild \/ ScriptWatch \/ ScriptPrune
  <2>1. PICK percent \in Percents, step \in {"work", "done"}, label \in Labels,
             state \in {"running", "exited"} :
          Report(percent, step, label, state) /\ updater.state = "running"
    <3>1. CASE ScriptRebuild
      BY <3>1 DEF ScriptRebuild, Script
    <3>2. CASE ScriptWatch
      <4>1. PICK percent \in Watched : Report(percent, "work", updater.pc, "running")
        BY <3>2 DEF ScriptWatch
      <4>2. percent \in Percents
        BY VersionsAssumption
      <4>3. updater.state = "running" /\ updater.pc \in {"build", "up"}
        BY <3>2 DEF ScriptWatch, Script
      <4> QED
        BY <4>1, <4>2, <4>3
    <3>3. CASE ScriptPrune
      BY <3>3 DEF ScriptPrune, Script
    <3> QED
      BY <1>4, <3>1, <3>2, <3>3
  <2>2. UNCHANGED <<stackOnHost, lastUpdaterId>> /\ CallsLive
    BY <1>4 DEF ScriptRebuild, ScriptWatch, ScriptPrune, CallsLive
  <2>3. ScriptIds
    BY <2>1, <2>2, ReportTyped
  <2> QED
    BY SMTT(30), <1>0, <2>2, <2>3 DEF HostTypes, stackOnHost
<1>5. CASE ScriptBuild
  <2>1. /\ updater.state = "running" /\ CallsLive
        /\ UNCHANGED <<remoteHead, source, running, revision, lastUpdaterId>>
        /\ image' \in {image, source}
    BY <1>5 DEF ScriptBuild, Script, CallsLive
  <2>2. HostTypes'
    BY <1>0, <2>1 DEF HostTypes
  <2>3. CASE ComposeFails
    <3>1. Report(0, "error", "end", "exited") /\ 0 \in Percents /\ "end" \in Labels
      BY <2>3 DEF ComposeFails
    <3> QED
      BY <2>1, <2>2, <3>1, ReportTyped
  <2>4. CASE ~ComposeFails
    BY <1>5, <2>1, <2>2, <2>4 DEF ScriptBuild, ScriptIds, SelfUpdateTypeOK
  <2> QED
    BY <2>3, <2>4
<1>6. CASE ScriptUp
  <2>1. /\ updater.state = "running" /\ CallsLive
        /\ UNCHANGED <<remoteHead, source, image, revision, lastUpdaterId>>
        /\ running' \in {running, image}
    BY <1>6 DEF ScriptUp, Script, CallsLive
  <2>2. HostTypes'
    BY <1>0, <2>1 DEF HostTypes
  <2>3. CASE ComposeFails
    <3>1. Report(0, "error", "end", "exited") /\ 0 \in Percents /\ "end" \in Labels
      BY <2>3 DEF ComposeFails
    <3> QED
      BY <2>1, <2>2, <3>1, ReportTyped
  <2>4. CASE ~ComposeFails
    <3>1. PICK log \in {updater.log, [percent |-> 28, step |-> "work"]} :
               \/ updater' = [updater EXCEPT !.pc = "mark", !.log = log] /\ UNCHANGED file
               \/ LET p == Written(0, "error") IN
                  /\ file' = p
                  /\ updater' = [updater EXCEPT !.pc = "end", !.state = "exited", !.log = p]
      BY <1>6, <2>4 DEF ScriptUp
    <3>2. log \in Progress
      BY DEF Progress, SelfUpdateTypeOK
    <3>3. Written(0, "error") \in Progress
      BY TypesAreWeaker, ProgressKeeps
    <3>4. ScriptIds
      BY <2>1, <3>1, <3>2, <3>3 DEF ScriptIds, SelfUpdateTypeOK
    <3> QED
      BY <2>1, <2>2, <3>4
  <2> QED
    BY <2>3, <2>4
<1>7. CASE ScriptMark
  <2>1. /\ updater.state = "running" /\ CallsLive
        /\ UNCHANGED <<remoteHead, source, image, running, lastUpdaterId>>
        /\ revision' \in {revision, updater.sha}
    BY <1>7 DEF ScriptMark, Script, CallsLive
  <2>2. HostTypes'
    BY <1>0, <2>1 DEF HostTypes, SelfUpdateTypeOK
  <2>3. \/ Report(95, "work", "prune", "running") \/ Report(93, "work", "end", "exited")
    BY <1>7 DEF ScriptMark
  <2> QED
    BY <2>1, <2>2, <2>3, ReportTyped
<1>8. CASE ScriptHang
  <2>1. /\ updater.state = "running" /\ CallsLive /\ UNCHANGED <<stackOnHost, lastUpdaterId, file>>
        /\ updater' = [updater EXCEPT !.pc = "hung"]
    BY <1>8 DEF ScriptHang, Script, CallsLive
  <2>2. ScriptIds
    BY <2>1 DEF ScriptIds, SelfUpdateTypeOK
  <2> QED
    BY <1>0, <2>1, <2>2 DEF HostTypes, stackOnHost
<1> QED
  BY <1>1, <1>2, <1>3, <1>4, <1>5, <1>6, <1>7, <1>8 DEF ScriptStep

SelfTypeInv == SelfUpdateTypeOK /\ Counted

\* There are no more updaters than calls.
LEMMA CountIsBounded ==
    ASSUME NEW S \in SUBSET Clicks
    PROVE  IsFiniteSet(S) /\ Cardinality(S) \in UpdaterIds
<1>1. IsFiniteSet(S) /\ Cardinality(S) <= Cardinality(Clicks)
  BY ClicksAssumption, FS_Subset
<1>2. Cardinality(S) \in Nat /\ Cardinality(Clicks) \in Nat
  BY <1>1, ClicksAssumption, FS_CardinalityType
<1> QED
  BY <1>1, <1>2 DEF UpdaterIds

\* The calls that only go on: no id is given out.
LEMMA SameIds ==
    ASSUME SelfTypeInv, HostTypes', CallTypes', file' \in Progress,
           updater' \in [id : UpdaterIds, state : {"none", "created", "running", "exited"},
                         pc : Labels, sha : {0} \cup Revisions, log : Progress],
           lastUpdaterId' = lastUpdaterId,
           \A c \in Clicks :
              /\ click'[c].id = click[c].id
              /\ click'[c].pc \in {"idle", "inspect", "status", "pull", "remove", "create"}
                   => click[c].pc \in {"idle", "inspect", "status", "pull", "remove", "create"}
              /\ click'[c].pc = "start" => click[c].pc = "start",
           \/ updater'.id = updater.id /\ (updater'.state = "none" <=> updater.state = "none")
           \/ updater' = NoUpdater
    PROVE  SelfTypeInv'
<1>1. SelfUpdateTypeOK'
  BY DEF SelfTypeInv, SelfUpdateTypeOK, HostTypes, CallTypes, ClickLabels
<1>2. {c \in Clicks : click'[c].id # 0} = {c \in Clicks : click[c].id # 0}
  OBVIOUS
<1>3. lastUpdaterId' = Cardinality({c \in Clicks : click'[c].id # 0})
  BY <1>2 DEF SelfTypeInv, Counted
<1>4. Counted'
  <2>1. /\ updater'.state = "none" => updater'.id = 0
        /\ updater'.state # "none" => updater'.id = lastUpdaterId' /\ updater'.id > 0
    BY DEF SelfTypeInv, Counted, NoUpdater
  <2>2. \A c \in Clicks :
         /\ click'[c].pc \in {"idle", "inspect", "status", "pull", "remove", "create"}
              => click'[c].id = 0
         /\ click'[c].pc = "start" => click'[c].id # 0
    BY DEF SelfTypeInv, Counted
  <2> QED
    BY <1>3, <2>1, <2>2 DEF Counted
<1> QED
  BY <1>1, <1>4 DEF SelfTypeInv

LEMMA ClickTyped ==
    ASSUME SelfTypeInv, NEW c \in Clicks, ClickCall(c) \/ ClickStep(c)
    PROVE  SelfTypeInv'
<1>0. /\ SelfUpdateTypeOK /\ Counted /\ SelfTypes /\ HostTypes /\ CallTypes
      /\ updater \in [id : UpdaterIds, state : {"none", "created", "running", "exited"},
                      pc : Labels, sha : {0} \cup Revisions, log : Progress]
      /\ file \in Progress
  BY TypesAreWeaker DEF SelfTypeInv, SelfUpdateTypeOK
<1>1. UNCHANGED <<remoteHead, source, image, running, revision, file>>
  BY DEF ClickCall, ClickStep, ClickInspect, ClickStatus, ClickPull, ClickRemove, ClickCreate,
         ClickStart, stackOnHost
<1>2. HostTypes' /\ file' \in Progress
  BY <1>0, <1>1 DEF HostTypes
<1>3. CASE ClickCall(c)
  <2>1. LastStarted \in UpdaterIds
    BY <1>0, IdsAreNumbers DEF SelfTypes, SelfUpdateTypeOK, LastStarted, UpdaterIds
  <2>2. CallTypes' /\ UNCHANGED <<updater, lastUpdaterId>>
    <3>1. PICK to \in ClickLabels :
            click' = [click EXCEPT ![c] = [click[c] EXCEPT !.pc = to, !.seen = LastStarted]]
      BY <1>3 DEF ClickCall, ClickLabels
    <3>2. click' = [click EXCEPT ![c] = [click[c] EXCEPT !.pc = to, !.seen = LastStarted]]
      BY <1>0, <3>1 DEF CallTypes
    <3>3. UNCHANGED <<updater, lastUpdaterId, updateInFlight, finalizers>>
      BY <1>3 DEF ClickCall
    <3> QED
      BY <1>0, <2>1, <3>2, <3>3 DEF CallTypes
  <2>3. \A d \in Clicks :
              /\ click'[d].id = click[d].id
              /\ click'[d].pc \in {"idle", "inspect", "status", "pull", "remove", "create"}
                   => click[d].pc \in {"idle", "inspect", "status", "pull", "remove", "create"}
              /\ click'[d].pc = "start" => click[d].pc = "start"
    BY <1>0, <1>3 DEF ClickCall, CallTypes, AtClick
  <2> QED
    BY <1>0, <1>2, <2>2, <2>3, SameIds
<1>4. ASSUME NEW to \in ClickLabels, click' = [click EXCEPT ![c].pc = to],
             to # "start",
             to \in {"idle", "inspect", "status", "pull", "remove", "create"}
               => click[c].pc \in {"idle", "inspect", "status", "pull", "remove", "create"},
             updateInFlight' \in BOOLEAN, finalizers' \subseteq UpdaterIds,
             lastUpdaterId' = lastUpdaterId,
             \/ updater' = updater \/ updater' = NoUpdater
             \/ /\ updater.state # "none"
                /\ updater' = [updater EXCEPT !.state = "running", !.pc = "begin"]
      PROVE  SelfTypeInv'
  <2>1. CallTypes'
    BY <1>0, <1>4 DEF CallTypes
  <2>2. \A d \in Clicks :
              /\ click'[d].id = click[d].id
              /\ click'[d].pc \in {"idle", "inspect", "status", "pull", "remove", "create"}
                   => click[d].pc \in {"idle", "inspect", "status", "pull", "remove", "create"}
              /\ click'[d].pc = "start" => click[d].pc = "start"
    BY <1>0, <1>4 DEF CallTypes
  <2>3. /\ updater' \in [id : UpdaterIds, state : {"none", "created", "running", "exited"},
                         pc : Labels, sha : {0} \cup Revisions, log : Progress]
        /\ \/ updater'.id = updater.id /\ (updater'.state = "none" <=> updater.state = "none")
           \/ updater' = NoUpdater
    BY <1>0, <1>4, NoneIsTyped DEF Labels
  <2> QED
    BY <1>2, <1>4, <2>1, <2>2, <2>3, SameIds
<1>9. ASSUME click' = [click EXCEPT ![c] =
                         [click[c] EXCEPT !.pc = "status", !.inspection = "fails"]],
             click[c].pc = "inspect",
             UNCHANGED <<updater, lastUpdaterId, updateInFlight, finalizers>>
      PROVE  SelfTypeInv'
  <2>1. PICK q : q = [click[c] EXCEPT !.pc = "status", !.inspection = "fails"]
    OBVIOUS
  <2>2. /\ q \in [pc : ClickLabels, id : UpdaterIds, seen : UpdaterIds, inspection : Inspections]
        /\ q.pc = "status" /\ q.id = click[c].id
    BY <1>0, <2>1 DEF CallTypes, ClickLabels, Inspections
  <2>3. click' = [click EXCEPT ![c] = q]
    BY <1>9, <2>1
  <2>4. CallTypes'
    BY <1>0, <1>9, <2>2, <2>3 DEF CallTypes
  <2>5. /\ click'[c] = q /\ \A d \in Clicks \ {c} : click'[d] = click[d]
    BY <1>0, <2>3 DEF CallTypes
  <2>6. \A d \in Clicks :
              /\ click'[d].id = click[d].id
              /\ click'[d].pc \in {"idle", "inspect", "status", "pull", "remove", "create"}
                   => click[d].pc \in {"idle", "inspect", "status", "pull", "remove", "create"}
              /\ click'[d].pc = "start" => click[d].pc = "start"
    BY <1>9, <2>2, <2>5
  <2> QED
    BY <1>0, <1>2, <1>9, <2>4, <2>6, SameIds
<1>5. CASE \/ ClickInspect(c) /\ (ClickGoes(c, "refused") \/ ClickGoes(c, "status"))
           \/ ClickStatus(c) \/ ClickPull(c) \/ ClickRemove(c)
  <2>1. PICK to \in ClickLabels :
          /\ click' = [click EXCEPT ![c].pc = to] /\ to # "start"
          /\ click[c].pc \in {"inspect", "status", "pull", "remove"}
    BY <1>5 DEF ClickInspect, ClickStatus, ClickPull, ClickRemove, ClickGoes, Answer, AtClick,
                ClickLabels
  <2>2. /\ updateInFlight' \in BOOLEAN /\ finalizers' \subseteq UpdaterIds
        /\ lastUpdaterId' = lastUpdaterId /\ updater' \in {updater, NoUpdater}
    BY <1>0, <1>5 DEF ClickInspect, ClickStatus, ClickPull, ClickRemove, Answer, CallTypes
  <2> QED
    BY <1>4, <2>1, <2>2
<1>6. CASE (ClickCreate(c) \/ ClickStart(c)) /\ Answer(c, "failed")
  <2>1. click' = [click EXCEPT ![c].pc = "failed"] /\ updateInFlight' = FALSE
    BY <1>6 DEF Answer, ClickGoes
  <2>2. CASE UNCHANGED <<updater, lastUpdaterId, finalizers>>
    BY <1>0, <1>4, <2>1, <2>2 DEF ClickLabels, CallTypes
  <2>3. UNCHANGED <<updater, lastUpdaterId, finalizers>>
    <3>1. CASE ClickCreate(c)
      <4>1. click'[c].pc = "failed"
        BY <1>0, <2>1 DEF CallTypes
      <4>2. ASSUME click' = [click EXCEPT ![c] =
                               [click[c] EXCEPT !.pc = "start", !.id = lastUpdaterId + 1]]
            PROVE  FALSE
        <5>1. click'[c].pc = "start"
          BY <1>0, <4>2 DEF CallTypes
        <5> QED
          BY <4>1, <5>1
      <4> QED
        BY <3>1, <4>2 DEF ClickCreate
    <3>2. CASE ClickStart(c)
      BY <1>0, <2>1, <3>2 DEF ClickStart, Answer, ClickGoes, AtClick, CallTypes
    <3> QED
      BY <1>6, <3>1, <3>2
  <2> QED
    BY <2>2, <2>3
<1>7. CASE ClickCreate(c) /\ ~Answer(c, "failed")
  <2>1. /\ updater.state = "none" /\ lastUpdaterId' = lastUpdaterId + 1
        /\ updater' = [NoUpdater EXCEPT !.id = lastUpdaterId + 1, !.state = "created"]
        /\ click' = [click EXCEPT ![c] = [click[c] EXCEPT !.pc = "start", !.id = lastUpdaterId + 1]]
        /\ UNCHANGED <<updateInFlight, finalizers>> /\ click[c].pc = "create"
    BY <1>7 DEF ClickCreate, AtClick
  <2> DEFINE S == {d \in Clicks : click[d].id # 0}
             T == {d \in Clicks : click'[d].id # 0}
  <2>6. /\ \A d \in Clicks \ {c} : click'[d] = click[d]
        /\ click'[c].id = lastUpdaterId + 1 /\ click'[c].pc = "start"
    BY <1>0, <2>1 DEF CallTypes
  <2>2. T = S \cup {c} /\ c \notin S /\ S \in SUBSET Clicks /\ T \in SUBSET Clicks
    BY <1>0, <2>1, <2>6 DEF Counted, SelfTypes
  <2>3. IsFiniteSet(S) /\ Cardinality(T) \in UpdaterIds
    BY <2>2, CountIsBounded
  <2>4. Cardinality(T) = lastUpdaterId + 1 /\ lastUpdaterId \in Nat
    BY <1>0, <2>2, <2>3, FS_AddElement DEF Counted, SelfTypes
  <2>5. lastUpdaterId' \in UpdaterIds /\ lastUpdaterId' > 0
    BY <2>1, <2>3, <2>4
  <2>7. CallTypes'
    <3>1. PICK q : q = [click[c] EXCEPT !.pc = "start", !.id = lastUpdaterId + 1]
      OBVIOUS
    <3>2. q \in [pc : ClickLabels, id : UpdaterIds, seen : UpdaterIds, inspection : Inspections]
      BY <1>0, <2>1, <2>5, <3>1 DEF CallTypes, ClickLabels
    <3>3. click' = [click EXCEPT ![c] = q]
      BY <2>1, <3>1
    <3> QED
      BY <1>0, <2>1, <2>5, <3>2, <3>3 DEF CallTypes
  <2>8. /\ updater' \in [id : UpdaterIds, state : {"created"}, pc : Labels,
                         sha : {0} \cup Revisions, log : Progress]
        /\ updater'.id = lastUpdaterId' /\ updater'.state = "created"
    BY <2>1, <2>5, NoneIsTyped
  <2>9. \A d \in Clicks :
          /\ d # c => click'[d] = click[d]
          /\ d = c => click'[d].pc = "start" /\ click'[d].id # 0
    BY <2>1, <2>5, <2>6
  <2>10. Counted'
    BY ZenonT(30), <1>0, <2>1, <2>4, <2>5, <2>8, <2>9 DEF Counted
  <2> QED
    BY <1>2, <2>5, <2>7, <2>8, <2>10
    DEF SelfTypeInv, SelfUpdateTypeOK, HostTypes, CallTypes, ClickLabels
<1>8. CASE ClickStart(c) /\ ~Answer(c, "failed")
  <2>1. /\ updater.id = click[c].id /\ click[c].pc = "start" /\ lastUpdaterId' = lastUpdaterId
        /\ updater' = [updater EXCEPT !.state = "running", !.pc = "begin"]
        /\ click' = [click EXCEPT ![c].pc = "ok"] /\ updateInFlight' = FALSE
        /\ finalizers' = finalizers \cup {updater.id}
    BY <1>8 DEF ClickStart, AtClick, Answer, ClickGoes
  <2>2. updater.state # "none"
    BY <1>0, <2>1 DEF Counted
  <2>3. finalizers' \subseteq UpdaterIds
    BY <1>0, <2>1 DEF CallTypes
  <2> QED
    BY <1>4, <2>1, <2>2, <2>3 DEF ClickLabels
<1>10. CASE ClickInspect(c) /\ ~ ClickGoes(c, "refused") /\ ~ ClickGoes(c, "status")
  <2>1. click' = [click EXCEPT ![c] =
                    [click[c] EXCEPT !.pc = "status", !.inspection = "fails"]]
    BY <1>10 DEF ClickInspect
  <2>2. click[c].pc = "inspect" /\ UNCHANGED <<updater, lastUpdaterId, updateInFlight, finalizers>>
    BY <1>10 DEF ClickInspect, AtClick
  <2> QED
    BY <1>9, <2>1, <2>2
<1> QED
  BY <1>3, <1>5, <1>6, <1>7, <1>8, <1>10 DEF ClickStep

LEMMA SelfTypeStep ==
    ASSUME SelfTypeInv, [SelfUpdateNext]_selfUpdateVars
    PROVE  SelfTypeInv'
<1>0. /\ SelfUpdateTypeOK /\ Counted /\ SelfTypes /\ HostTypes /\ CallTypes
      /\ updater \in [id : UpdaterIds, state : {"none", "created", "running", "exited"},
                      pc : Labels, sha : {0} \cup Revisions, log : Progress]
      /\ file \in Progress
  BY TypesAreWeaker DEF SelfTypeInv, SelfUpdateTypeOK
<1>1. CASE Push
  <2>1. HostTypes'
    BY <1>0, <1>1, VersionsAssumption DEF Push, HostTypes, Revisions
  <2> QED
    BY <1>0, <1>1, <2>1, SameIds DEF Push, CallTypes
<1>2. ASSUME NEW i \in UpdaterIds, Finalize(i) PROVE SelfTypeInv'
  <2>1. HostTypes' /\ CallTypes'
    BY <1>0, <1>2 DEF Finalize, HostTypes, CallTypes, stackOnHost
  <2>2. \/ updater' = NoUpdater \/ updater' = updater
        \/ updater' = [updater EXCEPT !.pc = "left"]
    BY <1>0, <1>2 DEF Finalize
  <2>3. /\ updater' \in [id : UpdaterIds, state : {"none", "created", "running", "exited"},
                         pc : Labels, sha : {0} \cup Revisions, log : Progress]
        /\ \/ updater'.id = updater.id /\ (updater'.state = "none" <=> updater.state = "none")
           \/ updater' = NoUpdater
    BY <1>0, <2>2, NoneIsTyped DEF Labels
  <2> QED
    BY <1>0, <1>2, <2>1, <2>3, SameIds DEF Finalize
<1>3. CASE ScriptStep
  <2>1. ScriptIds /\ HostTypes' /\ CallsLive
    BY <1>0, <1>3, ScriptTyped
  <2>2. CallTypes'
    <3>1. CASE ApiRestart
      <4>1. click' \in [Clicks -> [pc : ClickLabels, id : UpdaterIds, seen : UpdaterIds,
                                   inspection : Inspections]]
        BY <1>0, <3>1 DEF ApiRestart, CallTypes, ClickLabels
      <4> QED
        BY <3>1, <4>1 DEF ApiRestart, CallTypes
    <3> QED
      BY <1>0, <2>1, <3>1 DEF CallsLive, CallTypes
  <2>3. \A c \in Clicks : click'[c].id = click[c].id /\ click'[c].pc \in {click[c].pc, "lost"}
    BY <1>0, <2>1 DEF CallsLive, ApiRestart, CallTypes
  <2> QED
    BY <1>0, <2>1, <2>2, <2>3, SameIds DEF ScriptIds
<1>4. CASE UNCHANGED selfUpdateVars
  BY <1>4 DEF selfUpdateVars, SelfTypeInv, SelfUpdateTypeOK, Counted
<1> QED
  BY <1>1, <1>2, <1>3, <1>4, ClickTyped DEF SelfUpdateNext

LEMMA SelfTypeInit == SelfUpdateInit => SelfTypeInv
<1> SUFFICES ASSUME SelfUpdateInit PROVE SelfTypeInv
  OBVIOUS
<1>1. {c \in Clicks : click[c].id # 0} = {}
  BY DEF SelfUpdateInit
<1>2. Counted
  BY <1>1, FS_EmptySet DEF SelfUpdateInit, Counted, NoUpdater
<1>3. [percent |-> 100, step |-> "done"] \in Progress
  BY DEF Progress, Percents
<1> QED
  BY <1>2, <1>3, IdsAreNumbers, NoneIsTyped, VersionsAssumption
  DEF SelfUpdateInit, SelfTypeInv, SelfUpdateTypeOK, Revisions, Inspections

\* What is in place of Dockora, the updater's container and the calls keep their types, whether
\* or not a revision file has been written (self-update.service.ts:72).
THEOREM SelfUpdateTypesStay == SelfUpdateSpec => []SelfUpdateTypeOK
  BY SelfTypeInit, SelfTypeStep, PTL DEF SelfUpdateSpec, SelfTypeInv

--------------------------------------------------------------------------------
\* The progress of an update of Dockora

\* What is shown of an updater that works is what it has written down: the log is not ahead of the
\* file, and from the rebuild on the file has the percentage that the log is cut back to.
Advancing ==
    /\ file.step = "work" /\ updater.log.percent <= file.percent
    /\ updater.pc \in {"build", "up"} => file.percent >= 28

ProgressInv == updater.state = "running" /\ updater.pc # "begin" => Advancing

ProgressSteps ==
    (updater.state = "running" /\ updater.pc # "begin" /\ updater'.id = updater.id)
      => Shown'.percent >= Shown.percent

LEMMA ShownIsWritten ==
    ASSUME SelfUpdateTypeOK, Advancing
    PROVE  Shown.percent = file.percent
BY DEF Shown, Advancing, SelfUpdateTypeOK, Progress, Percents

LEMMA WrittenIsLogged ==
    ASSUME SelfUpdateTypeOK, Advancing, NEW percent \in Percents,
           NEW step \in {"none", "work", "error", "done"}
    PROVE  /\ Written(percent, step).step = step
           /\ Written(percent, step).percent >= file.percent
           /\ Written(percent, step).percent >= percent
           /\ Logged(Written(percent, step)) = Written(percent, step)
<1>1. /\ file.percent \in Nat /\ updater.log.percent \in Nat /\ percent \in Nat
      /\ updater.log.percent <= file.percent
  BY DEF Advancing, SelfUpdateTypeOK, Progress, Percents
<1> QED
  BY <1>1 DEF Written, Logged, Larger

\* A report of a script that goes on or ends.
LEMMA ReportGoesForward ==
    ASSUME SelfUpdateTypeOK, SelfUpdateTypeOK', Advancing, NEW percent \in Percents,
           NEW step \in {"none", "work", "error", "done"},
           file' = Written(percent, step), updater'.log = Logged(Written(percent, step)),
           updater'.state = "running" =>
             step = "work" /\ (updater'.pc \in {"build", "up"} =>
                                 percent >= 28 \/ updater.pc \in {"build", "up"})
    PROVE  ProgressInv' /\ ProgressSteps
<1>1. /\ file'.step = step /\ file'.percent >= file.percent /\ file'.percent >= percent
      /\ updater'.log = file'
  BY WrittenIsLogged
<1>2. /\ file'.percent \in Nat /\ file.percent \in Nat /\ percent \in Nat
      /\ file.percent >= 28 \/ updater.pc \notin {"build", "up"}
  BY DEF SelfUpdateTypeOK, Advancing, Progress, Percents
<1>3. ProgressInv'
  BY <1>1, <1>2 DEF ProgressInv, Advancing
<1>4. Shown' = file'
  BY <1>1 DEF Shown
<1>5. Shown.percent = file.percent
  BY ShownIsWritten
<1> QED
  BY <1>1, <1>3, <1>4, <1>5 DEF ProgressSteps

\* A step that reports nothing and does not come to the rebuild.
LEMMA SilentStep ==
    ASSUME ProgressInv, file' = file, updater'.log = updater.log,
           updater'.state = "running" /\ updater'.pc # "begin" =>
             /\ updater.state = "running" /\ updater.pc # "begin"
             /\ updater'.pc \in {"build", "up"} => updater.pc \in {"build", "up"}
    PROVE  ProgressInv' /\ (SelfUpdateTypeOK => ProgressSteps)
<1>1. Shown' = Shown
  BY DEF Shown
<1>2. SelfUpdateTypeOK => Shown.percent \in Nat
  BY DEF Shown, SelfUpdateTypeOK, Progress, Percents
<1> QED
  BY <1>1, <1>2 DEF ProgressInv, Advancing, ProgressSteps

LEMMA ScriptGoesForward ==
    ASSUME SelfUpdateTypeOK, SelfUpdateTypeOK', ProgressInv, ScriptStep
    PROVE  ProgressInv' /\ ProgressSteps
<1> USE DEF Percents
<1>1. CASE ScriptBegin
  <2>1. /\ updater.pc = "begin" /\ updater'.pc = "resolve" /\ updater'.log = file'
        /\ file'.step = "work" /\ file'.percent = 4
    BY <1>1 DEF ScriptBegin, Script, SelfUpdateTypeOK
  <2> QED
    BY <2>1 DEF ProgressInv, Advancing, ProgressSteps
<1>2. ASSUME ~ScriptBegin PROVE Advancing /\ updater.state = "running" /\ updater.pc # "begin"
  BY <1>2 DEF ScriptStep, ScriptResolve, ScriptSync, ScriptRebuild, ScriptWatch, ScriptBuild,
              ScriptUp, ScriptMark, ScriptPrune, ScriptHang, Script, ProgressInv
<1>3. ASSUME Exit, ~ScriptBegin PROVE ProgressInv' /\ ProgressSteps
  <2>1. file' = file /\ updater'.log = updater.log /\ updater'.state = "exited"
    BY <1>3 DEF Exit, SelfUpdateTypeOK
  <2> QED
    BY <1>2, <1>3, <2>1, SilentStep
<1>4. ASSUME NEW percent \in Percents, NEW step \in {"work", "error", "done"},
             NEW label, NEW state, Report(percent, step, label, state), ~ScriptBegin,
             state = "running" =>
               step = "work" /\ (label \in {"build", "up"} =>
                                   percent >= 28 \/ updater.pc \in {"build", "up"})
      PROVE  ProgressInv' /\ ProgressSteps
  <2>1. /\ file' = Written(percent, step) /\ updater'.log = Logged(Written(percent, step))
        /\ updater'.state = state /\ updater'.pc = label
    BY <1>4 DEF Report, SelfUpdateTypeOK
  <2> QED
    BY <1>2, <1>4, <2>1, ReportGoesForward
<1>5. CASE ScriptResolve /\ ~ScriptBegin /\ ~Exit
  <2>1. /\ file' = Written(12, "work") /\ updater'.log = Logged(Written(12, "work"))
        /\ updater'.pc = "sync"
    BY <1>5 DEF ScriptResolve, SelfUpdateTypeOK
  <2> QED
    BY <1>2, <1>5, <2>1, ReportGoesForward
<1>6. CASE ScriptSync /\ ~ScriptBegin /\ ~Exit
  <2>1. /\ file' = Written(22, "work") /\ updater'.log = Logged(Written(22, "work"))
        /\ updater'.pc = "rebuild"
    BY <1>6 DEF ScriptSync, SelfUpdateTypeOK
  <2> QED
    BY <1>2, <1>6, <2>1, ReportGoesForward
<1>7. CASE ScriptRebuild /\ ~ScriptBegin
  BY <1>4, <1>7 DEF ScriptRebuild
<1>8. CASE ScriptWatch /\ ~ScriptBegin
  <2>1. PICK percent \in Watched : Report(percent, "work", updater.pc, "running")
    BY <1>8 DEF ScriptWatch
  <2>2. percent \in Percents /\ percent >= 28
    BY VersionsAssumption
  <2> QED
    BY <1>4, <1>8, <2>1, <2>2
<1>9. CASE (ScriptPrune \/ ScriptMark) /\ ~ScriptBegin
  <2>1. \/ Report(100, "done", "end", "exited") \/ Report(95, "work", "prune", "running")
        \/ Report(93, "work", "end", "exited")
    BY <1>9 DEF ScriptPrune, ScriptMark
  <2> QED
    BY <1>4, <1>9, <2>1
<1>10. CASE ComposeFails /\ ~ScriptBegin
  BY <1>4, <1>10 DEF ComposeFails
<1>11. CASE ScriptBuild /\ ~ScriptBegin /\ ~ComposeFails
  <2>1. /\ file' = file /\ updater'.log = updater.log /\ updater.pc = "build"
    BY <1>11 DEF ScriptBuild, Script, SelfUpdateTypeOK
  <2> QED
    BY <1>2, <1>11, <2>1, SilentStep
<1>12. CASE ScriptUp /\ ~ScriptBegin /\ ~ComposeFails
  <2>1. PICK log \in {updater.log, [percent |-> 28, step |-> "work"]} :
               \/ updater' = [updater EXCEPT !.pc = "mark", !.log = log] /\ UNCHANGED file
               \/ LET p == Written(0, "error") IN
                  /\ file' = p
                  /\ updater' = [updater EXCEPT !.pc = "end", !.state = "exited", !.log = p]
    BY <1>12 DEF ScriptUp
  <2>2. Advancing /\ updater.pc = "up" /\ file.percent \in Nat /\ file.percent >= 28
        /\ updater.log.percent <= file.percent /\ updater.log.percent \in Nat
    BY <1>2, <1>12 DEF ScriptUp, Script, Advancing, SelfUpdateTypeOK, Progress
  <2>3. CASE updater' = [updater EXCEPT !.pc = "mark", !.log = log] /\ UNCHANGED file
    <3>1. /\ updater'.pc = "mark" /\ updater'.log = log /\ log.percent <= file.percent
          /\ log.percent \in Nat /\ file' = file /\ file.step = "work"
      BY <2>1, <2>2, <2>3 DEF SelfUpdateTypeOK, Advancing
    <3>2. Advancing'
      BY <3>1 DEF Advancing
    <3>3. Shown.percent = file.percent /\ Shown'.percent = file'.percent
      <4>1. Shown'.percent = file'.percent
        BY <2>2, <3>1 DEF Shown
      <4> QED
        BY <2>2, <4>1, ShownIsWritten
    <3> QED
      BY <2>2, <3>1, <3>2, <3>3 DEF ProgressInv, ProgressSteps
  <2>4. CASE ~(updater' = [updater EXCEPT !.pc = "mark", !.log = log] /\ UNCHANGED file)
    <3>1. /\ file' = Written(0, "error") /\ updater'.log = Written(0, "error")
          /\ updater'.state = "exited"
      BY <2>1, <2>4 DEF SelfUpdateTypeOK
    <3>2. Logged(Written(0, "error")) = Written(0, "error")
      BY <2>2, WrittenIsLogged
    <3> QED
      BY <2>2, <3>1, <3>2, ReportGoesForward
  <2> QED
    BY <2>3, <2>4
<1>13. CASE ScriptHang /\ ~ScriptBegin
  <2>1. file' = file /\ updater'.log = updater.log /\ updater'.pc = "hung"
    BY <1>13 DEF ScriptHang, SelfUpdateTypeOK
  <2> QED
    BY <1>2, <1>13, <2>1, SilentStep
<1> QED
  BY <1>1, <1>3, <1>5, <1>6, <1>7, <1>8, <1>9, <1>10, <1>11, <1>12, <1>13 DEF ScriptStep

LEMMA SelfGoesForward ==
    SelfTypeInv /\ SelfTypeInv' /\ ProgressInv /\ [SelfUpdateNext]_selfUpdateVars
      => ProgressInv' /\ [ProgressSteps]_selfUpdateVars
<1> SUFFICES ASSUME SelfTypeInv, SelfTypeInv', ProgressInv, [SelfUpdateNext]_selfUpdateVars
             PROVE  ProgressInv' /\ [ProgressSteps]_selfUpdateVars
  OBVIOUS
<1>0. SelfUpdateTypeOK /\ SelfUpdateTypeOK' /\ (updater.state # "none" => updater.id > 0)
  BY DEF SelfTypeInv, Counted
\* The updater is left alone, or gone.
<1>1. ASSUME file' = file, updater' = updater \/ updater' = NoUpdater
      PROVE  ProgressInv' /\ ProgressSteps
  <2>1. CASE updater' = updater
    BY <1>0, <1>1, <2>1, SilentStep DEF ProgressInv
  <2>2. CASE updater' = NoUpdater
    <3>1. updater'.state = "none" /\ updater'.id = 0
      BY <2>2 DEF NoUpdater
    <3> QED
      BY <1>0, <3>1 DEF ProgressInv, ProgressSteps
  <2> QED
    BY <1>1, <2>1, <2>2
<1>2. CASE Push
  BY <1>1, <1>2 DEF Push
<1>6. ASSUME NEW i \in UpdaterIds, Finalize(i) PROVE ProgressInv' /\ ProgressSteps
  <2>1. CASE updater' = NoUpdater \/ updater' = updater
    BY <1>1, <1>6, <2>1 DEF Finalize
  <2>2. CASE updater' # NoUpdater /\ updater' # updater
    <3>1. /\ file' = file /\ updater.pc = "hung"
          /\ updater' = [updater EXCEPT !.pc = "left"]
      BY <1>0, <1>6, <2>2 DEF Finalize, SelfUpdateTypeOK
    <3>2. /\ updater'.log = updater.log /\ updater'.state = updater.state
          /\ updater'.pc = "left"
      BY <1>0, <3>1 DEF SelfUpdateTypeOK
    <3> QED
      BY <1>0, <3>1, <3>2, SilentStep
  <2> QED
    BY <2>1, <2>2
<1>3. CASE UNCHANGED selfUpdateVars
  BY <1>1, <1>3 DEF selfUpdateVars
<1>4. ASSUME NEW c \in Clicks, ClickCall(c) \/ ClickStep(c) PROVE ProgressInv' /\ ProgressSteps
  <2>1. CASE ClickCreate(c) /\ updater' # updater
    <3>1. updater.state = "none" /\ updater'.state = "created"
      BY <2>1 DEF ClickCreate, NoUpdater
    <3> QED
      BY <3>1 DEF ProgressInv, ProgressSteps
  <2>2. CASE ClickStart(c) /\ updater' # updater
    <3>1. file' = file /\ updater'.log = updater.log /\ updater'.pc = "begin"
      BY <1>0, <2>2 DEF ClickStart, SelfUpdateTypeOK
    <3> QED
      BY <1>0, <3>1, SilentStep
  <2>3. CASE ~(ClickCreate(c) /\ updater' # updater) /\ ~(ClickStart(c) /\ updater' # updater)
    <3>1. file' = file /\ (updater' = updater \/ updater' = NoUpdater)
      BY <1>4, <2>3 DEF ClickCall, ClickStep, ClickInspect, ClickStatus, ClickPull, ClickRemove,
                        ClickCreate, ClickStart
    <3> QED
      BY <1>1, <3>1
  <2> QED
    BY <2>1, <2>2, <2>3
<1>5. CASE ScriptStep
  BY <1>0, <1>5, ScriptGoesForward
<1> QED
  BY <1>2, <1>3, <1>4, <1>5, <1>6 DEF SelfUpdateNext

\* While one updater works the percentage that is shown never goes back, whatever the log of the
\* build loses, and whether or not the API is restarted and a revision is written down
\* (write_progress, self-update-apply.sh.ts:22, and mergeProgress, self-update-progress.ts:81).
THEOREM ProgressGoesForward == SelfUpdateSpec => ProgressMonotone
<1>1. SelfUpdateInit => ProgressInv
  BY DEF SelfUpdateInit, ProgressInv, NoUpdater
<1>2. SelfTypeInv /\ [SelfUpdateNext]_selfUpdateVars => SelfTypeInv'
  BY SelfTypeStep
<1>3. SelfTypeInv /\ SelfTypeInv' /\ ProgressInv /\ [SelfUpdateNext]_selfUpdateVars
      => /\ ProgressInv'
         /\ [(updater.state = "running" /\ updater.pc # "begin" /\ updater'.id = updater.id)
                => Shown'.percent >= Shown.percent]_selfUpdateVars
  BY SelfGoesForward DEF ProgressSteps
<1> QED
  BY <1>1, <1>2, <1>3, SelfTypeInit, PTL DEF SelfUpdateSpec, ProgressMonotone

\* With a .dockora-revision an update of Dockora neither hides nor undoes itself, unless a call
\* fails to inspect the updater, and what is shown of it goes forward (status, apply,
\* isUpdaterRunning and progress, self-update.service.ts:81, 118, 539).
THEOREM UpdateIsKeptAndShown ==
    ASSUME Installed = 1
    PROVE  SelfUpdateSpec => UpdatesHold
BY SelfUpdatesAreKept, ProgressGoesForward, PTL DEF UpdatesHold

--------------------------------------------------------------------------------
\* A call alone

\* A call to update Dockora is past its first look and has not answered.
AtWork(c) == click[c].pc \in {"inspect", "status", "pull", "remove", "create", "start"}
OneCallAtATime == \A c, d \in Clicks : AtWork(c) /\ AtWork(d) => c = d

\* Past an inspection that did not fail, a call that is alone finds no updater at work.
NoneRuns ==
    \A c \in Clicks :
        click[c].pc \in {"status", "pull", "remove"} =>
          updater.state # "running" \/ click[c].inspection = "fails"

LEMMA NoneStarts ==
    ASSUME SelfUpdateTypeOK, OneCallAtATime, NoneRuns, [SelfUpdateNext]_selfUpdateVars
    PROVE  NoneRuns'
<1>0. /\ click \in [Clicks -> [pc : ClickLabels, id : UpdaterIds, seen : UpdaterIds,
                               inspection : Inspections]]
      /\ updater \in [id : UpdaterIds, state : {"none", "created", "running", "exited"},
                      pc : Labels, sha : {0} \cup Revisions, log : Progress]
  BY DEF SelfUpdateTypeOK, ClickLabels
\* The calls stay, or move to where they find nothing, and no updater starts.
<1>1. ASSUME \A c \in Clicks : click'[c].pc \in {"status", "pull", "remove"}
                                  => /\ click[c].pc \in {"status", "pull", "remove"}
                                     /\ click'[c].inspection = click[c].inspection,
             updater.state = "running" \/ updater'.state # "running"
      PROVE  NoneRuns'
  BY <1>1 DEF NoneRuns
<1>2. CASE Push \/ UNCHANGED selfUpdateVars
  BY <1>1, <1>2 DEF Push, selfUpdateVars
<1>3. ASSUME NEW i \in UpdaterIds, Finalize(i)
      PROVE  NoneRuns'
  <2>1. click' = click /\ (updater.state = "running" \/ updater'.state # "running")
    BY <1>0, <1>3 DEF Finalize, NoUpdater
  <2> QED
    BY <1>1, <2>1
<1>4. CASE ScriptStep
  <2>1. updater.state = "running"
    BY <1>4 DEF ScriptStep, ScriptBegin, ScriptResolve, ScriptSync, ScriptRebuild, ScriptWatch,
                ScriptBuild, ScriptUp, ScriptMark, ScriptPrune, ScriptHang, Script
  <2>2. click' = click \/ ApiRestart
    BY <1>4 DEF ScriptStep, ScriptBegin, ScriptResolve, ScriptSync, ScriptRebuild, ScriptWatch,
                ScriptBuild, ScriptUp, ScriptMark, ScriptPrune, ScriptHang
  <2>3. \A c \in Clicks : /\ click'[c].pc \in {click[c].pc, "lost"}
                          /\ click'[c].inspection = click[c].inspection
    BY <1>0, <2>2 DEF ApiRestart
  <2> QED
    BY <1>1, <2>1, <2>3
<1>5. ASSUME NEW c \in Clicks, ClickCall(c)
      PROVE  NoneRuns'
  <2>1. \A d \in Clicks : /\ click'[d].pc \in {click[d].pc, "refused", "inspect"}
                          /\ click'[d].inspection = click[d].inspection
    BY <1>0, <1>5 DEF ClickCall
  <2> QED
    BY <1>1, <1>5, <2>1 DEF ClickCall
<1>6. ASSUME NEW c \in Clicks, ClickStep(c)
      PROVE  NoneRuns'
  <2>1. AtWork(c) /\ \A d \in Clicks \ {c} : click'[d] = click[d]
    BY <1>0, <1>6 DEF ClickStep, ClickInspect, ClickStatus, ClickPull, ClickRemove, ClickCreate,
                      ClickStart, ClickGoes, Answer, AtClick, AtWork
  <2>2. \A d \in Clicks : click'[d].pc \in {"status", "pull", "remove"} => d = c
    BY <2>1 DEF OneCallAtATime, AtWork
  <2>3. CASE ClickInspect(c)
    <3>1. CASE ClickGoes(c, IF updater.state = "running" THEN "refused" ELSE "status")
      BY <1>0, <2>2, <2>3, <3>1 DEF ClickInspect, ClickGoes, NoneRuns
    <3>2. CASE click' = [click EXCEPT ![c] =
                           [click[c] EXCEPT !.pc = "status", !.inspection = "fails"]]
      <4>1. click'[c].inspection = "fails"
        BY <1>0, <3>2
      <4> QED
        BY <2>2, <4>1 DEF NoneRuns
    <3> QED
      BY <2>3, <3>1, <3>2 DEF ClickInspect
  <2>4. CASE ClickStatus(c) \/ ClickPull(c) \/ ClickRemove(c)
    <3>1. PICK to : ClickGoes(c, to)
      BY <2>4 DEF ClickStatus, ClickPull, ClickRemove, Answer
    <3>2. click'[c].inspection = click[c].inspection
      BY <1>0, <3>1 DEF ClickGoes
    <3>3. click[c].pc \in {"status", "pull", "remove"}
      BY <2>4 DEF ClickStatus, ClickPull, ClickRemove, AtClick
    <3>4. updater' = updater \/ updater'.state # "running"
      BY <2>4 DEF ClickStatus, ClickPull, ClickRemove, NoUpdater
    <3> QED
      BY <2>2, <3>2, <3>3, <3>4 DEF NoneRuns
  <2>5. CASE ClickCreate(c) \/ ClickStart(c)
    <3>1. \/ ClickGoes(c, "failed") \/ ClickGoes(c, "ok")
          \/ click' = [click EXCEPT ![c] =
                         [click[c] EXCEPT !.pc = "start", !.id = lastUpdaterId + 1]]
      BY <2>5 DEF ClickCreate, ClickStart, Answer
    <3>2. click'[c].pc \in {"failed", "ok", "start"}
      BY <1>0, <3>1 DEF ClickGoes
    <3> QED
      BY <2>2, <3>2 DEF NoneRuns
  <2> QED
    BY <1>6, <2>3, <2>4, <2>5 DEF ClickStep
<1> QED
  BY <1>2, <1>3, <1>4, <1>5, <1>6 DEF SelfUpdateNext

\* Calls that do not overlap replace no updater that works, unless their look at it failed, which
\* isUpdaterRunning takes for there being none: what SelfUpdateClicks shows comes of nothing but
\* calls that overlap, each having looked before the other started its updater, and of such a
\* failure (apply and isUpdaterRunning, self-update.service.ts:118, 539).
THEOREM OneCallIsSafe == SelfUpdateSpec /\ []OneCallAtATime => NoParallelStart
<1>1. SelfUpdateInit => NoneRuns
  BY DEF SelfUpdateInit, NoneRuns
<1>2. SelfUpdateTypeOK /\ OneCallAtATime /\ NoneRuns /\ [SelfUpdateNext]_selfUpdateVars
      => NoneRuns'
  BY NoneStarts
<1>3. NoneRuns => [\A c \in Clicks :
                     TakesRunningUpdater(c) => click[c].inspection = "fails"]_selfUpdateVars
  BY DEF NoneRuns, AtClick, TakesRunningUpdater
<1> QED
  BY <1>1, <1>2, <1>3, SelfUpdateTypesStay, PTL DEF SelfUpdateSpec, NoParallelStart

--------------------------------------------------------------------------------
\* Pages with lists

\* The entries asked for belong to the volume the panel names, if it still names one.
PanelStands ==
    /\ kind # "volumes" => browse.asked = {}
    /\ browse.asked = {} \/ (browse.busy /\ \E v \in BrowseNames :
                               browse.asked = {v} /\ browse.name \in {v, NoVolume})
    /\ EntriesBelong

\* An operation that has failed waits for the list; until then the page shows no error.
WorkStands ==
    /\ work.failed => work.pc = "reloading"
    /\ kind = "compose" /\ work.pc \in {"preview", "confirm", "calling"} => banner # "work"

PagesIInv == ListPagesTypeOK /\ PanelStands /\ WorkStands

LEMMA PagesStart == ListPagesInit => PagesIInv
<1> SUFFICES ASSUME ListPagesInit PROVE PagesIInv
  OBVIOUS
<1>1. ListPagesTypeOK
  BY ListPagesAssumption
  DEF ListPagesInit, ListPagesTypeOK, NoLoad, Rest, Shut, Filters
<1>2. PanelStands /\ WorkStands
  BY DEF ListPagesInit, PanelStands, WorkStands, EntriesBelong, Rest, Shut
<1> QED
  BY <1>1, <1>2 DEF PagesIInv

LoadRows ==
    [LoadIds -> [pc : {"none", "sent", "read"}, filter : Filters, value : 0..MaxListed,
                 for : {"page", "work"}]]

LEMMA AskedHasType ==
    ASSUME NEW ls \in LoadRows, Free(ls) # {}, NEW f \in Filters, NEW for \in {"page", "work"}
    PROVE  Asked(ls, f, for) \in LoadRows
<1>1. PICK l \in LoadIds : l = CHOOSE i \in Free(ls) : TRUE
  BY DEF Free
<1>2. [pc |-> "sent", filter |-> f, value |-> 0, for |-> for]
        \in [pc : {"none", "sent", "read"}, filter : Filters, value : 0..MaxListed,
             for : {"page", "work"}]
  BY ListPagesAssumption
<1> QED
  BY <1>1, <1>2 DEF Asked, LoadRows

\* What a step must show, by what it leaves alone.
LEMMA PanelOutlives ==
    ASSUME PanelStands, UNCHANGED <<kind, browse>>
    PROVE  PanelStands'
BY DEF PanelStands, EntriesBelong

LEMMA ReloadStands ==
    ASSUME PagesIInv, Reloads, visible' \in BOOLEAN, stream' \in [open : BOOLEAN, due : BOOLEAN],
           mishaps' \in 0..MaxMishaps
    PROVE  PagesIInv'
<1>1. loads' \in LoadRows
  BY AskedHasType DEF Reloads, PagesIInv, ListPagesTypeOK, LoadRows
<1>2. banner' \in {banner, "none"}
  BY DEF Reloads, AtLoad
<1>3. UNCHANGED <<kind, listed, filter, list, work, browse>>
  BY DEF Reloads
<1>4. ListPagesTypeOK'
  BY <1>1, <1>2, <1>3 DEF PagesIInv, ListPagesTypeOK, LoadRows
<1>5. PanelStands' /\ WorkStands'
  BY <1>2, <1>3, PanelOutlives DEF PagesIInv, WorkStands
<1> QED
  BY <1>4, <1>5 DEF PagesIInv

\* Steps of the host, the stream, the tab and the filter.
LEMMA LoadingStands ==
    ASSUME PagesIInv,
           \/ HostChanges \/ EventFires \/ Fallback \/ TabHides \/ TabShows
           \/ EventStreamBreaks \/ EventStreamReturns \/ RefreshClicked
           \/ \E f \in Filters : FilterTyped(f)
           \/ \E b \in BOOLEAN : FilterApplied(b)
    PROVE  PagesIInv'
<1>0. ListPagesTypeOK /\ PanelStands /\ WorkStands
  BY DEF PagesIInv
<1>1. CASE HostChanges \/ EventStreamBreaks \/ EventStreamReturns \/ TabHides
           \/ \E f \in Filters : FilterTyped(f)
  <2>1. UNCHANGED <<kind, loads, list, banner, work, browse>>
    BY <1>1 DEF HostChanges, EventStreamBreaks, EventStreamReturns, TabHides, FilterTyped
  <2>2. stream' \in [open : BOOLEAN, due : BOOLEAN] /\ visible' \in BOOLEAN
    <3>0. stream \in [open : BOOLEAN, due : BOOLEAN] /\ visible \in BOOLEAN
      BY <1>0 DEF ListPagesTypeOK
    <3>1. CASE HostChanges \/ EventStreamReturns
      BY <3>0, <3>1 DEF HostChanges, EventStreamReturns
    <3>2. CASE EventStreamBreaks
      <4>1. PICK due \in {FALSE, stream.due} : stream' = [open |-> FALSE, due |-> due]
        BY <3>2 DEF EventStreamBreaks
      <4>2. due \in BOOLEAN /\ visible' = visible
        BY <3>0, <3>2 DEF EventStreamBreaks
      <4> QED
        BY <3>0, <4>1, <4>2
    <3>3. CASE TabHides \/ \E f \in Filters : FilterTyped(f)
      BY <3>0, <3>3 DEF TabHides, FilterTyped
    <3> QED
      BY <1>1, <3>1, <3>2, <3>3
  <2>3. listed' \in 0..MaxListed /\ mishaps' \in 0..MaxMishaps
    BY <1>0, <1>1, ListPagesAssumption
    DEF HostChanges, EventStreamBreaks, EventStreamReturns, TabHides, FilterTyped,
        ListPagesTypeOK, Mishap
  <2>4. filter' \in [typed : Filters, applied : Filters]
    BY <1>0, <1>1 DEF HostChanges, EventStreamBreaks, EventStreamReturns, TabHides, FilterTyped,
                      ListPagesTypeOK
  <2>5. ListPagesTypeOK'
    BY <1>0, <2>1, <2>2, <2>3, <2>4 DEF ListPagesTypeOK
  <2> QED
    BY <1>0, <2>1, <2>5, PanelOutlives DEF PagesIInv, WorkStands
<1>2. CASE EventFires \/ Fallback \/ TabShows
  <2>1. /\ stream' \in [open : BOOLEAN, due : BOOLEAN] /\ visible' \in BOOLEAN
        /\ mishaps' \in 0..MaxMishaps
    BY <1>0, <1>2 DEF EventFires, Fallback, TabShows, ListPagesTypeOK
  <2>2. CASE Reloads
    BY <2>1, <2>2, ReloadStands
  <2>3. CASE ~Reloads
    <3>1. UNCHANGED <<kind, listed, filter, loads, list, banner, work, browse>>
      BY <1>2, <2>3 DEF EventFires, Fallback, TabShows
    <3>2. ListPagesTypeOK'
      BY <1>0, <2>1, <3>1 DEF ListPagesTypeOK
    <3> QED
      BY <1>0, <3>1, <3>2, PanelOutlives DEF PagesIInv, WorkStands
  <2> QED
    BY <2>2, <2>3
<1>3. CASE RefreshClicked \/ \E b \in BOOLEAN : FilterApplied(b)
  <2>0. loads \in LoadRows /\ {filter.applied, filter.typed} \subseteq Filters
    BY <1>0 DEF ListPagesTypeOK, LoadRows
  <2>1. UNCHANGED <<kind, listed, visible, stream, list, work, browse, mishaps>>
    BY <1>3 DEF RefreshClicked, FilterApplied
  <2>2. banner' \in {banner, "none"}
    BY <1>3 DEF RefreshClicked, FilterApplied, AtLoad
  <2>3. filter' \in [typed : Filters, applied : Filters]
    BY <1>0, <1>3 DEF RefreshClicked, FilterApplied, ListPagesTypeOK
  <2>4. loads' \in LoadRows
    <3>1. CASE RefreshClicked
      BY <2>0, <3>1, AskedHasType DEF RefreshClicked
    <3>2. CASE \E b \in BOOLEAN : FilterApplied(b)
      <4>1. PICK b \in BOOLEAN : FilterApplied(b)
        BY <3>2
      <4>2. PICK ls : ls = IF b THEN Asked(loads, filter.applied, "page") ELSE loads
        OBVIOUS
      <4>3. Free(loads) # {} /\ Free(ls) # {} /\ loads' = Asked(ls, filter.typed, "page")
        BY <4>1, <4>2 DEF FilterApplied
      <4>4. ls \in LoadRows
        BY <2>0, <4>2, <4>3, AskedHasType
      <4> QED
        BY <2>0, <4>3, <4>4, AskedHasType
    <3> QED
      BY <1>3, <3>1, <3>2
  <2>5. ListPagesTypeOK'
    BY <1>0, <2>1, <2>2, <2>3, <2>4 DEF ListPagesTypeOK, LoadRows
  <2> QED
    BY <1>0, <2>1, <2>2, <2>5, PanelOutlives DEF PagesIInv, WorkStands
<1> QED
  BY <1>1, <1>2, <1>3

\* The list arrives, or does not.
LEMMA AnsweringStands ==
    ASSUME PagesIInv, NEW l \in LoadIds, ListIsRead(l) \/ ListArrives(l) \/ ListFails(l)
    PROVE  PagesIInv'
<1>0. ListPagesTypeOK /\ PanelStands /\ WorkStands
  BY DEF PagesIInv
<1>1. UNCHANGED <<kind, listed, visible, stream, filter, browse>>
  BY DEF ListIsRead, ListArrives, ListFails
<1>2. loads' \in LoadRows
  <2>1. CASE ListIsRead(l)
    <3>1. loads \in LoadRows /\ listed \in 0..MaxListed
      BY <1>0 DEF ListPagesTypeOK, LoadRows
    <3>2. PICK row : row = [loads[l] EXCEPT !.pc = "read", !.value = listed]
      OBVIOUS
    <3>3. row \in [pc : {"none", "sent", "read"}, filter : Filters, value : 0..MaxListed,
                   for : {"page", "work"}]
      BY <3>1, <3>2 DEF LoadRows
    <3>4. loads' = [loads EXCEPT ![l] = row]
      BY <2>1, <3>1, <3>2 DEF ListIsRead, LoadRows
    <3> QED
      BY <3>1, <3>3, <3>4 DEF LoadRows
  <2>2. CASE ListArrives(l) \/ ListFails(l)
    <3>1. loads' = [loads EXCEPT ![l] = NoLoad]
      BY <2>2 DEF ListArrives, ListFails
    <3>2. NoLoad \in [pc : {"none", "sent", "read"}, filter : Filters, value : 0..MaxListed,
                      for : {"page", "work"}]
      BY ListPagesAssumption DEF NoLoad, Filters
    <3> QED
      BY <1>0, <3>1, <3>2 DEF ListPagesTypeOK, LoadRows
  <2> QED
    BY <2>1, <2>2
<1>3. list' \in [value : 0..MaxListed, filter : Filters] /\ mishaps' \in 0..MaxMishaps
  BY <1>0, ListPagesAssumption DEF ListIsRead, ListArrives, ListFails, ListPagesTypeOK, Mishap
<1>4. \/ banner' \in {banner, "load"} /\ work' \in {work, Rest}
      \/ banner' = "work" /\ work' = Rest
  BY DEF ListIsRead, ListArrives, ListFails, AfterReload
<1>5. Rest \in [pc : {"idle", "preview", "confirm", "calling", "reloading"},
                how : {"direct", "confirmed"}, left : 0..MaxBulk, failed : BOOLEAN]
      /\ Rest.pc = "idle" /\ ~Rest.failed
  BY ListPagesAssumption DEF Rest
<1>6. ListPagesTypeOK'
  BY <1>0, <1>1, <1>2, <1>3, <1>4, <1>5 DEF ListPagesTypeOK, LoadRows
<1>7. WorkStands'
  BY <1>0, <1>1, <1>4, <1>5 DEF WorkStands
<1> QED
  BY <1>0, <1>1, <1>6, <1>7, PanelOutlives DEF PagesIInv

\* Operations.
LEMMA WorkingStands ==
    ASSUME PagesIInv,
           WorkAsked \/ Previews \/ Cancels \/ CallFails \/ \E n \in 1..MaxBulk : Confirms(n)
    PROVE  PagesIInv'
<1>0. ListPagesTypeOK /\ PanelStands /\ WorkStands
  BY DEF PagesIInv
<1> DEFINE WorkStates == [pc : {"idle", "preview", "confirm", "calling", "reloading"},
                     how : {"direct", "confirmed"}, left : 0..MaxBulk, failed : BOOLEAN]
<1>1. Rest \in WorkStates /\ Rest.pc = "idle" /\ ~Rest.failed /\ work \in WorkStates
  BY <1>0, ListPagesAssumption DEF Rest, ListPagesTypeOK
<1>2. CASE WorkAsked \/ Previews \/ Cancels \/ \E n \in 1..MaxBulk : Confirms(n)
  <2>1. UNCHANGED <<kind, listed, visible, stream, filter, loads, list, browse>>
    BY <1>2 DEF WorkAsked, Previews, Cancels, Confirms
  <2>2. banner' \in {"none", "load", "work"} /\ mishaps' \in 0..MaxMishaps
    <3>0. banner \in {"none", "load", "work"} /\ mishaps \in 0..MaxMishaps
      BY <1>0 DEF ListPagesTypeOK
    <3>1. CASE WorkAsked
      BY <3>0, <3>1 DEF WorkAsked
    <3>2. CASE Previews
      BY <3>0, <3>2, ListPagesAssumption DEF Previews, Mishap
    <3>3. CASE Cancels
      BY <3>0, <3>3 DEF Cancels
    <3>4. CASE \E n \in 1..MaxBulk : Confirms(n)
      BY <3>0, <3>4 DEF Confirms
    <3> QED
      BY <1>2, <3>1, <3>2, <3>3, <3>4
  <2>3. work' \in WorkStates /\ WorkStands'
    <3>1. CASE WorkAsked
      <4>1. PICK pc \in {"preview", "confirm", "calling"} :
              /\ work' = [Rest EXCEPT !.pc = pc, !.left = IF kind = "updates" THEN 0 ELSE 1]
              /\ kind = "compose" => banner' = "none"
        BY <3>1 DEF WorkAsked
      <4>2. PICK left : left = IF kind = "updates" THEN 0 ELSE 1
        OBVIOUS
      <4>3. left \in 0..MaxBulk
        BY <4>2, ListPagesAssumption
      <4>4. work' \in WorkStates /\ ~work'.failed
        BY <1>1, <4>1, <4>2, <4>3
      <4>5. kind' = kind
        BY <3>1 DEF WorkAsked
      <4> QED
        BY <4>1, <4>4, <4>5 DEF WorkStands
    <3>2. CASE Previews
      BY <1>0, <1>1, <3>2 DEF Previews, WorkStands
    <3>3. CASE Cancels
      BY <1>0, <1>1, <3>3 DEF Cancels, WorkStands
    <3>4. CASE \E n \in 1..MaxBulk : Confirms(n)
      <4>1. PICK n \in 1..MaxBulk : Confirms(n)
        BY <3>4
      <4>2. work' = [work EXCEPT !.pc = "calling", !.how = "confirmed", !.left = n]
            /\ (kind = "compose" => banner' = "none") /\ kind' = kind /\ work.pc = "confirm"
        BY <4>1 DEF Confirms
      <4>3. n \in 0..MaxBulk
        BY ListPagesAssumption
      <4>4. work' \in WorkStates /\ work'.failed = work.failed
        BY <1>1, <4>2, <4>3
      <4> QED
        BY <1>0, <4>2, <4>4 DEF WorkStands
    <3> QED
      BY <1>2, <3>1, <3>2, <3>3, <3>4
  <2>4. ListPagesTypeOK'
    BY <1>0, <2>1, <2>2, <2>3 DEF ListPagesTypeOK
  <2> QED
    BY <1>0, <2>1, <2>3, <2>4, PanelOutlives DEF PagesIInv
<1>3. CASE CallFails
  <2>1. UNCHANGED <<kind, listed, visible, stream, filter, list, browse>>
    BY <1>3 DEF CallFails
  <2>2. mishaps' \in 0..MaxMishaps
    BY <1>0, <1>3, ListPagesAssumption DEF CallFails, Mishap, ListPagesTypeOK
  <2>3. loads \in LoadRows /\ filter.applied \in Filters
    BY <1>0 DEF ListPagesTypeOK, LoadRows
  <2>4. loads' \in LoadRows
    BY <1>3, <2>3, AskedHasType DEF CallFails
  <2>5. work' \in WorkStates /\ banner' \in {"none", "load", "work"} /\ WorkStands'
    <3>0. banner \in {"none", "load", "work"} /\ 0 \in 0..MaxBulk /\ kind' = kind
      BY <1>0, <1>3, ListPagesAssumption DEF ListPagesTypeOK, CallFails
    <3>1. CASE work' = Rest /\ banner' = "work"
      BY <1>1, <3>1 DEF WorkStands
    <3>2. CASE /\ work' = [work EXCEPT !.pc = "reloading", !.left = 0, !.failed = TRUE]
               /\ banner' \in {"none", banner}
      <4>1. work' \in WorkStates /\ work'.pc = "reloading"
        BY <1>1, <3>0, <3>2
      <4> QED
        BY <3>0, <3>2, <4>1 DEF WorkStands
    <3> QED
      BY <1>3, <3>1, <3>2 DEF CallFails, AtLoad
  <2>6. ListPagesTypeOK'
    BY <1>0, <2>1, <2>2, <2>4, <2>5 DEF ListPagesTypeOK, LoadRows
  <2> QED
    BY <1>0, <2>1, <2>5, <2>6, PanelOutlives DEF PagesIInv
<1> QED
  BY <1>2, <1>3

LEMMA SucceedingStands ==
    ASSUME PagesIInv, CallSucceeds
    PROVE  PagesIInv'
<1>0. ListPagesTypeOK /\ PanelStands /\ WorkStands
  BY DEF PagesIInv
<1> DEFINE WorkStates == [pc : {"idle", "preview", "confirm", "calling", "reloading"},
                     how : {"direct", "confirmed"}, left : 0..MaxBulk, failed : BOOLEAN]
<1>1. Rest \in WorkStates /\ Rest.pc = "idle" /\ ~Rest.failed /\ work \in WorkStates
  BY <1>0, ListPagesAssumption DEF Rest, ListPagesTypeOK
<1>2. UNCHANGED <<kind, listed, visible, stream, filter, mishaps>>
  BY DEF CallSucceeds
<1>3. loads \in LoadRows /\ filter.applied \in Filters /\ listed \in 0..MaxListed
  BY <1>0 DEF ListPagesTypeOK, LoadRows
<1>4. loads' \in LoadRows /\ list' \in [value : 0..MaxListed, filter : Filters]
  BY <1>0, <1>3, AskedHasType DEF CallSucceeds, ListPagesTypeOK
<1>5. banner' \in {banner, "none"}
  BY DEF CallSucceeds, AtLoad
<1>6. work' \in WorkStates /\ (work'.failed => work.failed)
      /\ (work'.pc = "calling" => work.pc = "calling")
      /\ work'.pc \in {"calling", "reloading", "idle"} /\ work.pc = "calling"
  <2>1. CASE work.left > 1 /\ work' = [work EXCEPT !.left = @ - 1]
    <3>1. work.left - 1 \in 0..MaxBulk
      BY <1>1, <2>1, ListPagesAssumption
    <3> QED
      BY <1>1, <2>1, <3>1 DEF CallSucceeds
  <2>2. CASE work' = [work EXCEPT !.pc = "reloading", !.left = 0]
    <3>1. 0 \in 0..MaxBulk
      BY ListPagesAssumption
    <3> QED
      BY <1>1, <2>2, <3>1 DEF CallSucceeds
  <2>3. CASE work' = Rest
    BY <1>1, <2>3 DEF CallSucceeds
  <2> QED
    BY <2>1, <2>2, <2>3 DEF CallSucceeds
<1>7. WorkStands'
  BY <1>0, <1>2, <1>5, <1>6 DEF WorkStands
<1>8. /\ browse' \in [name : BrowseNames \cup {NoVolume}, entries : BrowseNames \cup {NoVolume},
                      busy : BOOLEAN, asked : SUBSET BrowseNames]
      /\ PanelStands'
  <2>1. CASE browse' = browse
    BY <1>0, <1>2, <2>1, PanelOutlives DEF ListPagesTypeOK
  <2>2. CASE browse' # browse
    <3>1. browse' = [browse EXCEPT !.name = NoVolume, !.entries = NoVolume]
          /\ kind = "volumes"
      BY <2>2 DEF CallSucceeds
    <3> QED
      BY <1>0, <1>2, <3>1 DEF ListPagesTypeOK, PanelStands, EntriesBelong
  <2> QED
    BY <2>1, <2>2
<1>9. ListPagesTypeOK'
  BY <1>0, <1>2, <1>4, <1>5, <1>6, <1>8 DEF ListPagesTypeOK, LoadRows
<1> QED
  BY <1>7, <1>8, <1>9 DEF PagesIInv

\* The volumes page's panel.
LEMMA BrowsingStands ==
    ASSUME PagesIInv,
           \/ BrowseCloses
           \/ \E v \in BrowseNames : BrowseOpens(v) \/ BrowseArrives(v) \/ BrowseFails(v)
    PROVE  PagesIInv'
<1>0. ListPagesTypeOK /\ PanelStands /\ WorkStands
  BY DEF PagesIInv
<1>1. UNCHANGED <<kind, listed, visible, stream, filter, loads, list, work>>
  BY DEF BrowseCloses, BrowseOpens, BrowseArrives, BrowseFails
<1>2. banner' \in {banner, "none", "load"} /\ mishaps' \in 0..MaxMishaps
  <2>0. mishaps \in 0..MaxMishaps
    BY <1>0 DEF ListPagesTypeOK
  <2>1. banner' \in {banner, "none", "load"}
    BY DEF BrowseCloses, BrowseOpens, BrowseArrives, BrowseFails
  <2>2. mishaps' = mishaps \/ Mishap
    BY DEF BrowseCloses, BrowseOpens, BrowseArrives, BrowseFails
  <2>3. mishaps' \in 0..MaxMishaps
    BY <2>0, <2>2, ListPagesAssumption DEF Mishap
  <2> QED
    BY <2>1, <2>3
<1>3. /\ browse' \in [name : BrowseNames \cup {NoVolume}, entries : BrowseNames \cup {NoVolume},
                      busy : BOOLEAN, asked : SUBSET BrowseNames]
      /\ PanelStands'
  <2>0. browse \in [name : BrowseNames \cup {NoVolume}, entries : BrowseNames \cup {NoVolume},
                    busy : BOOLEAN, asked : SUBSET BrowseNames]
    BY <1>0 DEF ListPagesTypeOK
  <2>1. CASE BrowseCloses
    BY <1>0, <2>0, <2>1 DEF BrowseCloses, PanelStands, EntriesBelong
  <2>2. CASE \E v \in BrowseNames : BrowseOpens(v)
    BY <1>0, <2>0, <2>2 DEF BrowseOpens, PanelStands, EntriesBelong
  <2>3. CASE \E v \in BrowseNames : BrowseArrives(v)
    <3>1. PICK v \in BrowseNames : BrowseArrives(v)
      BY <2>3
    <3>2. browse.asked = {v} /\ browse.name \in {v, NoVolume}
      BY <1>0, <3>1 DEF BrowseArrives, PanelStands
    <3>3. browse' = [browse EXCEPT !.entries = v, !.busy = FALSE, !.asked = {}]
      BY <2>0, <3>1, <3>2 DEF BrowseArrives
    <3> QED
      BY <1>1, <2>0, <3>2, <3>3 DEF PanelStands, EntriesBelong
  <2>4. CASE \E v \in BrowseNames : BrowseFails(v)
    <3>1. PICK v \in BrowseNames : BrowseFails(v)
      BY <2>4
    <3>2. browse.asked = {v}
      <4>1. v \in browse.asked
        BY <3>1 DEF BrowseFails
      <4>2. PICK w \in BrowseNames : browse.asked = {w}
        BY <1>0, <4>1 DEF PanelStands
      <4> QED
        BY <4>1, <4>2
    <3>3. browse' = [browse EXCEPT !.name = NoVolume, !.busy = FALSE, !.asked = {}]
      BY <2>0, <3>1, <3>2 DEF BrowseFails
    <3> QED
      BY <1>1, <2>0, <3>3 DEF PanelStands, EntriesBelong
  <2> QED
    BY <2>1, <2>2, <2>3, <2>4
<1>4. ListPagesTypeOK'
  BY <1>0, <1>1, <1>2, <1>3 DEF ListPagesTypeOK
<1>5. WorkStands'
  BY <1>0, <1>1, <1>2 DEF WorkStands
<1> QED
  BY <1>3, <1>4, <1>5 DEF PagesIInv

LEMMA PagesStepStands ==
    ASSUME PagesIInv, [ListPagesNext]_listVars
    PROVE  PagesIInv'
<1>1. CASE UNCHANGED listVars
  BY <1>1 DEF listVars, PagesIInv, ListPagesTypeOK, PanelStands, EntriesBelong, WorkStands
<1>2. CASE ListPagesNext
  BY <1>2, LoadingStands, AnsweringStands, WorkingStands, SucceedingStands, BrowsingStands
  DEF ListPagesNext
<1> QED
  BY <1>1, <1>2

\* The steps after which the compose page shows the failure of an operation, or no longer.
FailureIsSaid ==
    kind = "compose" =>
      /\ (work.failed /\ work'.pc = "idle") => banner' = "work"
      /\ (banner = "work" /\ banner' # "work") =>
            \/ RefreshClicked \/ WorkAsked \/ \E n \in 1..MaxBulk : Confirms(n)
            \/ \E l \in LoadIds : ListFails(l)

LEMMA StepsSayFailures ==
    ASSUME PagesIInv, ListPagesNext
    PROVE  FailureIsSaid
<1> SUFFICES ASSUME kind = "compose"
             PROVE  /\ (work.failed /\ work'.pc = "idle") => banner' = "work"
                    /\ (banner = "work" /\ banner' # "work") =>
                          \/ RefreshClicked \/ WorkAsked \/ \E n \in 1..MaxBulk : Confirms(n)
                          \/ \E l \in LoadIds : ListFails(l)
  BY DEF FailureIsSaid
<1>0. ListPagesTypeOK /\ PanelStands /\ WorkStands
  BY DEF PagesIInv
<1>1. CASE HostChanges \/ EventFires \/ Fallback \/ TabHides \/ TabShows \/ EventStreamBreaks
           \/ EventStreamReturns
  BY <1>0, <1>1 DEF HostChanges, EventFires, Fallback, TabHides, TabShows, EventStreamBreaks,
                    EventStreamReturns, Reloads, AtLoad, WorkStands
<1>2. CASE (\E f \in Filters : FilterTyped(f)) \/ (\E b \in BOOLEAN : FilterApplied(b))
  BY <1>2 DEF FilterTyped, FilterApplied
<1>3. CASE RefreshClicked \/ WorkAsked \/ \E n \in 1..MaxBulk : Confirms(n)
  BY <1>0, <1>3 DEF RefreshClicked, WorkAsked, Confirms, WorkStands
<1>4. CASE \E l \in LoadIds : ListIsRead(l) \/ ListArrives(l) \/ ListFails(l)
  <2>1. PICK l \in LoadIds : ListIsRead(l) \/ ListArrives(l) \/ ListFails(l)
    BY <1>4
  <2>2. CASE ListIsRead(l)
    BY <1>0, <2>2 DEF ListIsRead, WorkStands
  <2>3. CASE ListArrives(l)
    BY <1>0, <2>3 DEF ListArrives, AfterReload, WorkStands
  <2>4. CASE ListFails(l)
    BY <1>0, <2>4 DEF ListFails, AfterReload, WorkStands
  <2> QED
    BY <2>1, <2>2, <2>3, <2>4
<1>5. CASE Previews \/ Cancels
  BY <1>0, <1>5 DEF Previews, Cancels, WorkStands
<1>6. CASE CallSucceeds \/ CallFails
  BY <1>0, <1>6 DEF CallSucceeds, CallFails, WorkStands
<1>7. CASE BrowseCloses
           \/ \E v \in BrowseNames : BrowseOpens(v) \/ BrowseArrives(v) \/ BrowseFails(v)
  BY <1>0, <1>7 DEF BrowseCloses, BrowseOpens, BrowseArrives, BrowseFails, WorkStands,
                    PanelStands
<1> QED
  BY <1>1, <1>2, <1>3, <1>4, <1>5, <1>6, <1>7 DEF ListPagesNext

\* Whatever answers cross on a page with a list: the entries shown belong to the volume they are
\* shown under, and the compose page says that an operation has failed until the user does
\* something or a load fails (volumes-page.tsx:123, compose-list-page.tsx:59, 188).
THEOREM PagesAreTrue == ListPagesSpec => PageIsTrue
<1>1. PagesIInv /\ [ListPagesNext]_listVars => PagesIInv'
  BY PagesStepStands
<1>2. PagesIInv /\ PagesIInv' /\ [ListPagesNext]_listVars =>
        [/\ EntriesBelong'
         /\ kind = "compose" =>
            /\ (work.failed /\ work'.pc = "idle") => banner' = "work"
            /\ (banner = "work" /\ banner' # "work") =>
                  \/ RefreshClicked \/ WorkAsked \/ \E n \in 1..MaxBulk : Confirms(n)
                  \/ \E l \in LoadIds : ListFails(l)]_listVars
  BY StepsSayFailures DEF FailureIsSaid, PagesIInv, PanelStands
<1> QED
  BY <1>1, <1>2, PagesStart, PTL DEF ListPagesSpec, PageIsTrue

\* The state of a page with a list keeps its types (containers-page.tsx:48).
THEOREM ListPagesTypes == ListPagesSpec => []ListPagesTypeOK
<1>1. PagesIInv /\ [ListPagesNext]_listVars => PagesIInv'
  BY PagesStepStands
<1>2. PagesIInv => ListPagesTypeOK
  BY DEF PagesIInv
<1> QED
  BY <1>1, <1>2, PagesStart, PTL DEF ListPagesSpec

--------------------------------------------------------------------------------
\* The buttons of a page with a list

\* A load that an operation waits for.
LoadOfWork(l) == loads[l].pc # "none" /\ loads[l].for = "work"

\* An operation that reloads the list waits for one load, which is under way, and a disabled browse
\* button for the entries of a volume that were asked for.
NoButtonHangs ==
    /\ work.pc = "reloading" <=> \E l \in LoadIds : LoadOfWork(l)
    /\ \A l, m \in LoadIds : LoadOfWork(l) /\ LoadOfWork(m) => l = m
    /\ browse.busy => browse.asked # {}

\* A load that the page asks for is no operation's.
LEMMA AskedIsNew ==
    ASSUME NEW ls \in LoadRows, Free(ls) # {}, NEW f, NEW for
    PROVE  \E l \in LoadIds : /\ ls[l].pc = "none"
                              /\ Asked(ls, f, for)[l].pc = "sent" /\ Asked(ls, f, for)[l].for = for
                              /\ \A m \in LoadIds \ {l} : Asked(ls, f, for)[m] = ls[m]
<1>1. PICK l \in LoadIds : l = (CHOOSE i \in Free(ls) : TRUE) /\ ls[l].pc = "none"
  BY DEF Free
<1> QED
  BY <1>1 DEF Asked, LoadRows

LEMMA ButtonsStart == ListPagesInit => NoButtonHangs
BY DEF ListPagesInit, NoButtonHangs, LoadOfWork, NoLoad, Rest, Shut

LEMMA ButtonsKeep ==
    ASSUME PagesIInv, NoButtonHangs, [ListPagesNext]_listVars
    PROVE  NoButtonHangs'
<1>0. loads \in LoadRows /\ ListPagesTypeOK
  BY DEF PagesIInv, ListPagesTypeOK, LoadRows
<1>w. work \in [pc : {"idle", "preview", "confirm", "calling", "reloading"},
                how : {"direct", "confirmed"}, left : 0..MaxBulk, failed : BOOLEAN]
  BY <1>0 DEF ListPagesTypeOK
<1>b. browse \in [name : BrowseNames \cup {NoVolume}, entries : BrowseNames \cup {NoVolume},
                  busy : BOOLEAN, asked : SUBSET BrowseNames]
  BY <1>0 DEF ListPagesTypeOK
\* No load of an operation comes or goes.
<1>1. ASSUME \A l \in LoadIds : LoadOfWork(l)' <=> LoadOfWork(l),
             work'.pc = "reloading" <=> work.pc = "reloading",
             browse'.busy => browse'.asked # {}
      PROVE  NoButtonHangs'
  BY <1>1 DEF NoButtonHangs
<1>2. CASE UNCHANGED <<loads, work, browse>>
  BY <1>2 DEF NoButtonHangs, LoadOfWork
<1>3. ASSUME NEW f, loads' = Asked(loads, f, "page"), Free(loads) # {},
             UNCHANGED <<work, browse>>
      PROVE  NoButtonHangs'
  <2>1. PICK l \in LoadIds : /\ loads[l].pc = "none" /\ loads'[l].for = "page"
                             /\ \A m \in LoadIds \ {l} : loads'[m] = loads[m]
    BY <1>0, <1>3, AskedIsNew
  <2> QED
    BY <1>1, <1>3, <2>1 DEF NoButtonHangs, LoadOfWork
<1>4. CASE EventFires \/ Fallback \/ TabShows \/ RefreshClicked
  BY <1>2, <1>3, <1>4 DEF EventFires, Fallback, TabShows, RefreshClicked, Reloads
<1>5. ASSUME NEW b \in BOOLEAN, FilterApplied(b)
      PROVE  NoButtonHangs'
  <2>1. PICK ls : ls = IF b THEN Asked(loads, filter.applied, "page") ELSE loads
    OBVIOUS
  <2>2. /\ Free(loads) # {} /\ Free(ls) # {} /\ loads' = Asked(ls, filter.typed, "page")
        /\ UNCHANGED <<work, browse>>
    BY <1>5, <2>1 DEF FilterApplied
  <2>3. ls \in LoadRows
    BY <1>0, <2>1, <2>2, AskedHasType DEF ListPagesTypeOK
  <2>4. \A l \in LoadIds : ls[l].pc # "none" /\ ls[l].for = "work" <=> LoadOfWork(l)
    <3>1. CASE b
      <4>1. PICK l \in LoadIds : /\ loads[l].pc = "none" /\ ls[l].for = "page"
                                 /\ \A m \in LoadIds \ {l} : ls[m] = loads[m]
        BY <1>0, <2>1, <2>2, <3>1, AskedIsNew
      <4> QED
        BY <4>1 DEF LoadOfWork
    <3>2. CASE ~b
      BY <2>1, <3>2 DEF LoadOfWork
    <3> QED
      BY <3>1, <3>2
  <2>5. PICK l \in LoadIds : /\ ls[l].pc = "none" /\ loads'[l].for = "page"
                             /\ \A m \in LoadIds \ {l} : loads'[m] = ls[m]
    BY <2>2, <2>3, AskedIsNew
  <2> QED
    BY <1>1, <2>2, <2>4, <2>5 DEF NoButtonHangs, LoadOfWork
<1>6. ASSUME NEW l \in LoadIds, ListIsRead(l)
      PROVE  NoButtonHangs'
  <2>1. /\ loads'[l].pc = "read" /\ loads'[l].for = loads[l].for /\ loads[l].pc = "sent"
        /\ \A m \in LoadIds \ {l} : loads'[m] = loads[m]
        /\ UNCHANGED <<work, browse>>
    BY <1>0, <1>6 DEF ListIsRead, LoadRows
  <2> QED
    BY <1>1, <2>1 DEF NoButtonHangs, LoadOfWork
<1>7. ASSUME NEW l \in LoadIds, ListArrives(l) \/ ListFails(l)
      PROVE  NoButtonHangs'
  <2>1. /\ loads'[l].pc = "none" /\ loads[l].pc # "none" /\ UNCHANGED browse
        /\ \A m \in LoadIds \ {l} : loads'[m] = loads[m]
        /\ IF loads[l].for = "work" THEN work' = Rest ELSE UNCHANGED work
    BY <1>0, <1>7 DEF ListArrives, ListFails, AfterReload, NoLoad, LoadRows
  <2>2. CASE loads[l].for = "work"
    BY <2>1, <2>2 DEF NoButtonHangs, LoadOfWork, Rest
  <2>3. CASE loads[l].for # "work"
    BY <1>1, <2>1, <2>3 DEF NoButtonHangs, LoadOfWork
  <2> QED
    BY <2>2, <2>3
<1>8. CASE WorkAsked \/ Previews \/ Cancels \/ \E n \in 1..MaxBulk : Confirms(n)
  <2>1. work.pc # "reloading" /\ UNCHANGED <<loads, browse>>
    BY <1>8 DEF WorkAsked, Previews, Cancels, Confirms
  <2>2. work'.pc # "reloading"
    <3>1. CASE WorkAsked
      <4>1. PICK pc \in {"preview", "confirm", "calling"} :
                work' = [Rest EXCEPT !.pc = pc, !.left = IF kind = "updates" THEN 0 ELSE 1]
        BY <3>1 DEF WorkAsked
      <4> QED
        BY <4>1 DEF Rest
    <3>2. CASE Previews \/ Cancels
      BY <1>w, <3>2 DEF Previews, Cancels, Rest
    <3>3. CASE \E n \in 1..MaxBulk : Confirms(n)
      BY <1>w, <3>3 DEF Confirms
    <3> QED
      BY <1>8, <3>1, <3>2, <3>3
  <2> QED
    BY <1>1, <2>1, <2>2 DEF NoButtonHangs, LoadOfWork
<1>9. CASE CallSucceeds \/ CallFails
  <2>1. work.pc = "calling" /\ \A l \in LoadIds : ~LoadOfWork(l)
    BY <1>9 DEF CallSucceeds, CallFails, NoButtonHangs
  <2>2. browse'.busy => browse'.asked # {}
    <3>1. browse' = browse
          \/ browse' = [browse EXCEPT !.name = NoVolume, !.entries = NoVolume]
      BY <1>9 DEF CallSucceeds, CallFails
    <3>2. browse'.busy = browse.busy /\ browse'.asked = browse.asked
      BY <1>b, <3>1
    <3> QED
      BY <3>2 DEF NoButtonHangs
  <2>3. CASE UNCHANGED loads /\ work'.pc # "reloading"
    BY <1>1, <2>1, <2>2, <2>3 DEF LoadOfWork
  <2>4. CASE /\ work'.pc = "reloading" /\ Free(loads) # {}
             /\ loads' = Asked(loads, filter.applied, "work")
    <3>1. PICK l \in LoadIds : /\ loads'[l].pc = "sent" /\ loads'[l].for = "work"
                               /\ \A m \in LoadIds \ {l} : loads'[m] = loads[m]
      BY <1>0, <2>4, AskedIsNew
    <3> QED
      BY <2>1, <2>2, <2>4, <3>1 DEF NoButtonHangs, LoadOfWork
  <2>5. CASE CallSucceeds
    <3>1. \/ work' = [work EXCEPT !.left = @ - 1] /\ UNCHANGED loads
          \/ work' = Rest /\ UNCHANGED loads
          \/ /\ Free(loads) # {} /\ work' = [work EXCEPT !.pc = "reloading", !.left = 0]
             /\ loads' = Asked(loads, filter.applied, "work")
      BY <2>5 DEF CallSucceeds
    <3>2. CASE work' = [work EXCEPT !.left = @ - 1] /\ UNCHANGED loads
      <4>1. work'.pc # "reloading"
        BY <1>w, <2>1, <3>2 DEF Rest
      <4> QED
        BY <2>3, <3>2, <4>1
    <3>3. CASE work' = Rest /\ UNCHANGED loads
      <4>1. work'.pc # "reloading"
        BY <1>w, <2>1, <3>3 DEF Rest
      <4> QED
        BY <2>3, <3>3, <4>1
    <3>4. CASE /\ Free(loads) # {} /\ work' = [work EXCEPT !.pc = "reloading", !.left = 0]
               /\ loads' = Asked(loads, filter.applied, "work")
      BY <1>w, <2>4, <3>4
    <3> QED
      BY <3>1, <3>2, <3>3, <3>4
  <2>6. CASE CallFails
    <3>1. \/ work' = Rest /\ UNCHANGED loads
          \/ /\ Free(loads) # {}
             /\ work' = [work EXCEPT !.pc = "reloading", !.left = 0, !.failed = TRUE]
             /\ loads' = Asked(loads, filter.applied, "work")
      BY <2>6 DEF CallFails
    <3>2. CASE work' = Rest /\ UNCHANGED loads
      <4>1. work'.pc # "reloading"
        BY <1>w, <2>1, <3>2 DEF Rest
      <4> QED
        BY <2>3, <3>2, <4>1
    <3>3. CASE /\ Free(loads) # {}
               /\ work' = [work EXCEPT !.pc = "reloading", !.left = 0, !.failed = TRUE]
               /\ loads' = Asked(loads, filter.applied, "work")
      BY <1>w, <2>4, <3>3
    <3> QED
      BY <3>1, <3>2, <3>3
  <2> QED
    BY <1>9, <2>5, <2>6
<1>10. ASSUME NEW v \in BrowseNames, BrowseOpens(v) \/ BrowseArrives(v) \/ BrowseFails(v)
       PROVE  NoButtonHangs'
  <2>1. UNCHANGED <<loads, work>>
    BY <1>10 DEF BrowseOpens, BrowseArrives, BrowseFails
  <2>2. CASE BrowseOpens(v)
    <3>1. browse'.asked = browse.asked \cup {v}
      BY <2>2 DEF BrowseOpens
    <3> QED
      BY <1>1, <2>1, <3>1 DEF LoadOfWork
  <2>3. CASE BrowseArrives(v) \/ BrowseFails(v)
    <3>1. ~browse'.busy
      BY <1>b, <2>3 DEF BrowseArrives, BrowseFails
    <3> QED
      BY <1>1, <2>1, <3>1 DEF LoadOfWork
  <2> QED
    BY <1>10, <2>2, <2>3
<1>11. CASE BrowseCloses
  <2>1. UNCHANGED <<loads, work>> /\ browse'.busy = browse.busy /\ browse'.asked = browse.asked
    BY <1>0, <1>11 DEF BrowseCloses, ListPagesTypeOK
  <2> QED
    BY <1>1, <2>1 DEF LoadOfWork, NoButtonHangs
<1>12. CASE \/ HostChanges \/ TabHides \/ EventStreamBreaks \/ EventStreamReturns
            \/ \E f \in Filters : FilterTyped(f)
            \/ UNCHANGED listVars
  BY <1>2, <1>12 DEF HostChanges, TabHides, EventStreamBreaks, EventStreamReturns, FilterTyped,
                     listVars
<1> QED
  BY <1>4, <1>5, <1>6, <1>7, <1>8, <1>9, <1>10, <1>11, <1>12 DEF ListPagesNext

\* However loads, operations and failures cross on a page with a list: no operation is left waiting
\* for a list that nobody loads, two never wait for one, and the browse buttons are disabled only
\* while entries are on their way (executeConfirm, compose-list-page.tsx:188, and openBrowse,
\* volumes-page.tsx:123).
THEOREM ButtonsDoNotHang == ListPagesSpec => []NoButtonHangs
<1>1. PagesIInv /\ NoButtonHangs /\ [ListPagesNext]_listVars => NoButtonHangs'
  BY ButtonsKeep
<1>2. PagesIInv /\ [ListPagesNext]_listVars => PagesIInv'
  BY PagesStepStands
<1> QED
  BY <1>1, <1>2, ButtonsStart, PagesStart, PTL DEF ListPagesSpec

--------------------------------------------------------------------------------
\* The parts side by side

\* What runs in the instance liveness is, part by part, what the modules of the parts describe:
\* the lock, the updates, the self-update and the pages with lists share nothing there, so what is
\* proved of each holds of the instance.
THEOREM LivenessIsItsParts ==
    LivenessSpec => LockSpec /\ Spec /\ SelfUpdateSpec /\ ListPagesSpec
<1>1. LivenessInit => LockInit /\ Init /\ SelfUpdateInit /\ ListPagesInit
  BY DEF LivenessInit
<1>2. [LivenessNext]_livenessVars => [LockNext]_lockVars
  BY DEF LivenessNext, livenessVars
<1>3. [LivenessNext]_livenessVars => [Next]_vars
  BY DEF LivenessNext, livenessVars
<1>4. [LivenessNext]_livenessVars => [SelfUpdateNext]_selfUpdateVars
  BY DEF LivenessNext, livenessVars
<1>5. [LivenessNext]_livenessVars => [ListPagesNext]_listVars
  BY DEF LivenessNext, livenessVars
<1> QED
  BY <1>1, <1>2, <1>3, <1>4, <1>5, PTL
  DEF LivenessSpec, LockSpec, Spec, SelfUpdateSpec, ListPagesSpec

\* The lock, the updates, the self-update and the lists keep their types side by side, for any
\* number of calls, updates, clicks and pages (compose.service.ts:59, updates.service.ts:66,
\* self-update.service.ts:72, containers-page.tsx:48).
THEOREM LivenessTypesStay == LivenessSpec => []LivenessTypeOK
<1>1. LivenessInit => part \in Parts
  BY DEF LivenessInit
<1>2. part \in Parts /\ [LivenessNext]_livenessVars => (part \in Parts)'
  BY DEF LivenessNext, livenessVars
<1>3. part \in Parts /\ LockTypeOK /\ TypeOK /\ SelfUpdateTypeOK /\ ListPagesTypeOK
      => LivenessTypeOK
  BY DEF LivenessTypeOK
<1> QED
  BY <1>1, <1>2, <1>3, LivenessIsItsParts, LockTypeCorrect, UpdateTypesStay,
     SelfUpdateTypesStay, ListPagesTypes, PTL DEF LivenessSpec

\* Side by side, too: the lock excludes and is never stuck, what an update reports is true, an
\* update of Dockora is kept, and the pages say what is so and never hang (compose.service.ts:73,
\* updates.service.ts:176, self-update.service.ts:118, containers-page.tsx:48).
COROLLARY LivenessHolds ==
    LivenessSpec => /\ []MutualExclusion /\ []SomebodyGoesOn /\ ReportIsTrue
                    /\ (Installed = 1 => UpdatesHold) /\ PageIsTrue /\ []NoButtonHangs
<1>1. Installed = 1 => (SelfUpdateSpec => UpdatesHold)
  BY UpdateIsKeptAndShown
<1> QED
  BY <1>1, LivenessIsItsParts, LockExcludes, LockIsNeverStuck, ReportsAreTrue, PagesAreTrue,
     ButtonsDoNotHang, PTL
================================================================================
