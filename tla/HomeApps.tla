-------------------------------- MODULE HomeApps --------------------------------
(***************************************************************************)
(* The apps on the desktop: containers that come and go, links and          *)
(* departments of the operator, the order of all of them, and the drag that  *)
(* moves one while the list of containers, and after a conflict the whole   *)
(* layout, may be replaced under it. Saving is HomeLayout's; boxes are       *)
(* DepartmentFit's.                                                         *)
(***************************************************************************)
EXTENDS Naturals, FiniteSets, SequencesExt

CONSTANTS
    ContainerNames,  \* sequence of the containers' names, as localeCompare sorts them
    LinkKeys,        \* sequence of the keys of links, as their names sort
    DepartmentIds    \* the departments that may be made

VARIABLES
    present,         \* containers: the names last loaded
    links, departments,
    containerOrder, appDepartments,
    madeLinks, madeDepartments,  \* ids are random: none is made twice
    drag             \* startAppDrag: the app, and what the pointer is over

appsVars == <<present, links, departments, containerOrder, appDepartments, madeLinks,
              madeDepartments, drag>>

Apps == Range(ContainerNames \o LinkKeys)

\* An app without a department has no entry; a drop on the heading means the same.
Loose == "loose"
Nothing == "none"
NoDrag == [key |-> Nothing, aim |-> Nothing]
Dragging == drag # NoDrag

\* Names, keys of links (casa-desktop.tsx:111) and the ids of departments tell apart.
ASSUME HomeAppsAssumption ==
    /\ ContainerNames \in Seq(Range(ContainerNames)) /\ LinkKeys \in Seq(Range(LinkKeys))
    /\ IsInjective(ContainerNames \o LinkKeys)
    /\ Apps \cap DepartmentIds = {}
    /\ {Loose, Nothing} \cap (Apps \cup DepartmentIds) = {}

HomeAppsTypeOK ==
    /\ present \subseteq Range(ContainerNames)
    /\ links \subseteq madeLinks /\ madeLinks \subseteq Range(LinkKeys)
    /\ departments \subseteq madeDepartments /\ madeDepartments \subseteq DepartmentIds
    /\ containerOrder \in Seq(Apps)
    /\ appDepartments \in [Apps -> DepartmentIds \cup {Loose}]
    /\ drag \in [key : Apps \cup {Nothing}, aim : Apps \cup DepartmentIds \cup {Loose, Nothing}]

--------------------------------------------------------------------------------
\* What is shown

ShownApps == present \cup links

\* The keys that are among these apps, in their order.
Filtered(keys, apps) ==
    LET kept[n \in 0 .. Len(keys)] ==
          IF n = 0 THEN <<>>
          ELSE IF keys[n] \in apps THEN Append(kept[n - 1], keys[n]) ELSE kept[n - 1]
    IN  kept[Len(keys)]

\* gridItems: what containerOrder names and is there, then the rest sorted.
GridKeys ==
    Filtered(containerOrder, ShownApps)
        \o Filtered(ContainerNames \o LinkKeys, ShownApps \ Range(containerOrder))

\* looseItems and departmentSections: an app of an unknown department is loose.
Section == [app \in Apps |-> IF appDepartments[app] \in departments
                              THEN appDepartments[app] ELSE Loose]

IndexOf(keys, key) == SelectInSeq(keys, LAMBDA k : k = key)

--------------------------------------------------------------------------------
\* Drops

\* Mutated form: the app is not taken from where it was.
PlaceAppTwice(from, to) ==
    LET keys == GridKeys IN
    IF Contains(keys, from) /\ Contains(keys, to) /\ from # to
    THEN /\ containerOrder' = InsertAt(keys, IndexOf(keys, to), from)
         /\ appDepartments' = [appDepartments EXCEPT ![from] = appDepartments[to]]
    ELSE UNCHANGED <<containerOrder, appDepartments>>

\* On a tile: the app takes its place and its department.
PlaceApp(from, to) ==
    LET keys == GridKeys IN
    IF Contains(keys, from) /\ Contains(keys, to) /\ from # to
    THEN /\ containerOrder' =
              InsertAt(RemoveAt(keys, IndexOf(keys, from)), IndexOf(keys, to), from)
         /\ appDepartments' = [appDepartments EXCEPT ![from] = appDepartments[to]]
    ELSE UNCHANGED <<containerOrder, appDepartments>>

\* Mutated form: the stored order is used, which does not name every app that is shown.
AssignInStoredOrder(app, department) ==
    IF appDepartments[app] = department
    THEN UNCHANGED <<containerOrder, appDepartments>>
    ELSE /\ appDepartments' = [appDepartments EXCEPT ![app] = department]
         /\ containerOrder' = IF department = Loose \/ ~ Contains(containerOrder, app)
                              THEN containerOrder
                              ELSE Append(Filtered(containerOrder, Apps \ {app}), app)

\* On a department: the app goes behind the last one in it; on the heading: out of it.
AssignDepartment(app, department) ==
    LET keys == RemoveFirst(GridKeys, app)
        last == SelectLastInSeq(keys, LAMBDA k : appDepartments[k] = department)
    IN  IF appDepartments[app] = department
        THEN UNCHANGED <<containerOrder, appDepartments>>
        ELSE /\ appDepartments' = [appDepartments EXCEPT ![app] = department]
             /\ containerOrder' =
                  IF department = Loose THEN containerOrder
                  ELSE IF ~ Contains(GridKeys, app) THEN keys
                  ELSE InsertAt(keys, (IF last = 0 THEN Len(keys) ELSE last) + 1, app)

UnchangedButDrag == UNCHANGED <<present, links, departments, containerOrder, appDepartments,
                                madeLinks, madeDepartments>>

StartDrag(app) ==
    /\ ~ Dragging /\ app \in ShownApps
    /\ drag' = [key |-> app, aim |-> Nothing]
    /\ UnchangedButDrag

\* The pointer moves over a tile, a department, the heading, or out of the grid.
Aim ==
    /\ Dragging
    /\ \E over \in (ShownApps \ {drag.key}) \cup departments \cup {Loose, Nothing} :
         drag' = [drag EXCEPT !.aim = over]
    /\ UnchangedButDrag

\* pointerup, and pointercancel too.
Drop ==
    /\ Dragging
    /\ \/ drag.aim \in Apps /\ PlaceApp(drag.key, drag.aim)
       \/ drag.aim \in DepartmentIds \cup {Loose} /\ AssignDepartment(drag.key, drag.aim)
       \/ drag.aim = Nothing /\ UNCHANGED <<containerOrder, appDepartments>>
    /\ drag' = NoDrag
    /\ UNCHANGED <<present, links, departments, madeLinks, madeDepartments>>

--------------------------------------------------------------------------------
\* The operator's other edits, which need the pointer

AddLink(link) ==
    /\ ~ Dragging /\ link \in Range(LinkKeys) \ madeLinks
    /\ links' = links \cup {link} /\ madeLinks' = madeLinks \cup {link}
    /\ containerOrder' = Append(containerOrder, link)
    /\ UNCHANGED <<present, departments, appDepartments, madeDepartments, drag>>

RemoveLink(link) ==
    /\ ~ Dragging /\ link \in links
    /\ links' = links \ {link}
    /\ containerOrder' = Filtered(containerOrder, Apps \ {link})
    /\ appDepartments' = [appDepartments EXCEPT ![link] = Loose]
    /\ UNCHANGED <<present, departments, madeLinks, madeDepartments, drag>>

AddDepartment(department) ==
    /\ ~ Dragging /\ department \in DepartmentIds \ madeDepartments
    /\ departments' = departments \cup {department}
    /\ madeDepartments' = madeDepartments \cup {department}
    /\ UNCHANGED <<present, links, containerOrder, appDepartments, madeLinks, drag>>

\* Apps without the departments that are not known.
WithoutUnknown(known) ==
    [app \in Apps |-> IF appDepartments[app] \in known THEN appDepartments[app] ELSE Loose]

RemoveDepartment(department) ==
    /\ ~ Dragging /\ department \in departments
    /\ departments' = departments \ {department}
    /\ appDepartments' = [app \in Apps |->
         IF appDepartments[app] = department THEN Loose ELSE appDepartments[app]]
    /\ UNCHANGED <<present, links, containerOrder, madeLinks, madeDepartments, drag>>

--------------------------------------------------------------------------------
\* What happens at any time, during a drag too

\* An answer to fetchContainers, on loading, on an event, after an update.
ContainersLoaded ==
    /\ present' \in SUBSET Range(ContainerNames)
    /\ UNCHANGED <<links, departments, containerOrder, appDepartments, madeLinks,
                   madeDepartments, drag>>

\* applyLayout after a conflict: another operator has removed links and departments or kept
\* those this page removed; the server's normalisation drops entries of unknown departments.
LayoutReplaced ==
    /\ links' \in SUBSET madeLinks
    /\ departments' \in SUBSET madeDepartments
    /\ containerOrder' = Filtered(containerOrder, links' \cup Range(ContainerNames))
    /\ appDepartments' = WithoutUnknown(departments')
    /\ UNCHANGED <<present, madeLinks, madeDepartments, drag>>

HomeAppsInit ==
    /\ present = {} /\ links = {} /\ departments = {}
    /\ containerOrder = <<>> /\ appDepartments = [app \in Apps |-> Loose]
    /\ madeLinks = {} /\ madeDepartments = {}
    /\ drag = NoDrag

HomeAppsNext ==
    \/ Aim \/ Drop \/ ContainersLoaded \/ LayoutReplaced
    \/ \E app \in Apps : StartDrag(app)
    \/ \E link \in Range(LinkKeys) : AddLink(link) \/ RemoveLink(link)
    \/ \E department \in DepartmentIds :
         AddDepartment(department) \/ RemoveDepartment(department)

HomeAppsSpec == HomeAppsInit /\ [][HomeAppsNext]_appsVars

--------------------------------------------------------------------------------
\* Properties

\* Every container and every link is shown, and none twice: none gets lost between the
\* stored order and what is there (casa-desktop.tsx:423).
AppsShownOnce ==
    /\ IsInjective(GridKeys)
    /\ Range(GridKeys) = ShownApps

Before(keys, a, b) == IndexOf(keys, a) < IndexOf(keys, b)

\* A drop moves the app that was dragged and nothing else: the other apps keep their order
\* and their departments, whatever was loaded during the drag (casa-desktop.tsx:568).
OthersStay ==
    LET others == ShownApps \ {drag.key} IN
    \A a, b \in others : /\ Before(GridKeys, a, b) <=> Before(GridKeys', a, b)
                         /\ Section'[a] = Section[a]

\* And that app is where the pointer was: beside the tile, or last of the department, if it
\* and the app are still there.
LandsAtAim ==
    LET at == IndexOf(GridKeys', drag.key)
        section == {k \in ShownApps : Section'[k] = drag.aim}
    IN  /\ {drag.key, drag.aim} \subseteq ShownApps =>
             /\ Section'[drag.key] = Section[drag.aim]
             /\ IndexOf(GridKeys', drag.aim) \in {at - 1, at + 1}
        /\ (drag.key \in ShownApps /\ drag.aim \in departments
              /\ Section[drag.key] # drag.aim) =>
             /\ drag.key \in section
             /\ \A k \in section : IndexOf(GridKeys', k) <= at

\* Both, which is what an operator sees of the desktop (casa-desktop.tsx:423 and 568).
AppsKeepTheirPlaces ==
    [][/\ <<present, links, containerOrder>>' # <<present, links, containerOrder>>
            => AppsShownOnce'
       /\ Dragging /\ drag' = NoDrag => OthersStay /\ LandsAtAim]_appsVars
================================================================================
