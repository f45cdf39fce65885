------------------------------- MODULE MCBrowser -------------------------------
(***************************************************************************)
(* What a page keeps in step with the server while it is open: the home     *)
(* layout and the live dashboard, each on a small instance and under its own *)
(* fairness. They share no state here, so a behaviour is one of one part, as *)
(* in MCAccess.                                                             *)
(***************************************************************************)
EXTENDS HomeLayout, LiveDashboard

VARIABLE part    \* the part this behaviour is about

Parts == {"home", "dashboard"}

browserVars == <<part, homeVars, dashVars>>

\* The part that rests has one initial state.
BrowserInit ==
    /\ part \in Parts
    /\ HomeInit /\ LiveDashboardInit
    /\ part = "home" \/ (server = Empty /\ \A d \in Desktops : desk[d].shown = {})

BrowserNext ==
    \/ part = "home" /\ HomeNext /\ UNCHANGED <<part, dashVars>>
    \/ part = "dashboard" /\ LiveDashboardNext /\ UNCHANGED <<part, homeVars>>

\* The fairness of each part (HomeFairSpec and LiveDashboardFairness), while it is the one
\* that runs.
BrowserFairness ==
    /\ \A d \in Desktops : WF_homeVars(part = "home" /\ DesktopStep(d))
    /\ WF_dashVars(part = "dashboard" /\ Interval)
    /\ WF_dashVars(part = "dashboard" /\ OverviewAges)
    /\ \A b \in Builders : /\ WF_dashVars(part = "dashboard" /\ BuildReads(b))
                           /\ SF_dashVars(part = "dashboard" /\ BuildDone(b))
    /\ WF_dashVars(part = "dashboard" /\ GetArrives)
    /\ WF_dashVars(part = "dashboard" /\ Connects)
    /\ WF_dashVars(part = "dashboard" /\ PushArrives)
    /\ WF_dashVars(part = "dashboard" /\ FallbackFires)
    /\ WF_dashVars(part = "dashboard" /\ PollFires)

BrowserSpec == BrowserInit /\ [][BrowserNext]_browserVars /\ BrowserFairness

\* The state of the part that runs has its types; the other's is as it began
\* (home-layout-save.ts:18, use-dashboard.ts:18).
BrowserTypeOK ==
    /\ part \in Parts
    /\ part = "home" => HomeTypeOK
    /\ part = "dashboard" => LiveDashboardTypeOK
================================================================================
