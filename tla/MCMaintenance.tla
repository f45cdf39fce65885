----------------------------- MODULE MCMaintenance -----------------------------
(***************************************************************************)
(* What the server does beside its requests - backups, the pruning of its    *)
(* tables, the lifetime statistics, alerts, plugins - and what two pages do  *)
(* with what they show: the editor of a Compose project and the apps of the  *)
(* desktop. They share no state, so a behaviour is one of one part, as in    *)
(* MCAccess.                                                                *)
(***************************************************************************)
EXTENDS Backups, Retention, LifetimeStats, ComposeEditor, HomeApps, DepartmentFit, Alerts,
        Plugins

VARIABLE part    \* the part this behaviour is about

Parts == {"backups", "retention", "lifetime", "editor", "apps", "fit", "alerts", "plugins"}

maintenanceVars == <<part, backupVars, retentionVars, lifetimeVars, editorVars, appsVars, fitVars,
                     alertsVars, pluginVars>>

\* Names as they sort.
TwoContainers == <<"app", "db">>
OneLink == <<"link">>

\* Nothing tells one backup job from another.
BackupJobSymmetry == Permutations(BackupJobs)

FitAtRest ==
    /\ frames = [f \in Frames |-> [y |-> Min(Tops), height |-> Min(Heights), content |-> 0]]
    /\ tops = [f \in Frames |-> Min(Tops)] /\ passes = 0 /\ settled = (Frames = {})

\* The part that rests has one initial state.
MaintenanceInit ==
    /\ part \in Parts
    /\ BackupsInit /\ RetentionInit /\ LifetimeInit
    /\ ComposeEditorInit /\ HomeAppsInit /\ AlertsInit /\ PluginsInit
    /\ part = "plugins" \/ disabled = {}
    /\ IF part = "fit" THEN FitInit ELSE FitAtRest

MaintenanceNext ==
    \/ /\ part = "backups" /\ BackupsNext
       /\ UNCHANGED <<part, retentionVars, lifetimeVars, editorVars, appsVars, fitVars,
                      alertsVars, pluginVars>>
    \/ /\ part = "retention" /\ RetentionNext
       /\ UNCHANGED <<part, backupVars, lifetimeVars, editorVars, appsVars, fitVars,
                      alertsVars, pluginVars>>
    \/ /\ part = "lifetime" /\ LifetimeNext
       /\ UNCHANGED <<part, backupVars, retentionVars, editorVars, appsVars, fitVars,
                      alertsVars, pluginVars>>
    \/ /\ part = "editor" /\ ComposeEditorNext
       /\ UNCHANGED <<part, backupVars, retentionVars, lifetimeVars, appsVars, fitVars,
                      alertsVars, pluginVars>>
    \/ /\ part = "apps" /\ HomeAppsNext
       /\ UNCHANGED <<part, backupVars, retentionVars, lifetimeVars, editorVars, fitVars,
                      alertsVars, pluginVars>>
    \/ /\ part = "fit" /\ Pass
       /\ UNCHANGED <<part, backupVars, retentionVars, lifetimeVars, editorVars, appsVars,
                      alertsVars, pluginVars>>
    \/ /\ part = "alerts" /\ AlertsNext
       /\ UNCHANGED <<part, backupVars, retentionVars, lifetimeVars, editorVars, appsVars,
                      fitVars, pluginVars>>
    \/ /\ part = "plugins" /\ PluginsNext
       /\ UNCHANGED <<part, backupVars, retentionVars, lifetimeVars, editorVars, appsVars,
                      fitVars, alertsVars>>

MaintenanceSpec == MaintenanceInit /\ [][MaintenanceNext]_maintenanceVars

\* The state of the part that runs has its types; the others are as they began
\* (backups.service.ts:55, data-retention.ts:7, lifetime.service.ts:14,
\* compose-detail-page.tsx:55, casa-desktop.tsx:160, home-layout.ts:191, alert-cooldown.ts:3,
\* plugins/index.ts:30).
MaintenanceTypeOK ==
    /\ part \in Parts
    /\ part = "backups" => BackupsTypeOK
    /\ part = "retention" => RetentionTypeOK
    /\ part = "lifetime" => LifetimeTypeOK
    /\ part = "editor" => ComposeEditorTypeOK
    /\ part = "apps" => HomeAppsTypeOK
    /\ part = "fit" => FitTypeOK
    /\ part = "alerts" => AlertsTypeOK
    /\ part = "plugins" => PluginsTypeOK
================================================================================
