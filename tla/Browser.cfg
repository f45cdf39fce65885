\* Two pages of the home screen with three edits and one in a cache; one dashboard whose
\* stream breaks once and which is hidden once.
CONSTANTS
    Desktops = {d1, d2}
    Edits = {e0, e1, e2}
    Cached = {e0}
    Reloading = {d1}
    MaxEffects = 1
    DirtyEffects = FALSE
    OverviewTtl = 1
    MaxNews = 2
    MaxBreaks = 1
    MaxHides = 1
SPECIFICATION BrowserSpec
INVARIANTS BrowserTypeOK
PROPERTIES EditsHold QueueDrains DashboardCatchesUp
CHECK_DEADLOCK FALSE
