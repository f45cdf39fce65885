\* Two pages, three edits and one in a cache.
CONSTANTS
    Desktops = {d1, d2}
    Edits = {e0, e1, e2}
    Cached = {e0}
    Reloading = {d1}
    MaxEffects = 1
    DirtyEffects = TRUE
SPECIFICATION HomeSpec
PROPERTY NoEditLost
CHECK_DEADLOCK FALSE
