\* The web interface over plain http, on a host of the local network.
CONSTANTS
    EnvFiles = {".env", "media.env"}
    ReadIds = {r1, r2}
    MaxTexts = 1
    MaxReloads = 1
    SecureContext = FALSE
SPECIFICATION ComposeEditorSpec
PROPERTIES ReadProjectIsShown
CHECK_DEADLOCK FALSE
