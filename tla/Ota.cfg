SPECIFICATION MCSpec
CONSTANTS
    Files = {"mfoes02w", "otad"}
    Packages = {1, 2}
    FilesOf <- MCFilesOf
    Parts = 2
    Faults = {"write", "copy"}
    MaxSessions = 2
    Views = {"none", "system"}
    Videos = {TRUE, FALSE}
    MaxTexts = 1
    MaxAttach = 1
    MaxLost = 1
PROPERTIES PanelFollows ViewerFollows SuccessIsVerified KeepsPromise UploaderReturns
CHECK_DEADLOCK FALSE
