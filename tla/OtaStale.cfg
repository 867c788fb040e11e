SPECIFICATION MCSpec
CONSTANTS
    Files = {"mfoes02w", "otad"}
    Packages = {1, 2}
    FilesOf <- MCFilesOf
    Parts = 2
    Faults = {"unzip"}
    MaxSessions = 2
    Views = {"none"}
    Videos = {FALSE}
    MaxTexts = 0
    MaxAttach = 0
    MaxLost = 0
PROPERTY SingleSource
