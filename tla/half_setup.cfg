\* A process that may end while it makes users.db, on a disk that never fails,
\* and is started once more.
SPECIFICATION AccountsSpec
CONSTANTS
    NoText = ""
    Texts <- AllTexts
    Quoted <- NoTexts
    MaxId = 1
    DiskFails = FALSE
    Sessions = {c1}
    Lines <- AccountLines
    MaxLines = 1
    MaxStarts = 2
    FirstFiles = {"absent"}
    CrashInSetup = TRUE
CHECK_DEADLOCK FALSE
INVARIANT UpMeansTable
