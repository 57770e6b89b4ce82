\* Two sessions that register and log in with one email, and a process that
\* ends once at any moment except while it makes users.db.
SPECIFICATION AccountsSpec
CONSTANTS
    NoText = ""
    Texts <- AllTexts
    Quoted <- NoTexts
    MaxId = 4
    DiskFails = FALSE
    Sessions = {c1, c2}
    Lines <- AccountLines
    MaxLines = 2
    MaxStarts = 2
    FirstFiles = {"absent", "table"}
    CrashInSetup = FALSE
CHECK_DEADLOCK FALSE
SYMMETRY Symmetry
INVARIANTS
    ConfirmedStored
PROPERTIES
    LoginSeesConfirmed
    AccountsAtomic
