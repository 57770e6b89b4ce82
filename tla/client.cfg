\* A client that sends up to four lines and gives up after one poll.
SPECIFICATION ClientSpec
CONSTANTS
    NoText = ""
    Texts <- AllTexts
    Quoted <- NoTexts
    MaxId = 5
    DiskFails = FALSE
    Sessions = {c1}
    Conn = c1
    Lines = {}
    MaxLines = 4
    Commands <- Typed
    RegistrationForms <- Registrations
    LoginForms <- Logins
    MaxAttempts = 1
CHECK_DEADLOCK FALSE
INVARIANTS
    ClientTypeOK
    InStep
    BehindByEarlyWaits
    GarbledOnlyWhenBehind
    ReplyMatchesHistory
PROPERTIES
    WaitsEnd
