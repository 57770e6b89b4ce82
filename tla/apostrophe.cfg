\* One session that registers a user whose surname has an apostrophe.
SPECIFICATION Spec
CONSTANTS
    NoText = ""
    Texts <- AllTexts
    Quoted <- WithApostrophe
    MaxId = 4
    DiskFails = FALSE
    Sessions = {c1}
    Lines <- QuotedLines
    MaxLines = 4
CHECK_DEADLOCK FALSE
INVARIANTS
    ConfirmedStored
