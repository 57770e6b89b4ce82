\* The bytes: every data line of up to nine characters and every stream of up to
\* five, in pieces of one or two.  The database: two plain emails and one with
\* an apostrophe, four rows in a table's life, any call may fail.  The table:
\* five keys on two chains, up to four elements.
SPECIFICATION PartsSpec
CONSTANTS
    NoText <- NoChars
    Inputs <- DataAndStreams
    RecvLimit = 2
    Texts = {e1, e2, q}
    Quoted = {q}
    MaxId = 4
    DiskFails = TRUE
    Keys <- SomeKeys
    Values = {v1, v2}
    initial = 1
    capacity = 2
    Absent = Absent
    MaxElements = 5
CHECK_DEADLOCK FALSE
INVARIANTS
    FramingExact
    RegistrationAgrees
    LoginAgrees
    IdsNeverReused
    CountMatches
    CarefulUseDefined
PROPERTIES
    LatestRegistrationFound
    IsMultiMap
