\* Two handles, reissued as soon as they are closed, and three thread ids.
SPECIFICATION FairSpec
CONSTANTS
    Sockets = {s1, s2}
    Tids = {t1, t2, t3}
    Main = Main
    None = None
    BacklogBound = 1
    HandleReuse = TRUE
INVARIANTS
    TypeOK
    ThreadsAccounted
    CleanupSound
    ServingOwnsHandle
    DiesOnlyOfReuse
PROPERTIES
    FinishedReaped
    BacklogServed
    ServesConnections
