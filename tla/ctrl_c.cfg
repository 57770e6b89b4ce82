\* Ctrl+C at any moment of a server with up to two clients; the process ends.
SPECIFICATION FairProcessSpec
CONSTANTS
    Sockets = {s1, s2}
    Tids = {t1, t2}
    Main = Main
    None = None
    Console = Console
    BacklogBound = 1
    HandleReuse = TRUE
CHECK_DEADLOCK FALSE
INVARIANTS
    DatabaseOutlivesWorkers
PROPERTIES
    CtrlCEndsProcess
    ServesConnections
