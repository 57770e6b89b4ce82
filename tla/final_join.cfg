\* Ctrl+C while clients are connected: the final joins.
SPECIFICATION ProcessSpec
CONSTANTS
    Sockets = {s1, s2}
    Tids = {t1, t2}
    Main = Main
    None = None
    Console = Console
    BacklogBound = 1
    HandleReuse = FALSE
CHECK_DEADLOCK FALSE
SYMMETRY Symmetry
INVARIANTS
    FinalJoinSafe
