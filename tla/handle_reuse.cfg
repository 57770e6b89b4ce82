\* As pool, for the one property that the reuse of handles breaks.
SPECIFICATION Spec
CONSTANTS
    Sockets = {s1, s2}
    Tids = {t1, t2, t3}
    Main = Main
    None = None
    BacklogBound = 2
    HandleReuse = TRUE
SYMMETRY Symmetry
INVARIANTS
    ServerSurvives
