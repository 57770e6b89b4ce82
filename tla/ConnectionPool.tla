----------------------------- MODULE ConnectionPool -----------------------------
(***************************************************************************)
(* What a server with a thread per client promises of its connections: one *)
(* leaves the queue only to be given to one worker of its own; nobody else *)
(* is given the same one until that worker is done with it; the server is  *)
(* over only when every worker was waited for; and when it is aborted, it  *)
(* is with a connection in its hands.  Modules ThreadedServer and          *)
(* ServerProcess are shown to implement it, handles, containers, locks and *)
(* Ctrl+C included.                                                        *)
(***************************************************************************)
EXTENDS Naturals

CONSTANTS Workers, Connections, None

VARIABLES
    queue,      \* clients that wait
    taken,      \* the connection that has no worker yet
    serves,     \* the connection each worker was started with, until its end
    done,       \* workers that do not use theirs any more
    open        \* whether clients are taken

poolVars == <<queue, taken, serves, done, open>>

Used == {serves[w] : w \in Workers \ done}

Init ==
    /\ queue = 0 /\ taken = None /\ open = "open"
    /\ serves = [w \in Workers |-> None] /\ done = {}

Arrive == queue' = queue + 1 /\ UNCHANGED <<taken, serves, done, open>>

\* Clients give up, and all of them do when nobody listens any more.
Leave ==
    /\ queue' \in Nat /\ queue' < queue
    /\ UNCHANGED <<taken, serves, done, open>>

Take(c) ==
    /\ open = "open" /\ queue > 0 /\ taken = None /\ c \notin Used
    /\ queue' = queue - 1 /\ taken' = c
    /\ UNCHANGED <<serves, done, open>>

Start(w) ==
    /\ taken # None /\ serves[w] = None
    /\ serves' = [serves EXCEPT ![w] = taken] /\ taken' = None
    /\ UNCHANGED <<queue, done, open>>

Finish(w) ==
    /\ serves[w] # None /\ w \notin done
    /\ done' = done \cup {w}
    /\ UNCHANGED <<queue, taken, serves, open>>

Reap(w) ==
    /\ w \in done
    /\ serves' = [serves EXCEPT ![w] = None] /\ done' = done \ {w}
    /\ UNCHANGED <<queue, taken, open>>

Close ==
    /\ open = "open" /\ taken = None /\ open' = "closing"
    /\ UNCHANGED <<queue, taken, serves, done>>

End ==
    /\ open = "closing" /\ \A w \in Workers : serves[w] = None
    /\ open' = "over"
    /\ UNCHANGED <<queue, taken, serves, done>>

Abort ==
    /\ \/ taken # None /\ \A w \in Workers : serves[w] # None
       \/ \E w \in Workers : serves[w] # None
    /\ open' = "dead"
    /\ UNCHANGED <<queue, taken, serves, done>>

Next ==
    /\ open # "dead"
    /\ \/ Arrive \/ Leave \/ Close \/ End \/ Abort
       \/ \E c \in Connections : Take(c)
       \/ \E w \in Workers : Start(w) \/ Finish(w) \/ Reap(w)

Spec == Init /\ [][Next]_poolVars

\* No two workers use the same connection, and none that of a client who has
\* no worker yet.
Exclusive ==
    /\ \A v, w \in Workers \ done : serves[v] = serves[w] /\ serves[v] # None => v = w
    /\ taken # None => taken \notin Used

=============================================================================
