---------------------------- MODULE ServerProcess ----------------------------
(***************************************************************************)
(* The server process of server/src/myNoiseGeneratorServer.cpp around      *)
(* ThreadedServer: main(), which deletes the server once run() returns,    *)
(* and ConsoleHandler, which Windows runs on a thread of its own when      *)
(* Ctrl+C is pressed and which takes the server apart under the feet of    *)
(* the other threads, then leaves with ExitProcess(0).                     *)
(*                                                                         *)
(* Using an object after its destructor has run is undefined; the threads  *)
(* that do so here find its members as they were left.                     *)
(***************************************************************************)
EXTENDS ThreadedServer

CONSTANT Console      \* the thread ConsoleHandler runs on

ASSUME ConsoleConstant == Console \notin Tids \cup {Main, None}

VARIABLES
    console,    \* where ConsoleHandler is
    deleting,   \* how far "delete server" has come, per thread that issued it
    exited      \* ExitProcess was called, or main returned

processVars == <<console, deleting, exited>>
allVars     == <<vars, processVars>>

Deleters == {Main, Console}
ConsoleStates == {"idle", "listener", "winsock", "delete", "exit"}
DeleteStates  == {"no", "stop", "members", "base", "done"}

Alive == ~terminated /\ ~exited

ProcessInit ==
    /\ Init
    /\ console = "idle"
    /\ deleting = [d \in Deleters |-> "no"]
    /\ exited = FALSE

-----------------------------------------------------------------------------
(* ConsoleHandler, up to "delete server". *)

PressCtrlC ==
    /\ console = "idle" /\ console' = "listener"
    /\ UNCHANGED <<vars, deleting, exited>>

HandlerClosesListener ==
    /\ console = "listener" /\ console' = "winsock"
    /\ listener' = "invalid"
    /\ backlog' = 0
    /\ UNCHANGED <<running, handle, containers, mainVars, workerVars,
                   terminated, deleting, exited>>

\* WSACleanup: every socket of the process is gone.
HandlerWSACleanup ==
    /\ console = "winsock" /\ console' = "delete"
    /\ handle' = [s \in Sockets |-> None]
    /\ deleting' = [deleting EXCEPT ![Console] = "stop"]
    /\ UNCHANGED <<running, listener, backlog, containers, mainVars,
                   workerVars, terminated, exited>>

HandlerExits ==
    /\ console = "exit"
    /\ exited' = TRUE
    /\ UNCHANGED <<vars, console, deleting>>

-----------------------------------------------------------------------------
(* "delete server", issued by ConsoleHandler or by main(). *)

DeleteGoto(d, from, to) ==
    /\ deleting[d] = from
    /\ deleting' = [deleting EXCEPT ![d] = to]

MainDeletes ==
    /\ mainpc = "returned"
    /\ DeleteGoto(Main, "no", "stop")
    /\ UNCHANGED <<vars, console, exited>>

\* ~ThreadedServer calls stop().
DestructorStops(d) ==
    /\ DeleteGoto(d, "stop", "members")
    /\ running' = FALSE
    /\ UNCHANGED <<listener, backlog, handle, containers, mainVars,
                   workerVars, terminated, console, exited>>

\* Mutation of DestroyMembers: the members are destroyed under threads_mutex.
DestroyLocked(d) ==
    /\ threads_mutex = None
    /\ DeleteGoto(d, "members", "base")
    /\ terminated' = (\E s \in Sockets : client_threads[s] # None)
    /\ UNCHANGED <<shared, containers, mainVars, workerVars, console, exited>>

\* Mutation of DestroyMembers: threads are detached instead of being refused.
DestroyDetaching(d) ==
    /\ DeleteGoto(d, "members", "base")
    /\ UNCHANGED <<vars, console, exited>>

\* The members of ThreadedServer are destroyed, client_threads among them: the
\* destructor of a std::thread that is still joinable calls std::terminate.
DestroyMembers(d) ==
    /\ DeleteGoto(d, "members", "base")
    /\ terminated' = (\E s \in Sockets : client_threads[s] # None)
    /\ UNCHANGED <<shared, containers, mainVars, workerVars, console, exited>>

\* ~Server: WSACleanup, closesocket(socket_fd), delete db.
DestroyBase(d) ==
    /\ DeleteGoto(d, "base", "done")
    /\ listener' = "invalid"
    /\ backlog' = 0
    /\ handle' = [s \in Sockets |-> None]
    /\ console' = IF d = Console THEN "exit" ELSE console
    /\ exited' = (d = Main)                       \* return 0
    /\ UNCHANGED <<running, containers, mainVars, workerVars, terminated>>

-----------------------------------------------------------------------------

HandlerStep == HandlerClosesListener \/ HandlerWSACleanup \/ HandlerExits

DeleteStep(d) == DestructorStops(d) \/ DestroyMembers(d) \/ DestroyBase(d)

ServerStep == MainStep \/ Clients \/ \E t \in Tids : WorkerStep(t)

ProcessNext ==
    /\ Alive
    /\ \/ ServerStep /\ UNCHANGED processVars
       \/ PressCtrlC \/ HandlerStep \/ MainDeletes
       \/ \E d \in Deleters : DeleteStep(d)

ProcessSpec == ProcessInit /\ [][ProcessNext]_allVars

\* The console handler's thread is scheduled like any other.  Nothing is
\* assumed of the server's own threads: the handler waits for none of them.
FairProcessSpec ==
    /\ ProcessSpec
    /\ WF_allVars(Alive /\ HandlerStep)
    /\ \A d \in Deleters : WF_allVars(Alive /\ DeleteStep(d))

-----------------------------------------------------------------------------
(* Properties. *)

\* Once Ctrl+C is pressed the process ends, whatever its threads wait for:
\* by ExitProcess(0), by main returning, or by std::terminate.
CtrlCEndsProcess == (console # "idle") ~> ~Alive

\* When "delete db" is reached no worker is left that could call the database,
\* but for the one run() was starting when the destructor looked at the map.
DatabaseOutlivesWorkers ==
    (~terminated /\ \E d \in Deleters : deleting[d] \in {"base", "done"})
        => Cardinality({t \in Tids : Live(t)}) <= 1

\* The main thread, which holds threads_mutex, never waits for a worker that
\* has still to take that mutex to get to its end (lines 50-56 and 122-125).
FinalJoinSafe ==
    mainpc = "join" =>
        phase[client_threads[client_socket]] \in {"push", "exiting", "exited"}

=============================================================================
