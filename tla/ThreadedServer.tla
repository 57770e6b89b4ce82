---------------------------- MODULE ThreadedServer ----------------------------
(***************************************************************************)
(* The thread-per-client server of server/src/source/threaded_server.cpp:  *)
(* the accept loop of ThreadedServer::run (the main thread), one worker    *)
(* per accepted connection (handle_client_thread), and the two containers  *)
(* they share under threads_mutex, client_threads and finished_threads.    *)
(*                                                                         *)
(* Socket handles are the values the operating system hands out.  Closing  *)
(* a handle makes the value available to the next accept, as Winsock does. *)
(* What a worker does with the messages it receives is the business of     *)
(* module Session; here a batch of messages either keeps the worker in its *)
(* loop or makes it leave ("exit", or an exception).                       *)
(***************************************************************************)
EXTENDS Integers, FiniteSets

CONSTANTS
    Sockets,      \* values a SOCKET handle can take
    Tids,         \* values a std::thread::id can take
    Main,         \* the main thread, running ThreadedServer::run
    None,         \* "no thread", "no socket"
    BacklogBound, \* length of the listen() queue (10 in Server::setup)
    HandleReuse   \* may the system reissue a handle whose worker is unjoined?

ASSUME ServerConstants ==
    /\ IsFiniteSet(Sockets) /\ IsFiniteSet(Tids)
    /\ Main \notin Tids /\ None \notin Tids /\ Main # None
    /\ None \notin Sockets
    /\ BacklogBound \in Nat
    /\ HandleReuse \in BOOLEAN

VARIABLES
    running,          \* std::atomic<bool> running
    listener,         \* state of the listening socket socket_fd
    backlog,          \* connections completed by the system, not yet accepted
    handle,           \* which thread owns the connection behind a handle
    threads_mutex,    \* owner of threads_mutex, or None
    client_threads,   \* joinable std::thread stored under each handle
    finished_threads, \* ids pushed by the workers that are done
    mainpc,           \* where run() is
    client_socket,    \* local of run(): the handle it works on
    new_thread,       \* the std::thread temporary of line 42
    phase,            \* where each worker is
    sock,             \* parameter client_socket of each worker
    terminated        \* std::terminate was called

shared     == <<running, listener, backlog, handle>>
containers == <<threads_mutex, client_threads, finished_threads>>
mainVars   == <<mainpc, client_socket, new_thread>>
workerVars == <<phase, sock>>
vars       == <<shared, containers, mainVars, workerVars, terminated>>

ListenerStates == {"listening", "unbound", "invalid"}
MainStates == {"loop", "cleanlock", "cleanup", "select", "accept", "register",
               "spawn", "insert", "finallock", "final", "join", "returned"}
Phases == {"unused", "loop", "recv", "handle", "close", "lock", "push",
           "exiting", "exited"}

\* The main thread has left the accept loop and joins what is left.
Leaving == {"finallock", "final", "join", "returned"}

\* The stretches of run() during which the main thread holds threads_mutex.
MainLocked == {"cleanup", "spawn", "insert", "final", "join"}

\* A worker in one of these phases still uses its connection.
Serving == {"loop", "recv", "handle", "close"}

Live(t) == phase[t] # "unused"

-----------------------------------------------------------------------------
(* Server::setup decides the state of the listening socket: run() is called *)
(* whether or not socket, bind and listen succeeded.                        *)

Init ==
    /\ running = TRUE
    /\ listener \in ListenerStates
    /\ backlog = 0
    /\ handle = [s \in Sockets |-> None]
    /\ threads_mutex = None
    /\ client_threads = [s \in Sockets |-> None]
    /\ finished_threads = {}
    /\ mainpc = "loop"
    /\ client_socket = None
    /\ new_thread = None
    /\ phase = [t \in Tids |-> "unused"]
    /\ sock = [t \in Tids |-> None]
    /\ terminated = FALSE

-----------------------------------------------------------------------------
(* The clients, seen through the system's listen queue. *)

Connect ==
    /\ listener = "listening" /\ backlog < BacklogBound
    /\ backlog' = backlog + 1
    /\ UNCHANGED <<running, listener, handle, containers, mainVars,
                   workerVars, terminated>>

Abandon ==
    /\ backlog > 0
    /\ backlog' = backlog - 1
    /\ UNCHANGED <<running, listener, handle, containers, mainVars,
                   workerVars, terminated>>

-----------------------------------------------------------------------------
(* The main thread: ThreadedServer::run. *)

MainGoto(from, to) == mainpc = from /\ mainpc' = to

MainLoop ==
    /\ \/ running /\ MainGoto("loop", "cleanlock")
       \/ ~running /\ MainGoto("loop", "finallock")
    /\ UNCHANGED <<shared, containers, client_socket, new_thread, workerVars,
                   terminated>>

\* Entry of a block guarded by std::lock_guard in the main thread.
MainLock(from, to) ==
    /\ MainGoto(from, to)
    /\ threads_mutex = None
    /\ threads_mutex' = Main
    /\ UNCHANGED <<shared, client_threads, finished_threads, client_socket,
                   new_thread, workerVars, terminated>>

CleanupLock  == MainLock("cleanlock", "cleanup")
RegisterLock == MainLock("register", "spawn")
FinalLock    == MainLock("finallock", "final")

\* The joinable entries of client_threads that hold thread t.
EntriesOf(t) == {s \in Sockets : client_threads[s] = t}

\* Mutation of CleanupJoin: erases the entry without joining the thread, as
\* detaching it would do.
CleanupDetach(t) ==
    /\ mainpc = "cleanup" /\ t \in finished_threads
    /\ client_threads' = [s \in Sockets |->
           IF s \in EntriesOf(t) THEN None ELSE client_threads[s]]
    /\ finished_threads' = finished_threads \ {t}
    /\ UNCHANGED <<shared, threads_mutex, mainVars, workerVars, terminated>>

\* One turn of the loop of cleanup_finished_threads: find the entry by thread
\* id, join it, erase it.  The vector itself is cleared at the end, under the
\* same lock, so that no other thread can tell it from shrinking by one.
CleanupJoin(t) ==
    /\ mainpc = "cleanup" /\ t \in finished_threads
    /\ EntriesOf(t) # {} => phase[t] = "exited"
    /\ client_threads' = [s \in Sockets |->
           IF s \in EntriesOf(t) THEN None ELSE client_threads[s]]
    /\ phase' = IF EntriesOf(t) = {} THEN phase
                                     ELSE [phase EXCEPT ![t] = "unused"]
    /\ finished_threads' = finished_threads \ {t}
    /\ UNCHANGED <<shared, threads_mutex, mainVars, sock, terminated>>

CleanupDone ==
    /\ finished_threads = {}
    /\ MainGoto("cleanup", "select")
    /\ threads_mutex' = None
    /\ UNCHANGED <<shared, client_threads, finished_threads, client_socket,
                   new_thread, workerVars, terminated>>

\* Mutation of Select: the readiness of the listening socket is tested in the
\* turn after the one that reported it.
SelectLate ==
    /\ \/ listener = "listening" /\ backlog > 0 /\ MainGoto("select", "loop")
       \/ listener = "unbound" /\ MainGoto("select", "loop")
       \/ listener = "invalid" /\ MainGoto("select", "finallock")
    /\ UNCHANGED <<shared, containers, client_socket, new_thread, workerVars,
                   terminated>>

\* select() with a 100 ms timeout: readiness of the listening socket is level
\* triggered, a socket that is not bound never becomes ready, and a socket
\* that is no socket is an error, which ends the accept loop.
Select ==
    /\ \/ listener = "listening" /\ backlog > 0 /\ MainGoto("select", "accept")
       \/ listener = "listening" /\ backlog = 0 /\ MainGoto("select", "loop")
       \/ listener = "unbound"   /\ MainGoto("select", "loop")
       \/ listener = "invalid"   /\ MainGoto("select", "finallock")
    /\ UNCHANGED <<shared, containers, client_socket, new_thread, workerVars,
                   terminated>>

\* A handle value the system may give to a new connection.
Available(s) ==
    /\ handle[s] = None
    /\ HandleReuse \/ client_threads[s] = None

\* Mutation of Accept: goes on although no connection is left to accept.
AcceptUnchecked(s) ==
    /\ Available(s)
    /\ MainGoto("accept", "register")
    /\ backlog' = backlog - 1
    /\ handle' = [handle EXCEPT ![s] = Main]
    /\ client_socket' = s
    /\ UNCHANGED <<running, listener, containers, new_thread, workerVars,
                   terminated>>

Accept(s) ==
    /\ listener = "listening" /\ backlog > 0
    /\ Available(s)
    /\ MainGoto("accept", "register")
    /\ backlog' = backlog - 1
    /\ handle' = [handle EXCEPT ![s] = Main]
    /\ client_socket' = s
    /\ UNCHANGED <<running, listener, containers, new_thread, workerVars,
                   terminated>>

\* accept() returns INVALID_SOCKET: the client is gone (the listening socket
\* does not block), the handles are exhausted, or the listener was closed.
AcceptFails ==
    /\ \/ backlog = 0
       \/ listener # "listening"
       \/ \A s \in Sockets : ~Available(s)
    /\ MainGoto("accept", "loop")
    /\ UNCHANGED <<shared, containers, client_socket, new_thread, workerVars,
                   terminated>>

\* std::thread's constructor: the worker runs from here on, before the object
\* that represents it is stored.
SpawnThread(t) ==
    /\ phase[t] = "unused"
    /\ MainGoto("spawn", "insert")
    /\ new_thread' = t
    /\ phase' = [phase EXCEPT ![t] = "loop"]
    /\ sock' = [sock EXCEPT ![t] = client_socket]
    /\ handle' = [handle EXCEPT ![client_socket] = t]
    /\ UNCHANGED <<running, listener, backlog, containers, client_socket,
                   terminated>>

\* The constructor throws std::system_error, which nothing catches.
SpawnFails ==
    /\ mainpc = "spawn"
    /\ \A t \in Tids : Live(t)
    /\ terminated' = TRUE
    /\ UNCHANGED <<shared, containers, mainVars, workerVars>>

\* Mutation of InsertThread: the entry is replaced without looking at it.
InsertOverwrites ==
    /\ mainpc = "insert"
    /\ client_threads' = [client_threads EXCEPT ![client_socket] = new_thread]
    /\ threads_mutex' = None
    /\ mainpc' = "loop"
    /\ new_thread' = None
    /\ UNCHANGED <<shared, finished_threads, client_socket, workerVars,
                   terminated>>

\* client_threads[client_socket] = std::move(thread): assigning to a
\* std::thread that is still joinable calls std::terminate.
InsertThread ==
    /\ mainpc = "insert"
    /\ IF client_threads[client_socket] # None
       THEN /\ terminated' = TRUE
            /\ UNCHANGED <<containers, mainVars>>
       ELSE /\ client_threads' =
                   [client_threads EXCEPT ![client_socket] = new_thread]
            /\ threads_mutex' = None
            /\ mainpc' = "loop"
            /\ new_thread' = None
            /\ UNCHANGED <<finished_threads, client_socket, terminated>>
    /\ UNCHANGED <<shared, workerVars>>

\* After the loop: close and join what is left, holding threads_mutex.
FinalClose(s) ==
    /\ client_threads[s] # None
    /\ MainGoto("final", "join")
    /\ handle' = [handle EXCEPT ![s] = None]
    /\ client_socket' = s
    /\ UNCHANGED <<running, listener, backlog, containers, new_thread,
                   workerVars, terminated>>

FinalJoin ==
    /\ mainpc = "join"
    /\ phase[client_threads[client_socket]] = "exited"
    /\ mainpc' = "final"
    /\ phase' = [phase EXCEPT ![client_threads[client_socket]] = "unused"]
    /\ client_threads' = [client_threads EXCEPT ![client_socket] = None]
    /\ UNCHANGED <<shared, threads_mutex, finished_threads, client_socket,
                   new_thread, sock, terminated>>

FinalDone ==
    /\ \A s \in Sockets : client_threads[s] = None
    /\ MainGoto("final", "returned")
    /\ threads_mutex' = None
    /\ UNCHANGED <<shared, client_threads, finished_threads, client_socket,
                   new_thread, workerVars, terminated>>

-----------------------------------------------------------------------------
(* The workers: ThreadedServer::handle_client_thread. *)

WorkerGoto(t, from, to) ==
    /\ phase[t] = from
    /\ phase' = [phase EXCEPT ![t] = to]

WorkerLoop(t) ==
    /\ \/ running /\ WorkerGoto(t, "loop", "recv")
       \/ ~running /\ WorkerGoto(t, "loop", "close")
    /\ UNCHANGED <<shared, containers, mainVars, sock, terminated>>

\* The connection behind the worker's handle has not been closed under it.
Connected(t) == handle[sock[t]] = t

RecvTimeout(t) ==
    /\ WorkerGoto(t, "recv", "loop")
    /\ Connected(t)
    /\ UNCHANGED <<shared, containers, mainVars, sock, terminated>>

RecvData(t) ==
    /\ WorkerGoto(t, "recv", "handle")
    /\ Connected(t)
    /\ UNCHANGED <<shared, containers, mainVars, sock, terminated>>

\* recv returns 0, or an error other than the timeout.
RecvEnds(t) ==
    /\ WorkerGoto(t, "recv", "close")
    /\ UNCHANGED <<shared, containers, mainVars, sock, terminated>>

\* Mutation of HandleMessages: "exit" closes the connection on the spot, and
\* the code after the label "disconnect" closes it again.
HandleMessagesClosing(t) ==
    /\ \/ WorkerGoto(t, "handle", "loop") /\ UNCHANGED handle
       \/ /\ WorkerGoto(t, "handle", "close")
          /\ handle' = [handle EXCEPT ![sock[t]] = None]
    /\ UNCHANGED <<running, listener, backlog, containers, mainVars, sock,
                   terminated>>

\* All complete messages in the buffer: none of them ends the session, or one
\* is "exit" or throws.
HandleMessages(t) ==
    /\ \/ WorkerGoto(t, "handle", "loop")
       \/ WorkerGoto(t, "handle", "close")
    /\ UNCHANGED <<shared, containers, mainVars, sock, terminated>>

\* Mutation of CloseSocket: the worker announces its end as soon as it has
\* closed its socket, before it takes threads_mutex.
CloseAndAnnounce(t) ==
    /\ WorkerGoto(t, "close", "lock")
    /\ handle' = [handle EXCEPT ![sock[t]] = None]
    /\ finished_threads' = finished_threads \cup {t}
    /\ UNCHANGED <<running, listener, backlog, threads_mutex, client_threads,
                   mainVars, sock, terminated>>

\* closesocket closes whatever the handle value stands for by now.
CloseSocket(t) ==
    /\ WorkerGoto(t, "close", "lock")
    /\ handle' = [handle EXCEPT ![sock[t]] = None]
    /\ UNCHANGED <<running, listener, backlog, containers, mainVars, sock,
                   terminated>>

LockFinished(t) ==
    /\ threads_mutex = None
    /\ WorkerGoto(t, "lock", "push")
    /\ threads_mutex' = t
    /\ UNCHANGED <<shared, client_threads, finished_threads, mainVars, sock,
                   terminated>>

\* Mutation of PushFinished: the id is not recorded.
PushForgotten(t) ==
    /\ WorkerGoto(t, "push", "exiting")
    /\ threads_mutex' = None
    /\ UNCHANGED <<shared, client_threads, finished_threads, mainVars, sock,
                   terminated>>

PushFinished(t) ==
    /\ WorkerGoto(t, "push", "exiting")
    /\ finished_threads' = finished_threads \cup {t}
    /\ threads_mutex' = None
    /\ UNCHANGED <<shared, client_threads, mainVars, sock, terminated>>

ExitThread(t) ==
    /\ WorkerGoto(t, "exiting", "exited")
    /\ UNCHANGED <<shared, containers, mainVars, sock, terminated>>

-----------------------------------------------------------------------------

MainStep ==
    \/ MainLoop \/ CleanupLock \/ CleanupDone \/ Select \/ AcceptFails
    \/ RegisterLock \/ SpawnFails \/ InsertThread
    \/ FinalLock \/ FinalJoin \/ FinalDone
    \/ \E t \in Tids : CleanupJoin(t) \/ SpawnThread(t)
    \/ \E s \in Sockets : Accept(s) \/ FinalClose(s)

WorkerStep(t) ==
    \/ WorkerLoop(t) \/ RecvTimeout(t) \/ RecvData(t) \/ RecvEnds(t)
    \/ HandleMessages(t) \/ CloseSocket(t) \/ LockFinished(t)
    \/ PushFinished(t) \/ ExitThread(t)

Clients == Connect \/ Abandon

\* The process is over, or run() has returned to main: nothing left to do.
Stopped ==
    /\ \/ terminated
       \/ mainpc = "returned" /\ \A t \in Tids : ~Live(t)
    /\ UNCHANGED vars

Next ==
    \/ ~terminated /\ (MainStep \/ Clients \/ \E t \in Tids : WorkerStep(t))
    \/ Stopped

Spec == Init /\ [][Next]_vars

\* A worker's steps other than handling messages, which may block in send for
\* as long as the peer does not read.
WorkerProgress(t) ==
    \/ WorkerLoop(t) \/ RecvTimeout(t) \/ RecvData(t) \/ RecvEnds(t)
    \/ CloseSocket(t) \/ LockFinished(t) \/ PushFinished(t) \/ ExitThread(t)

\* The scheduler runs every thread, and a mutex that is free again and again is
\* eventually granted to a waiting worker.  Clients owe nothing, and a worker
\* may stay in HandleMessages for ever.
FairSpec ==
    /\ Spec
    /\ WF_vars(~terminated /\ MainStep)
    /\ \A t \in Tids : WF_vars(~terminated /\ WorkerProgress(t))
    /\ \A t \in Tids : SF_vars(~terminated /\ LockFinished(t))

-----------------------------------------------------------------------------
(* Properties. *)

\* Every variable stays in its range; the listen queue never goes below zero.
TypeOK ==
    /\ running \in BOOLEAN
    /\ listener \in ListenerStates
    /\ backlog \in 0 .. BacklogBound
    /\ handle \in [Sockets -> Tids \cup {Main, None}]
    /\ threads_mutex \in Tids \cup {Main, None}
    /\ client_threads \in [Sockets -> Tids \cup {None}]
    /\ finished_threads \in SUBSET Tids
    /\ mainpc \in MainStates
    /\ client_socket \in Sockets \cup {None}
    /\ new_thread \in Tids \cup {None}
    /\ phase \in [Tids -> Phases]
    /\ sock \in [Tids -> Sockets \cup {None}]
    /\ terminated \in BOOLEAN

\* Every worker that is not joined can be joined: it is stored in
\* client_threads under its own handle, or it is the temporary run() is about
\* to store; and every stored entry is such a worker (lines 41-44, 304-322).
ThreadsAccounted ==
    /\ \A t \in Tids : Live(t) =>
          \/ sock[t] \in Sockets /\ client_threads[sock[t]] = t
          \/ mainpc = "insert" /\ new_thread = t
    /\ \A s \in Sockets : client_threads[s] # None =>
          Live(client_threads[s]) /\ sock[client_threads[s]] = s

\* cleanup_finished_threads joins while it holds threads_mutex.  This cannot
\* hang: an id it finds belongs to a worker that has released the mutex for
\* the last time, and the worker's entry is there to be joined.
CleanupSound ==
    mainpc = "cleanup" =>
        \A t \in finished_threads :
            /\ phase[t] \in {"exiting", "exited"}
            /\ EntriesOf(t) # {}

\* Until run() closes what is left, a worker that still serves has the
\* connection behind its handle to itself: no other thread has closed the
\* handle, so it was not reissued to another client.
ServingOwnsHandle ==
    mainpc \notin Leaving =>
        \A t \in Tids : phase[t] \in Serving => handle[sock[t]] = t

\* The process does not call std::terminate.
ServerSurvives == ~terminated

\* When it does, accept() has reissued a handle whose worker is not joined yet
\* (line 42); in particular the threads never run out.
DiesOnlyOfReuse ==
    terminated => /\ mainpc = "insert"
                  /\ client_threads[client_socket] \notin {None, new_thread}

\* A worker that has left its loop is joined and its entry removed, so that
\* ids, handles and map entries do not leak.
FinishedReaped ==
    \A t \in Tids :
        phase[t] \in {"close", "lock", "push", "exiting", "exited"}
            ~> (phase[t] = "unused" \/ terminated)

\* A client in the listen queue gets a handle, unless the clients ahead of it
\* leave no handle or the queue empties.
BacklogServed ==
    (listener = "listening" /\ backlog > 0)
        ~> \/ mainpc = "register" \/ backlog = 0 \/ terminated
           \/ \A s \in Sockets : ~Available(s)

\* The server as a pool of connections: the one run() has accepted and no worker
\* has yet, the ones of the workers that live, and the workers that have closed
\* theirs.
Unassigned == IF mainpc \in {"register", "spawn"} THEN client_socket ELSE None
Assigned   == [t \in Tids |-> IF Live(t) THEN sock[t] ELSE None]
DoneWith   == {t \in Tids : Live(t) /\ phase[t] \notin Serving}
Openness   == IF terminated THEN "dead"
              ELSE IF mainpc = "returned" THEN "over"
              ELSE IF mainpc \in Leaving THEN "closing" ELSE "open"

Pool == INSTANCE ConnectionPool
    WITH Workers <- Tids, Connections <- Sockets, queue <- backlog,
         taken <- Unassigned, serves <- Assigned, done <- DoneWith, open <- Openness

\* Every client is taken once, by a worker that shares its connection with nobody
\* and is waited for before run() returns, whatever handles the system reissues
\* (lines 17-60 and 300-325).
ServesConnections == Pool!Spec

=============================================================================
