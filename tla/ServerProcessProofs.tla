-------------------------- MODULE ServerProcessProofs --------------------------
(***************************************************************************)
(* Theorems about the server's threads, for any number of handles and      *)
(* threads, with and without the reuse of handles: first about the server  *)
(* of ThreadedServer, then about the process that Ctrl+C ends.             *)
(*                                                                         *)
(* None of the safety properties is inductive.  For the server IInv is: it *)
(* adds who holds threads_mutex where, whose connection is behind the      *)
(* handle run() works on, and that a thread in finished_threads is past    *)
(* its last use of the mutex.  In the end both are shown to implement the  *)
(* pool of connections of module ConnectionPool.                           *)
(***************************************************************************)
EXTENDS ServerProcess, FiniteSetTheorems, TLAPS

\* threads_mutex is held exactly in the blocks a lock_guard opens.
MutexInv ==
    /\ threads_mutex = Main <=> mainpc \in MainLocked
    /\ \A t \in Tids : threads_mutex = t <=> phase[t] = "push"

\* The thread run() is about to store is live and not stored yet; the entry
\* run() closes and joins in the end is there.
TemporaryInv ==
    /\ mainpc = "insert" =>
          /\ new_thread \in Tids /\ client_socket \in Sockets
          /\ Live(new_thread) /\ sock[new_thread] = client_socket
          /\ \A s \in Sockets : client_threads[s] # new_thread
    /\ mainpc = "join" =>
          client_socket \in Sockets /\ client_threads[client_socket] # None

\* Until the final joins, a finished thread is past its last use of the mutex.
FinishedInv ==
    mainpc \notin Leaving =>
        \A t \in finished_threads : phase[t] \in {"exiting", "exited"}

\* The handle accept() returned is the main thread's until a worker runs.
HandleInv ==
    mainpc \in {"register", "spawn"} =>
        client_socket \in Sockets /\ handle[client_socket] = Main

\* Without reuse of handles the entry a new thread goes to is free.
FreshInv ==
    (~HandleReuse /\ mainpc \in {"register", "spawn", "insert"}) =>
        client_threads[client_socket] = None

IInv ==
    /\ TypeOK
    /\ MutexInv
    /\ ThreadsAccounted
    /\ TemporaryInv
    /\ FinishedInv
    /\ HandleInv
    /\ ServingOwnsHandle
    /\ FreshInv

-----------------------------------------------------------------------------
(* Type correctness. *)

LEMMA TypeInit == Init => TypeOK
<1> SUFFICES ASSUME Init PROVE TypeOK
  OBVIOUS
<1>1. /\ backlog \in 0 .. BacklogBound
      /\ handle \in [Sockets -> Tids \cup {Main, None}]
      /\ client_threads \in [Sockets -> Tids \cup {None}]
      /\ phase \in [Tids -> Phases]
      /\ sock \in [Tids -> Sockets \cup {None}]
  BY ServerConstants DEF ServerConstants, Init, Phases
<1> QED
  BY <1>1 DEF Init, TypeOK, MainStates

\* The steps of the main thread keep the types.
LEMMA TypeMain == ASSUME TypeOK, MainStep PROVE TypeOK'
<1> USE ServerConstants
        DEF ServerConstants, TypeOK, shared, containers, mainVars, workerVars, MainGoto,
            MainStates, Phases
<1>1. CASE MainLoop  BY <1>1 DEF MainLoop
<1>2. CASE CleanupLock  BY <1>2 DEF CleanupLock, MainLock
<1>3. CASE CleanupDone  BY <1>3 DEF CleanupDone
<1>4. CASE Select  BY <1>4 DEF Select
<1>5. CASE AcceptFails  BY <1>5 DEF AcceptFails
<1>6. CASE RegisterLock  BY <1>6 DEF RegisterLock, MainLock
<1>7. CASE SpawnFails  BY <1>7 DEF SpawnFails
<1>8. CASE InsertThread  BY <1>8 DEF InsertThread
<1>9. CASE FinalLock  BY <1>9 DEF FinalLock, MainLock
<1>10. CASE FinalJoin  BY <1>10 DEF FinalJoin
<1>11. CASE FinalDone  BY <1>11 DEF FinalDone
<1>12. ASSUME NEW t \in Tids, CleanupJoin(t) PROVE TypeOK'
  BY <1>12 DEF CleanupJoin
<1>13. ASSUME NEW t \in Tids, SpawnThread(t) PROVE TypeOK'
  BY <1>13 DEF SpawnThread
<1>14. ASSUME NEW s \in Sockets, Accept(s) PROVE TypeOK'
  BY <1>14 DEF Accept
<1>15. ASSUME NEW s \in Sockets, FinalClose(s) PROVE TypeOK'
  BY <1>15 DEF FinalClose
<1> QED
  BY <1>1, <1>2, <1>3, <1>4, <1>5, <1>6, <1>7, <1>8, <1>9, <1>10, <1>11,
     <1>12, <1>13, <1>14, <1>15 DEF MainStep

\* So do the steps of a worker.
LEMMA TypeWorker == ASSUME TypeOK, NEW t \in Tids, WorkerStep(t) PROVE TypeOK'
<1> USE ServerConstants
        DEF ServerConstants, TypeOK, shared, containers, mainVars, workerVars, WorkerGoto, Phases
<1>1. CASE WorkerLoop(t)  BY <1>1 DEF WorkerLoop
<1>2. CASE RecvTimeout(t)  BY <1>2 DEF RecvTimeout
<1>3. CASE RecvData(t)  BY <1>3 DEF RecvData
<1>4. CASE RecvEnds(t)  BY <1>4 DEF RecvEnds
<1>5. CASE HandleMessages(t)  BY <1>5 DEF HandleMessages
<1>6. CASE CloseSocket(t)  BY <1>6 DEF CloseSocket
<1>7. CASE LockFinished(t)  BY <1>7 DEF LockFinished
<1>8. CASE PushFinished(t)  BY <1>8 DEF PushFinished
<1>9. CASE ExitThread(t)  BY <1>9 DEF ExitThread
<1> QED
  BY <1>1, <1>2, <1>3, <1>4, <1>5, <1>6, <1>7, <1>8, <1>9 DEF WorkerStep

LEMMA TypeStep == TypeOK /\ [Next]_vars => TypeOK'
<1> SUFFICES ASSUME TypeOK, [Next]_vars PROVE TypeOK'
  OBVIOUS
<1>1. CASE MainStep  BY <1>1, TypeMain
<1>2. CASE Clients
  BY <1>2, ServerConstants
  DEF ServerConstants, Clients, Connect, Abandon, TypeOK, containers, mainVars,
      workerVars
<1>3. CASE \E t \in Tids : WorkerStep(t)  BY <1>3, TypeWorker
<1>4. CASE UNCHANGED vars
  BY <1>4 DEF vars, shared, containers, mainVars, workerVars, TypeOK
<1> QED
  BY <1>1, <1>2, <1>3, <1>4 DEF Next, Stopped

\* Every variable of the server stays in its range.
THEOREM TypeCorrect == Spec => []TypeOK
BY TypeInit, TypeStep, PTL DEF Spec

-----------------------------------------------------------------------------
(* The inductive invariant. *)

LEMMA InvInit == Init => IInv
<1> SUFFICES ASSUME Init PROVE IInv
  OBVIOUS
<1>1. TypeOK
  BY TypeInit
<1> QED
  BY <1>1, ServerConstants
  DEF ServerConstants, Init, IInv, MutexInv, ThreadsAccounted, TemporaryInv,
      FinishedInv, HandleInv, ServingOwnsHandle, FreshInv, MainLocked, Leaving,
      Serving, Live

LEMMA InvMain == ASSUME IInv, MainStep PROVE IInv'
<1>0. TypeOK'
  BY TypeMain DEF IInv
<1> USE ServerConstants, <1>0
    DEF ServerConstants, IInv, TypeOK, MutexInv, ThreadsAccounted, TemporaryInv,
        FinishedInv, HandleInv, ServingOwnsHandle, FreshInv, MainLocked,
        Leaving, Serving, Live, shared, containers, mainVars, workerVars,
        MainGoto
<1>1. CASE MainLoop  BY <1>1 DEF MainLoop
<1>2. CASE CleanupLock  BY <1>2 DEF CleanupLock, MainLock
<1>3. CASE CleanupDone  BY <1>3 DEF CleanupDone
<1>4. CASE Select  BY <1>4 DEF Select
<1>5. CASE AcceptFails  BY <1>5 DEF AcceptFails
<1>6. CASE RegisterLock  BY <1>6 DEF RegisterLock, MainLock
<1>7. CASE SpawnFails  BY <1>7 DEF SpawnFails
<1>8. CASE InsertThread  BY <1>8 DEF InsertThread
<1>9. CASE FinalLock  BY <1>9 DEF FinalLock, MainLock
<1>10. CASE FinalJoin  BY <1>10 DEF FinalJoin
<1>11. CASE FinalDone  BY <1>11 DEF FinalDone
<1>12. ASSUME NEW t \in Tids, CleanupJoin(t) PROVE IInv'
  BY <1>12 DEF CleanupJoin, EntriesOf
<1>13. ASSUME NEW t \in Tids, SpawnThread(t) PROVE IInv'
  BY <1>13 DEF SpawnThread
<1>14. ASSUME NEW s \in Sockets, Accept(s) PROVE IInv'
  BY <1>14 DEF Accept, Available
<1>15. ASSUME NEW s \in Sockets, FinalClose(s) PROVE IInv'
  BY <1>15 DEF FinalClose
<1> QED
  BY <1>1, <1>2, <1>3, <1>4, <1>5, <1>6, <1>7, <1>8, <1>9, <1>10, <1>11,
     <1>12, <1>13, <1>14, <1>15 DEF MainStep

LEMMA InvWorker == ASSUME IInv, NEW t \in Tids, WorkerStep(t) PROVE IInv'
<1>0. TypeOK'
  BY TypeWorker DEF IInv
<1> USE ServerConstants, <1>0
    DEF ServerConstants, IInv, TypeOK, MutexInv, ThreadsAccounted, TemporaryInv,
        FinishedInv, HandleInv, ServingOwnsHandle, FreshInv, MainLocked,
        Leaving, Serving, Live, shared, containers, mainVars, workerVars,
        WorkerGoto
<1>1. CASE WorkerLoop(t)  BY <1>1 DEF WorkerLoop
<1>2. CASE RecvTimeout(t)  BY <1>2 DEF RecvTimeout
<1>3. CASE RecvData(t)  BY <1>3 DEF RecvData
<1>4. CASE RecvEnds(t)  BY <1>4 DEF RecvEnds
<1>5. CASE HandleMessages(t)  BY <1>5 DEF HandleMessages
<1>6. CASE CloseSocket(t)  BY <1>6 DEF CloseSocket
<1>7. CASE LockFinished(t)  BY <1>7 DEF LockFinished
<1>8. CASE PushFinished(t)  BY <1>8 DEF PushFinished
<1>9. CASE ExitThread(t)  BY <1>9 DEF ExitThread
<1> QED
  BY <1>1, <1>2, <1>3, <1>4, <1>5, <1>6, <1>7, <1>8, <1>9 DEF WorkerStep

LEMMA InvStep == IInv /\ [Next]_vars => IInv'
<1> SUFFICES ASSUME IInv, [Next]_vars PROVE IInv'
  OBVIOUS
<1>0. TypeOK'
  BY TypeStep DEF IInv
<1>1. CASE MainStep  BY <1>1, InvMain
<1>2. CASE Clients
  BY <1>0, <1>2
  DEF Clients, Connect, Abandon, containers, mainVars, workerVars, IInv,
      MutexInv, ThreadsAccounted, TemporaryInv, FinishedInv, HandleInv,
      ServingOwnsHandle, FreshInv, Live
<1>3. CASE \E t \in Tids : WorkerStep(t)  BY <1>3, InvWorker
<1>4. CASE UNCHANGED vars
  BY <1>0, <1>4
  DEF vars, shared, containers, mainVars, workerVars, IInv, MutexInv,
      ThreadsAccounted, TemporaryInv, FinishedInv, HandleInv,
      ServingOwnsHandle, FreshInv, Live
<1> QED
  BY <1>1, <1>2, <1>3, <1>4 DEF Next, Stopped

\* The invariant holds in every reachable state.
THEOREM InvariantHolds == Spec => []IInv
BY InvInit, InvStep, PTL DEF Spec

-----------------------------------------------------------------------------
(* The safety properties. *)

\* No worker is lost: each unjoined thread is stored under its own handle, or
\* is the one run() is about to store, and nothing else is stored.
THEOREM NoWorkerLost == Spec => []ThreadsAccounted
<1>1. IInv => ThreadsAccounted
  BY DEF IInv
<1> QED
  BY <1>1, InvariantHolds, PTL

\* cleanup_finished_threads cannot hang in join while it holds threads_mutex.
THEOREM CleanupNeverBlocks == Spec => []CleanupSound
<1>1. IInv => CleanupSound
  <2> SUFFICES ASSUME IInv, mainpc = "cleanup", NEW t \in finished_threads
               PROVE  phase[t] \in {"exiting", "exited"} /\ EntriesOf(t) # {}
    BY DEF CleanupSound
  <2>1. t \in Tids /\ phase[t] \in {"exiting", "exited"}
    BY DEF IInv, TypeOK, FinishedInv, Leaving
  <2>2. sock[t] \in Sockets /\ client_threads[sock[t]] = t
    BY <2>1 DEF IInv, ThreadsAccounted, Live
  <2> QED
    BY <2>1, <2>2 DEF EntriesOf
<1> QED
  BY <1>1, InvariantHolds, PTL

\* A worker that serves has the connection behind its handle to itself, even
\* when the system reissues handles at once.
THEOREM ConnectionsNotShared == Spec => []ServingOwnsHandle
<1>1. IInv => ServingOwnsHandle
  BY DEF IInv
<1> QED
  BY <1>1, InvariantHolds, PTL

-----------------------------------------------------------------------------
(* Survival.  The run handle_reuse shows that the server may end in        *)
(* std::terminate; these theorems say what it takes.                       *)

\* The system can start a thread for every connection it can represent, and
\* one more where the handle of an unjoined worker may be reissued.
EnoughThreads ==
    \/ Cardinality(Sockets) < Cardinality(Tids)
    \/ ~HandleReuse /\ Cardinality(Sockets) = Cardinality(Tids)

\* Then one is left when run() starts a worker: the live threads are stored
\* under different handles, and not under the one just accepted if that is new.
LEMMA ThreadAvailable ==
  ASSUME IInv, mainpc = "spawn", EnoughThreads
  PROVE  \E t \in Tids : ~Live(t)
<1> SUFFICES ASSUME \A t \in Tids : Live(t) PROVE FALSE
  OBVIOUS
<1> DEFINE stored == {s \in Sockets : client_threads[s] # None}
<1>1. \A t \in Tids : sock[t] \in Sockets /\ client_threads[sock[t]] = t
  BY DEF IInv, ThreadsAccounted
<1>2. sock \in [Tids -> stored]
  BY <1>1, ServerConstants DEF ServerConstants, IInv, TypeOK
<1>3. IsFiniteSet(stored) /\ Cardinality(stored) < Cardinality(Tids)
  <2>1. /\ IsFiniteSet(stored)
        /\ Cardinality(stored) <= Cardinality(Sockets)
        /\ Cardinality(Sockets) = Cardinality(stored) => Sockets = stored
    BY ServerConstants, FS_Subset, stored \in SUBSET Sockets DEF ServerConstants
  <2>2. /\ Cardinality(stored) \in Nat
        /\ Cardinality(Sockets) \in Nat /\ Cardinality(Tids) \in Nat
    BY <2>1, ServerConstants, FS_CardinalityType DEF ServerConstants
  <2>3. ~HandleReuse => Sockets # stored
    BY DEF IInv, HandleInv, FreshInv
  <2> HIDE DEF stored
  <2> QED
    BY <2>1, <2>2, <2>3 DEF EnoughThreads
<1>4. \E t, u \in Tids : t # u /\ sock[t] = sock[u]
  <2> HIDE DEF stored
  <2> QED
    BY <1>2, <1>3, ServerConstants, FS_PigeonHole DEF ServerConstants
<1> QED
  BY <1>1, <1>4

\* If std::terminate is called, a handle was reissued under an unjoined worker.
THEOREM OnlyReuseIsFatal ==
  ASSUME EnoughThreads
  PROVE  Spec => []DiesOnlyOfReuse
<1>1. Init => DiesOnlyOfReuse
  BY DEF Init, DiesOnlyOfReuse
<1>2. IInv /\ DiesOnlyOfReuse /\ [Next]_vars => DiesOnlyOfReuse'
  <2> SUFFICES ASSUME IInv, DiesOnlyOfReuse, [Next]_vars
               PROVE  DiesOnlyOfReuse'
    OBVIOUS
  <2>1. CASE UNCHANGED vars
    BY <2>1 DEF vars, containers, mainVars, DiesOnlyOfReuse
  <2>2. CASE ~terminated /\ SpawnFails
    BY <2>2, ThreadAvailable DEF SpawnFails
  <2>3. CASE ~terminated /\ InsertThread
    BY <2>3 DEF InsertThread, containers, mainVars, DiesOnlyOfReuse, IInv,
                TemporaryInv
  <2> SUFFICES ASSUME ~terminated PROVE ~terminated' \/ SpawnFails \/ InsertThread
    BY <2>1, <2>2, <2>3 DEF Next, Stopped, DiesOnlyOfReuse
  <2>4. CASE MainLoop \/ CleanupLock \/ CleanupDone \/ Select \/ AcceptFails
             \/ RegisterLock \/ FinalLock \/ FinalJoin \/ FinalDone
    BY <2>4 DEF MainLoop, CleanupLock, CleanupDone, Select, AcceptFails,
                RegisterLock, FinalLock, MainLock, FinalJoin, FinalDone
  <2>5. ASSUME NEW t \in Tids, CleanupJoin(t) \/ SpawnThread(t)
        PROVE  ~terminated'
    BY <2>5 DEF CleanupJoin, SpawnThread
  <2>6. ASSUME NEW s \in Sockets, Accept(s) \/ FinalClose(s)
        PROVE  ~terminated'
    BY <2>6 DEF Accept, FinalClose
  <2>7. ASSUME NEW t \in Tids, WorkerStep(t) PROVE ~terminated'
    BY <2>7 DEF WorkerStep, WorkerLoop, RecvTimeout, RecvData, RecvEnds,
                HandleMessages, CloseSocket, LockFinished, PushFinished,
                ExitThread
  <2>8. CASE Clients
    BY <2>8 DEF Clients, Connect, Abandon
  <2>9. CASE UNCHANGED vars
    BY <2>9 DEF vars
  <2> QED
    BY <2>4, <2>5, <2>6, <2>7, <2>8, <2>9 DEF Next, MainStep, Stopped
<1> QED
  BY <1>1, <1>2, InvariantHolds, PTL DEF Spec

\* So the process never calls std::terminate on a system that does not reissue
\* the handle of an unjoined worker.
THEOREM SurvivesWithoutReuse ==
  ASSUME ~HandleReuse, EnoughThreads
  PROVE  Spec => []ServerSurvives
<1>1. IInv /\ DiesOnlyOfReuse => ServerSurvives
  BY DEF IInv, FreshInv, DiesOnlyOfReuse, ServerSurvives
<1> QED
  BY <1>1, InvariantHolds, OnlyReuseIsFatal, PTL

-----------------------------------------------------------------------------
(* The process.  After WSACleanup the handles are nobody's, and IInv does  *)
(* not hold.  ProcessInv is the part that Ctrl+C leaves: what threads      *)
(* there are, where they are stored and who holds the mutex.               *)

\* The entry run() works on has a handle for its key.
EntryInv == mainpc \in {"register", "spawn"} => client_socket \in Sockets

ThreadsInv ==
    /\ TypeOK /\ MutexInv /\ ThreadsAccounted /\ TemporaryInv /\ EntryInv

\* Who deletes the server has seen to it that no client is accepted any more.
ClosedInv ==
    /\ console \in {"winsock", "delete", "exit"} => listener = "invalid"
    /\ deleting[Console] # "no" => console \in {"delete", "exit"}
    /\ deleting[Main] # "no" => mainpc = "returned"

Torn == \E d \in Deleters : deleting[d] \in {"base", "done"}

\* After client_threads is destroyed one thread is left at most: the one run()
\* is about to store, or to start.
TornInv ==
    (~terminated /\ Torn) =>
        /\ \A t, u \in Tids : Live(t) /\ Live(u) => t = u
        /\ mainpc \in {"register", "spawn"} => \A t \in Tids : ~Live(t)

ProcessTyped == deleting \in [Deleters -> DeleteStates]

ProcessInv == ThreadsInv /\ ProcessTyped /\ ClosedInv /\ TornInv

-----------------------------------------------------------------------------
(* Steps of the server. *)

LEMMA ThreadsMain == ASSUME ThreadsInv, MainStep PROVE ThreadsInv'
<1>0. TypeOK'
  BY TypeMain DEF ThreadsInv
<1> USE ServerConstants, <1>0
    DEF ServerConstants, ThreadsInv, TypeOK, MutexInv, ThreadsAccounted, TemporaryInv,
        EntryInv, MainLocked, Live, shared, containers, mainVars, workerVars, MainGoto
<1>1. CASE MainLoop  BY <1>1 DEF MainLoop
<1>2. CASE CleanupLock  BY <1>2 DEF CleanupLock, MainLock
<1>3. CASE CleanupDone  BY <1>3 DEF CleanupDone
<1>4. CASE Select  BY <1>4 DEF Select
<1>5. CASE AcceptFails  BY <1>5 DEF AcceptFails
<1>6. CASE RegisterLock  BY <1>6 DEF RegisterLock, MainLock
<1>7. CASE SpawnFails  BY <1>7 DEF SpawnFails
<1>8. CASE InsertThread  BY <1>8 DEF InsertThread
<1>9. CASE FinalLock  BY <1>9 DEF FinalLock, MainLock
<1>10. CASE FinalJoin  BY <1>10 DEF FinalJoin
<1>11. CASE FinalDone  BY <1>11 DEF FinalDone
<1>12. ASSUME NEW t \in Tids, CleanupJoin(t) PROVE ThreadsInv'
  BY <1>12 DEF CleanupJoin, EntriesOf
<1>13. ASSUME NEW t \in Tids, SpawnThread(t) PROVE ThreadsInv'
  BY <1>13 DEF SpawnThread
<1>14. ASSUME NEW s \in Sockets, Accept(s) PROVE ThreadsInv'
  BY <1>14 DEF Accept
<1>15. ASSUME NEW s \in Sockets, FinalClose(s) PROVE ThreadsInv'
  BY <1>15 DEF FinalClose
<1> QED
  BY <1>1, <1>2, <1>3, <1>4, <1>5, <1>6, <1>7, <1>8, <1>9, <1>10, <1>11,
     <1>12, <1>13, <1>14, <1>15 DEF MainStep

LEMMA ThreadsWorker ==
  ASSUME ThreadsInv, NEW t \in Tids, WorkerStep(t) PROVE ThreadsInv'
<1>0. TypeOK'
  BY TypeWorker DEF ThreadsInv
<1> USE ServerConstants, <1>0
    DEF ServerConstants, ThreadsInv, TypeOK, MutexInv, ThreadsAccounted, TemporaryInv,
        EntryInv, MainLocked, Live, shared, containers, mainVars, workerVars, WorkerGoto
<1>1. CASE WorkerLoop(t)  BY <1>1 DEF WorkerLoop
<1>2. CASE RecvTimeout(t)  BY <1>2 DEF RecvTimeout
<1>3. CASE RecvData(t)  BY <1>3 DEF RecvData
<1>4. CASE RecvEnds(t)  BY <1>4 DEF RecvEnds
<1>5. CASE HandleMessages(t)  BY <1>5 DEF HandleMessages
<1>6. CASE CloseSocket(t)  BY <1>6 DEF CloseSocket
<1>7. CASE LockFinished(t)  BY <1>7 DEF LockFinished
<1>8. CASE PushFinished(t)  BY <1>8 DEF PushFinished
<1>9. CASE ExitThread(t)  BY <1>9 DEF ExitThread
<1> QED
  BY <1>1, <1>2, <1>3, <1>4, <1>5, <1>6, <1>7, <1>8, <1>9 DEF WorkerStep

\* Steps that leave the threads alone.
LEMMA ThreadsUnchanged ==
  ASSUME ThreadsInv, UNCHANGED <<containers, mainVars, workerVars>>,
         running' \in BOOLEAN, terminated' \in BOOLEAN,
         listener' \in ListenerStates, backlog' \in 0 .. BacklogBound,
         handle' \in [Sockets -> Tids \cup {Main, None}]
  PROVE  ThreadsInv'
BY DEF ThreadsInv, TypeOK, MutexInv, ThreadsAccounted, TemporaryInv, EntryInv,
       MainLocked, Live, containers, mainVars, workerVars

\* Once nobody is accepted, no step of the server breaks TornInv: only run()
\* starts threads, and one at a time.
LEMMA TornMain ==
  ASSUME ThreadsInv, TornInv, UNCHANGED processVars, MainStep, ~terminated,
         Torn => listener # "listening" \/ mainpc = "returned"
  PROVE  TornInv'
<1> SUFFICES ASSUME Torn, ~terminated'
             PROVE  /\ \A t, u \in Tids : Live(t)' /\ Live(u)' => t = u
                    /\ mainpc' \in {"register", "spawn"} => \A t \in Tids : ~Live(t)'
  BY DEF TornInv, Torn, processVars
<1>0. /\ \A t, u \in Tids : Live(t) /\ Live(u) => t = u
      /\ mainpc \in {"register", "spawn"} => \A t \in Tids : ~Live(t)
      /\ phase \in [Tids -> Phases]
  BY DEF TornInv, ThreadsInv, TypeOK
<1> USE <1>0 DEF Live, shared, mainVars, workerVars, MainGoto
<1>1. CASE MainLoop  BY <1>1 DEF MainLoop
<1>2. CASE CleanupLock  BY <1>2 DEF CleanupLock, MainLock
<1>3. CASE CleanupDone  BY <1>3 DEF CleanupDone
<1>4. CASE Select  BY <1>4 DEF Select
<1>5. CASE AcceptFails  BY <1>5 DEF AcceptFails
<1>6. CASE RegisterLock  BY <1>6 DEF RegisterLock, MainLock
<1>7. CASE SpawnFails  BY <1>7 DEF SpawnFails
<1>8. CASE InsertThread  BY <1>8 DEF InsertThread
<1>9. CASE FinalLock  BY <1>9 DEF FinalLock, MainLock
<1>10. CASE FinalJoin
  BY <1>10 DEF FinalJoin, ThreadsInv, TypeOK
<1>11. CASE FinalDone  BY <1>11 DEF FinalDone
<1>12. ASSUME NEW t \in Tids, CleanupJoin(t)
       PROVE  /\ \A v, u \in Tids : Live(v)' /\ Live(u)' => v = u
              /\ mainpc' \notin {"register", "spawn"}
  BY <1>12 DEF CleanupJoin
<1>13. ASSUME NEW t \in Tids, SpawnThread(t)
       PROVE  /\ \A v, u \in Tids : Live(v)' /\ Live(u)' => v = u
              /\ mainpc' \notin {"register", "spawn"}
  BY <1>13 DEF SpawnThread
<1>14. ASSUME NEW s \in Sockets, Accept(s) PROVE FALSE
  BY <1>14 DEF Accept
<1>15. ASSUME NEW s \in Sockets, FinalClose(s)
       PROVE  /\ UNCHANGED phase /\ mainpc' \notin {"register", "spawn"}
  BY <1>15 DEF FinalClose
<1> QED
  BY <1>1, <1>2, <1>3, <1>4, <1>5, <1>6, <1>7, <1>8, <1>9, <1>10, <1>11,
     <1>12, <1>13, <1>14, <1>15 DEF MainStep

LEMMA TornWorker ==
  ASSUME ThreadsInv, TornInv, UNCHANGED processVars, NEW w \in Tids, WorkerStep(w)
  PROVE  TornInv'
<1>1. /\ UNCHANGED <<mainpc, terminated>> /\ Live(w)
      /\ \E ph \in Phases : phase' = [phase EXCEPT ![w] = ph]
  BY DEF WorkerStep, WorkerLoop, RecvTimeout, RecvData, RecvEnds, HandleMessages,
         CloseSocket, LockFinished, PushFinished, ExitThread, WorkerGoto, Phases,
         Live, mainVars
<1>2. \A t \in Tids : Live(t)' => Live(t)
  BY <1>1 DEF Live, ThreadsInv, TypeOK
<1> QED
  BY <1>1, <1>2 DEF TornInv, Torn, processVars

LEMMA ServerSteps ==
  ASSUME ProcessInv, ~terminated, ServerStep, UNCHANGED processVars
  PROVE  ProcessInv'
<1>1. Torn => listener # "listening" \/ mainpc = "returned"
  BY DEF ProcessInv, ProcessTyped, ClosedInv, Torn, Deleters
<1>2. CASE MainStep
  <2>1. UNCHANGED listener /\ (mainpc = "returned" => mainpc' = "returned")
    BY <1>2 DEF MainStep, MainLoop, CleanupLock, CleanupDone, Select, AcceptFails,
                RegisterLock, SpawnFails, InsertThread, FinalLock, FinalJoin,
                FinalDone, CleanupJoin, SpawnThread, Accept, FinalClose, MainLock,
                MainGoto, shared, mainVars
  <2>2. ClosedInv'
    BY <2>1 DEF ClosedInv, ProcessInv, processVars
  <2> QED
    BY <1>1, <1>2, <2>2, ThreadsMain, TornMain DEF ProcessInv, ProcessTyped, processVars
<1>3. ASSUME NEW t \in Tids, WorkerStep(t) PROVE ProcessInv'
  <2>1. UNCHANGED <<listener, mainpc>>
    BY <1>3 DEF WorkerStep, WorkerLoop, RecvTimeout, RecvData, RecvEnds,
                HandleMessages, CloseSocket, LockFinished, PushFinished, ExitThread,
                shared, mainVars
  <2>2. ClosedInv'
    BY <2>1 DEF ClosedInv, ProcessInv, processVars
  <2> QED
    BY <1>3, <2>2, ThreadsWorker, TornWorker DEF ProcessInv, ProcessTyped, processVars
<1>4. CASE Clients
  <2>1. /\ UNCHANGED <<running, listener, handle, containers, mainVars, workerVars,
                       terminated>>
        /\ backlog' \in 0 .. BacklogBound
    BY <1>4, ServerConstants
    DEF ServerConstants, Clients, Connect, Abandon, ProcessInv, ThreadsInv, TypeOK
  <2>2. ThreadsInv'
    BY <2>1, ThreadsUnchanged DEF ProcessInv, ThreadsInv, TypeOK
  <2> QED
    BY <2>1, <2>2 DEF ProcessInv, ProcessTyped, ClosedInv, TornInv, Torn, Live,
                      processVars, mainVars, workerVars
<1> QED
  BY <1>2, <1>3, <1>4 DEF ServerStep

-----------------------------------------------------------------------------
(* Steps of ConsoleHandler and of the destructors. *)

LEMMA NoHandles ==
  ASSUME handle' = [s \in Sockets |-> None]
  PROVE  handle' \in [Sockets -> Tids \cup {Main, None}]
OBVIOUS

LEMMA HandlerKeeps ==
  ASSUME ProcessInv, PressCtrlC \/ HandlerStep
  PROVE  ProcessInv'
<1> USE ServerConstants, ConsoleConstant
<1>1. CASE PressCtrlC \/ HandlerExits
  BY <1>1 DEF PressCtrlC, HandlerExits, ProcessInv, ProcessTyped, ClosedInv, TornInv,
     Torn, Live, vars, shared, containers, mainVars, workerVars, ThreadsInv, TypeOK,
     MutexInv, ThreadsAccounted, TemporaryInv, EntryInv
<1>2. CASE HandlerClosesListener
  <2>1. ThreadsInv'
    BY <1>2, ThreadsUnchanged DEF HandlerClosesListener, ProcessInv, ThreadsInv,
       TypeOK, ListenerStates, ServerConstants
  <2> QED
    BY <1>2, <2>1 DEF HandlerClosesListener, ProcessInv, ProcessTyped, ClosedInv,
       TornInv, Torn, Live, mainVars, workerVars
<1>3. CASE HandlerWSACleanup
  <2>1. ThreadsInv'
    BY <1>3, ThreadsUnchanged, NoHandles DEF HandlerWSACleanup, ProcessInv,
       ThreadsInv, TypeOK
  <2>2. ProcessTyped' /\ ClosedInv'
    BY <1>3 DEF HandlerWSACleanup, ProcessInv, ProcessTyped, DeleteStates, ClosedInv,
       Deleters, mainVars, ServerConstants, ConsoleConstant
  <2>3. Torn' => Torn
    BY <1>3 DEF HandlerWSACleanup, ProcessInv, ProcessTyped, Torn
  <2>4. TornInv'
    BY <1>3, <2>3 DEF HandlerWSACleanup, ProcessInv, TornInv, Live, mainVars, workerVars
  <2> QED
    BY <2>1, <2>2, <2>4 DEF ProcessInv
<1> QED
  BY <1>1, <1>2, <1>3 DEF HandlerStep

LEMMA DeletesKeep ==
  ASSUME ProcessInv, ~terminated, MainDeletes \/ \E d \in Deleters : DeleteStep(d)
  PROVE  ProcessInv'
<1> USE ServerConstants, ConsoleConstant DEF ServerConstants, ConsoleConstant
<1>1. CASE MainDeletes
  <2>1. Torn' => Torn
    BY <1>1 DEF MainDeletes, DeleteGoto, ProcessInv, ProcessTyped, Torn
  <2>2. ProcessTyped' /\ ClosedInv'
    BY <1>1 DEF MainDeletes, DeleteGoto, ProcessInv, ProcessTyped, ClosedInv, Deleters,
       DeleteStates, vars, shared, mainVars
  <2>3. ThreadsInv' /\ TornInv'
    BY <1>1, <2>1 DEF MainDeletes, ProcessInv, TornInv, Live, vars, shared, containers,
       mainVars, workerVars, ThreadsInv, TypeOK, MutexInv, ThreadsAccounted,
       TemporaryInv, EntryInv
  <2> QED
    BY <2>2, <2>3 DEF ProcessInv
<1>2. ASSUME NEW d \in Deleters, DestructorStops(d) PROVE ProcessInv'
  <2>1. ThreadsInv'
    BY <1>2, ThreadsUnchanged DEF DestructorStops, ProcessInv, ThreadsInv, TypeOK
  <2>2. Torn' => Torn
    BY <1>2 DEF DestructorStops, DeleteGoto, ProcessInv, ProcessTyped, Torn
  <2>3. ProcessTyped' /\ ClosedInv'
    BY <1>2 DEF DestructorStops, DeleteGoto, ProcessInv, ProcessTyped, ClosedInv,
       Deleters, DeleteStates, mainVars
  <2>4. TornInv'
    BY <1>2, <2>2 DEF DestructorStops, ProcessInv, TornInv, Live, mainVars, workerVars
  <2> QED
    BY <2>1, <2>3, <2>4 DEF ProcessInv
<1>3. ASSUME NEW d \in Deleters, DestroyMembers(d) PROVE ProcessInv'
  <2>1. /\ UNCHANGED <<shared, containers, mainVars, workerVars>>
        /\ terminated' = \E s \in Sockets : client_threads[s] # None
    BY <1>3 DEF DestroyMembers
  <2>2. ThreadsInv'
    BY <2>1, ThreadsUnchanged DEF shared, ProcessInv, ThreadsInv, TypeOK
  <2>3. ProcessTyped' /\ ClosedInv'
    BY <1>3 DEF DestroyMembers, DeleteGoto, ProcessInv, ProcessTyped, ClosedInv,
       Deleters, DeleteStates, mainVars, shared
  <2>4. TornInv'
    <3> SUFFICES ASSUME \A s \in Sockets : client_threads[s] = None
                 PROVE  TornInv'
      BY <2>1 DEF TornInv
    <3>1. \A t \in Tids : Live(t) => mainpc = "insert" /\ new_thread = t
      BY DEF ProcessInv, ThreadsInv, ThreadsAccounted
    <3> QED
      BY <2>1, <3>1 DEF TornInv, Live, mainVars, workerVars
  <2> QED
    BY <2>2, <2>3, <2>4 DEF ProcessInv
<1>4. ASSUME NEW d \in Deleters, DestroyBase(d) PROVE ProcessInv'
  <2>1. ThreadsInv'
    BY <1>4, ThreadsUnchanged, NoHandles DEF DestroyBase, ProcessInv, ThreadsInv,
       TypeOK, ListenerStates
  <2>2. Torn /\ UNCHANGED <<mainVars, workerVars, terminated>>
    BY <1>4 DEF DestroyBase, DeleteGoto, Torn
  <2>3. ProcessTyped' /\ ClosedInv'
    BY <1>4 DEF DestroyBase, DeleteGoto, ProcessInv, ProcessTyped, ClosedInv,
       Deleters, DeleteStates, mainVars
  <2>4. TornInv'
    BY <2>2 DEF ProcessInv, TornInv, Live, mainVars, workerVars
  <2> QED
    BY <2>1, <2>3, <2>4 DEF ProcessInv
<1> QED
  BY <1>1, <1>2, <1>3, <1>4 DEF DeleteStep

-----------------------------------------------------------------------------

LEMMA ProcessInitially == ProcessInit => ProcessInv
<1> SUFFICES ASSUME ProcessInit PROVE ProcessInv
  OBVIOUS
<1>1. IInv
  BY InvInit DEF ProcessInit
<1>2. ThreadsInv
  BY <1>1 DEF ThreadsInv, IInv, EntryInv, HandleInv
<1> QED
  BY <1>2, ConsoleConstant DEF ProcessInit, ProcessInv, ProcessTyped, ClosedInv,
     TornInv, Torn, Deleters, DeleteStates

LEMMA ProcessSteps == ProcessInv /\ [ProcessNext]_allVars => ProcessInv'
<1> SUFFICES ASSUME ProcessInv, [ProcessNext]_allVars PROVE ProcessInv'
  OBVIOUS
<1>1. CASE UNCHANGED allVars
  BY <1>1 DEF allVars, processVars, ProcessInv, ProcessTyped, ClosedInv, TornInv,
     Torn, Live, vars, shared, containers, mainVars, workerVars, ThreadsInv, TypeOK,
     MutexInv, ThreadsAccounted, TemporaryInv, EntryInv
<1> QED
  BY <1>1, ServerSteps, HandlerKeeps, DeletesKeep DEF ProcessNext, Alive

\* However Ctrl+C, run() and the workers interleave, and whichever thread deletes
\* the server: when "delete db" is reached and the process has not been terminated,
\* at most the one worker run() was starting is left that could call the database
\* (server.cpp 16-20, threaded_server.cpp 12-14).
THEOREM DatabaseIsLast == ProcessSpec => []DatabaseOutlivesWorkers
<1>1. ProcessInv => DatabaseOutlivesWorkers
  <2> SUFFICES ASSUME ProcessInv, ~terminated, Torn
               PROVE  Cardinality({t \in Tids : Live(t)}) <= 1
    BY DEF DatabaseOutlivesWorkers, Torn
  <2> DEFINE left == {t \in Tids : Live(t)}
  <2>1. \A t, u \in left : t = u
    BY DEF ProcessInv, TornInv
  <2> HIDE DEF left
  <2>2. Cardinality({}) = 0 /\ \A t : Cardinality({t}) = 1
    BY FS_EmptySet, FS_Singleton
  <2>3. left = {} \/ \E t : left = {t}
    <3>1. CASE left # {}
      <4>1. PICK t : t \in left
        BY <3>1
      <4>2. left = {t}
        BY <2>1, <4>1
      <4> QED
        BY <4>2
    <3> QED
      BY <3>1
  <2>4. Cardinality(left) <= 1
    BY <2>2, <2>3
  <2> QED
    BY <2>4 DEF left
<1> QED
  BY <1>1, ProcessInitially, ProcessSteps, PTL DEF ProcessSpec

-----------------------------------------------------------------------------
(* The pool of connections the server implements.                          *)

\* While the system accepts connections, the handle of one that is used is its
\* user's: in the process this ends with closesocket(socket_fd) and WSACleanup.
OwnInv == listener = "listening" => HandleInv /\ ServingOwnsHandle

PoolInv == ThreadsInv /\ OwnInv

poolView == <<backlog, Unassigned, Assigned, DoneWith, Openness>>

LEMMA PoolFromServer == IInv => PoolInv
BY DEF IInv, PoolInv, ThreadsInv, EntryInv, OwnInv, HandleInv

\* Steps in which workers neither begin nor end, nor put their connection away.
LEMMA WorkersKeep ==
  ASSUME UNCHANGED workerVars
  PROVE  UNCHANGED <<Assigned, DoneWith>>
BY DEF Assigned, DoneWith, Live, workerVars

LEMMA WorkerMoves ==
  ASSUME TypeOK, NEW t \in Tids, NEW from, NEW to, WorkerGoto(t, from, to), UNCHANGED sock,
         from # "unused", to # "unused"
  PROVE  /\ UNCHANGED Assigned
         /\ (from \in Serving <=> to \in Serving) => UNCHANGED DoneWith
         /\ from \in Serving /\ to \notin Serving => DoneWith' = DoneWith \cup {t}
<1>1. /\ phase[t] = from /\ phase'[t] = to
      /\ \A u \in Tids \ {t} : phase'[u] = phase[u]
  BY DEF WorkerGoto, TypeOK
<1>2. \A u \in Tids : Live(u)' <=> Live(u)
  BY <1>1 DEF Live
<1>3. UNCHANGED Assigned
  BY <1>2 DEF Assigned
<1>4. (from \in Serving <=> to \in Serving) => UNCHANGED DoneWith
  BY <1>1, <1>2 DEF DoneWith
<1>5. from \in Serving /\ to \notin Serving => DoneWith' = DoneWith \cup {t}
  BY <1>1, <1>2 DEF DoneWith, Live
<1> QED
  BY <1>3, <1>4, <1>5

LEMMA WorkerEnds ==
  ASSUME TypeOK, NEW t \in Tids, phase[t] = "exited", UNCHANGED sock,
         phase' = [phase EXCEPT ![t] = "unused"]
  PROVE  /\ t \in DoneWith /\ DoneWith' = DoneWith \ {t}
         /\ Assigned' = [Assigned EXCEPT ![t] = None]
<1>1. /\ phase'[t] = "unused"
      /\ \A u \in Tids \ {t} : phase'[u] = phase[u]
  BY DEF TypeOK
<1>2. ~Live(t)' /\ \A u \in Tids \ {t} : Live(u)' <=> Live(u)
  BY <1>1 DEF Live
<1>3. t \in DoneWith
  BY DEF DoneWith, Live, Serving
<1>4. DoneWith' = DoneWith \ {t}
  BY <1>1, <1>2 DEF DoneWith
<1>5. Assigned' = [Assigned EXCEPT ![t] = None]
  BY <1>2 DEF Assigned
<1> QED
  BY <1>3, <1>4, <1>5

LEMMA WorkerBegins ==
  ASSUME TypeOK, NEW t \in Tids, NEW s \in Sockets, phase[t] = "unused",
         phase' = [phase EXCEPT ![t] = "loop"], sock' = [sock EXCEPT ![t] = s]
  PROVE  /\ Assigned[t] = None /\ UNCHANGED DoneWith
         /\ Assigned' = [Assigned EXCEPT ![t] = s]
<1>1. /\ phase'[t] = "loop" /\ sock'[t] = s
      /\ \A u \in Tids \ {t} : phase'[u] = phase[u] /\ sock'[u] = sock[u]
  BY DEF TypeOK
<1>2. Live(t)' /\ ~Live(t) /\ \A u \in Tids \ {t} : Live(u)' <=> Live(u)
  BY <1>1 DEF Live
<1>3. Assigned[t] = None
  BY <1>2 DEF Assigned
<1>4. UNCHANGED DoneWith
  BY <1>1, <1>2 DEF DoneWith, Serving
<1>5. Assigned' = [Assigned EXCEPT ![t] = s]
  BY <1>1, <1>2 DEF Assigned
<1> QED
  BY <1>3, <1>4, <1>5

\* Who lives has a connection.
LEMMA LiveHasHandle ==
  ASSUME ThreadsInv, NEW t \in Tids
  PROVE  Live(t) <=> Assigned[t] # None
<1>1. Live(t) => sock[t] \in Sockets
  BY DEF ThreadsInv, ThreadsAccounted, TemporaryInv
<1> QED
  BY <1>1, ServerConstants DEF Assigned, ServerConstants

-----------------------------------------------------------------------------

LEMMA AcceptTakes ==
  ASSUME PoolInv, ~terminated, NEW s \in Sockets, Accept(s)
  PROVE  Pool!Take(s)
<1>1. /\ listener = "listening" /\ backlog > 0 /\ handle[s] = None
      /\ mainpc = "accept" /\ mainpc' = "register" /\ client_socket' = s
      /\ backlog' = backlog - 1 /\ UNCHANGED <<workerVars, terminated>>
  BY DEF Accept, Available, MainGoto
<1>2. Openness = "open" /\ UNCHANGED Openness /\ Unassigned = None /\ Unassigned' = s
  BY <1>1 DEF Openness, Leaving, Unassigned
<1>3. UNCHANGED <<Assigned, DoneWith>>
  BY <1>1, WorkersKeep
<1>4. s \notin Pool!Used
  <2>1. ASSUME NEW t \in Tids \ DoneWith, Assigned[t] = s PROVE FALSE
    <3>1. Live(t) /\ sock[t] = s
      BY <2>1, ServerConstants DEF Assigned, ServerConstants
    <3>2. phase[t] \in Serving
      BY <2>1, <3>1 DEF DoneWith
    <3>3. handle[s] = t
      BY <1>1, <3>1, <3>2 DEF PoolInv, OwnInv, ServingOwnsHandle, Leaving
    <3> QED
      BY <1>1, <3>3, ServerConstants DEF ServerConstants
  <2> QED
    BY <2>1 DEF Pool!Used
<1> QED
  BY <1>1, <1>2, <1>3, <1>4 DEF Pool!Take

LEMMA SpawnStarts ==
  ASSUME PoolInv, NEW t \in Tids, SpawnThread(t)
  PROVE  Pool!Start(t)
<1>1. /\ phase[t] = "unused" /\ mainpc = "spawn" /\ mainpc' = "insert"
      /\ phase' = [phase EXCEPT ![t] = "loop"]
      /\ sock' = [sock EXCEPT ![t] = client_socket]
      /\ UNCHANGED <<backlog, client_socket, terminated>>
  BY DEF SpawnThread, MainGoto
<1>2. client_socket \in Sockets /\ TypeOK
  BY <1>1 DEF PoolInv, ThreadsInv, EntryInv
<1>3. /\ Assigned[t] = None /\ UNCHANGED DoneWith
      /\ Assigned' = [Assigned EXCEPT ![t] = client_socket]
  BY <1>1, <1>2, WorkerBegins
<1>4. /\ Unassigned = client_socket /\ Unassigned' = None /\ UNCHANGED Openness
      /\ Unassigned # None
  BY <1>1, <1>2, ServerConstants DEF Unassigned, Openness, Leaving, ServerConstants
<1> QED
  BY <1>1, <1>3, <1>4 DEF Pool!Start

\* Whoever is waited for has exited, and is not in use any more.
LEMMA JoinReaps ==
  ASSUME PoolInv, NEW t \in Tids, phase[t] = "exited",
         phase' = [phase EXCEPT ![t] = "unused"],
         UNCHANGED <<backlog, sock, Unassigned, Openness>>
  PROVE  Pool!Reap(t)
<1>1. TypeOK
  BY DEF PoolInv, ThreadsInv
<1> QED
  BY <1>1, WorkerEnds DEF Pool!Reap

LEMMA AbortMaps ==
  ASSUME PoolInv, ~terminated, terminated',
         UNCHANGED <<backlog, mainVars, workerVars>>,
         \/ mainpc = "spawn" /\ \A t \in Tids : Live(t)
         \/ \E t \in Tids : Live(t)
  PROVE  Pool!Abort
<1>1. UNCHANGED <<Assigned, DoneWith, Unassigned>>
  BY WorkersKeep DEF Unassigned, mainVars
<1>2. Openness' = "dead"
  BY DEF Openness
<1>3. CASE mainpc = "spawn" /\ \A t \in Tids : Live(t)
  <2>1. Unassigned # None
    BY <1>3, ServerConstants DEF Unassigned, ServerConstants, PoolInv, ThreadsInv, EntryInv
  <2>2. \A t \in Tids : Assigned[t] # None
    BY <1>3, LiveHasHandle DEF PoolInv
  <2> QED
    BY <1>1, <1>2, <2>1, <2>2 DEF Pool!Abort
<1>4. CASE \E t \in Tids : Live(t)
  <2>1. \E t \in Tids : Assigned[t] # None
    BY <1>4, LiveHasHandle DEF PoolInv
  <2> QED
    BY <1>1, <1>2, <2>1 DEF Pool!Abort
<1> QED
  BY <1>3, <1>4

PoolStep == [Pool!Next]_poolView

\* The main thread does not change what the pool shows, or it changes that it
\* is open.
LEMMA MainMaps == ASSUME PoolInv, ~terminated, MainStep PROVE PoolStep
<1>0. Openness # "dead"
  BY DEF Openness, Leaving
<1>1. ASSUME UNCHANGED <<backlog, terminated, workerVars>>,
             Unassigned' = Unassigned, Openness' = Openness
      PROVE  PoolStep
  BY <1>1, WorkersKeep DEF PoolStep, poolView
<1>2. ASSUME mainpc' = "finallock", mainpc \in {"loop", "select"},
             UNCHANGED <<backlog, terminated, workerVars>>
      PROVE  PoolStep
  <2>1. Unassigned = None /\ Unassigned' = None /\ Openness = "open"
        /\ Openness' = "closing"
    BY <1>2 DEF Unassigned, Openness, Leaving
  <2>2. Pool!Close
    BY <1>2, <2>1, WorkersKeep DEF Pool!Close
  <2> QED
    BY <1>0, <2>2 DEF PoolStep, Pool!Next
<1> USE DEF MainGoto, Leaving, shared, mainVars
<1>3. CASE MainLoop
  <2>1. UNCHANGED <<backlog, terminated, workerVars, client_socket>>
    BY <1>3 DEF MainLoop
  <2>2. CASE mainpc' = "cleanlock"
    BY <1>1, <1>3, <2>1, <2>2 DEF MainLoop, Unassigned, Openness
  <2>3. CASE mainpc' = "finallock"
    BY <1>2, <1>3, <2>1, <2>3 DEF MainLoop
  <2> QED
    BY <1>3, <2>2, <2>3 DEF MainLoop
<1>4. CASE CleanupLock \/ RegisterLock \/ FinalLock
  BY <1>1, <1>4 DEF CleanupLock, RegisterLock, FinalLock, MainLock, Unassigned, Openness
<1>5. CASE CleanupDone \/ AcceptFails
  BY <1>1, <1>5 DEF CleanupDone, AcceptFails, Unassigned, Openness
<1>6. CASE Select
  <2>1. UNCHANGED <<backlog, terminated, workerVars, client_socket>> /\ mainpc = "select"
        /\ mainpc' \in {"accept", "loop", "finallock"}
    BY <1>6 DEF Select
  <2>2. CASE mainpc' # "finallock"
    BY <1>1, <2>1, <2>2 DEF Unassigned, Openness
  <2>3. CASE mainpc' = "finallock"
    BY <1>2, <2>1, <2>3
  <2> QED
    BY <2>2, <2>3
<1>7. CASE SpawnFails
  <2>1. Pool!Abort
    BY <1>7, AbortMaps DEF SpawnFails
  <2> QED
    BY <1>0, <2>1 DEF PoolStep, Pool!Next
<1>8. CASE InsertThread
  <2>1. mainpc = "insert" /\ UNCHANGED <<backlog, workerVars>>
    BY <1>8 DEF InsertThread
  <2>2. CASE client_threads[client_socket] # None
    <3>1. terminated' /\ UNCHANGED mainVars
      BY <1>8, <2>2 DEF InsertThread
    <3>2. \E t \in Tids : Live(t)
      BY <2>1 DEF PoolInv, ThreadsInv, TemporaryInv
    <3>3. Pool!Abort
      BY <2>1, <3>1, <3>2, AbortMaps
    <3> QED
      BY <1>0, <3>3 DEF PoolStep, Pool!Next
  <2>3. CASE client_threads[client_socket] = None
    <3>1. mainpc' = "loop" /\ UNCHANGED terminated
      BY <1>8, <2>3 DEF InsertThread
    <3> QED
      BY <1>1, <2>1, <3>1 DEF Unassigned, Openness
  <2> QED
    BY <2>2, <2>3
<1>9. CASE FinalJoin
  <2> DEFINE t == client_threads[client_socket]
  <2>1. /\ mainpc = "join" /\ mainpc' = "final" /\ phase[t] = "exited"
        /\ phase' = [phase EXCEPT ![t] = "unused"]
        /\ UNCHANGED <<backlog, client_socket, sock, terminated>>
    BY <1>9 DEF FinalJoin
  <2>2. t \in Tids
    BY <2>1 DEF PoolInv, ThreadsInv, TypeOK, TemporaryInv
  <2>3. UNCHANGED <<Unassigned, Openness>>
    BY <2>1 DEF Unassigned, Openness
  <2> HIDE DEF t
  <2>4. Pool!Reap(t)
    BY <2>1, <2>2, <2>3, JoinReaps
  <2> QED
    BY <1>0, <2>2, <2>4 DEF PoolStep, Pool!Next
<1>10. CASE FinalDone
  <2>1. /\ mainpc = "final" /\ mainpc' = "returned"
        /\ \A s \in Sockets : client_threads[s] = None
        /\ UNCHANGED <<backlog, client_socket, workerVars, terminated>>
    BY <1>10 DEF FinalDone
  <2>2. \A t \in Tids : ~Live(t)
    BY <2>1, ServerConstants
    DEF ServerConstants, PoolInv, ThreadsInv, ThreadsAccounted
  <2>3. \A t \in Tids : Assigned[t] = None
    BY <2>2 DEF Assigned
  <2>4. Openness = "closing" /\ Openness' = "over" /\ UNCHANGED Unassigned
    BY <2>1 DEF Openness, Unassigned
  <2>5. Pool!End
    BY <2>1, <2>3, <2>4, WorkersKeep DEF Pool!End
  <2> QED
    BY <1>0, <2>5 DEF PoolStep, Pool!Next
<1>11. ASSUME NEW t \in Tids, CleanupJoin(t) PROVE PoolStep
  <2>1. /\ mainpc = "cleanup" /\ UNCHANGED <<backlog, mainpc, client_socket, sock, terminated>>
    BY <1>11 DEF CleanupJoin
  <2>2. UNCHANGED <<Unassigned, Openness>>
    BY <2>1 DEF Unassigned, Openness
  <2>3. CASE EntriesOf(t) = {}
    <3>1. UNCHANGED workerVars
      BY <1>11, <2>3 DEF CleanupJoin, workerVars
    <3> QED
      BY <1>1, <2>1, <2>2, <3>1
  <2>4. CASE EntriesOf(t) # {}
    <3>1. phase[t] = "exited" /\ phase' = [phase EXCEPT ![t] = "unused"]
      BY <1>11, <2>4 DEF CleanupJoin
    <3>2. Pool!Reap(t)
      BY <2>1, <2>2, <3>1, JoinReaps
    <3> QED
      BY <1>0, <3>2 DEF PoolStep, Pool!Next
  <2> QED
    BY <2>3, <2>4
<1>12. ASSUME NEW t \in Tids, SpawnThread(t) PROVE PoolStep
  BY <1>0, <1>12, SpawnStarts DEF PoolStep, Pool!Next
<1>13. ASSUME NEW s \in Sockets, Accept(s) PROVE PoolStep
  BY <1>0, <1>13, AcceptTakes DEF PoolStep, Pool!Next
<1>14. ASSUME NEW s \in Sockets, FinalClose(s) PROVE PoolStep
  <2>1. /\ mainpc = "final" /\ mainpc' = "join"
        /\ UNCHANGED <<backlog, workerVars, terminated>>
    BY <1>14 DEF FinalClose
  <2> QED
    BY <1>1, <2>1 DEF Unassigned, Openness
<1> QED
  BY <1>3, <1>4, <1>5, <1>6, <1>7, <1>8, <1>9, <1>10, <1>11, <1>12, <1>13, <1>14
  DEF MainStep

LEMMA WorkerMaps ==
  ASSUME PoolInv, ~terminated, NEW t \in Tids, WorkerStep(t)
  PROVE  PoolStep
<1>1. TypeOK /\ Openness # "dead"
  BY DEF PoolInv, ThreadsInv, Openness, Leaving
<1>2. UNCHANGED <<backlog, mainVars, sock, terminated>>
  BY DEF WorkerStep, WorkerLoop, RecvTimeout, RecvData, RecvEnds, HandleMessages,
         CloseSocket, LockFinished, PushFinished, ExitThread, shared
<1>3. UNCHANGED <<Unassigned, Openness>>
  BY <1>2 DEF Unassigned, Openness, mainVars
<1>4. CASE CloseSocket(t)
  <2>1. WorkerGoto(t, "close", "lock")
    BY <1>4 DEF CloseSocket
  <2>2. UNCHANGED Assigned /\ DoneWith' = DoneWith \cup {t}
    BY <1>1, <1>2, <2>1, WorkerMoves DEF Serving
  <2>3. Assigned[t] # None /\ t \notin DoneWith
    <3>1. phase[t] = "close"
      BY <2>1 DEF WorkerGoto
    <3>2. Live(t) /\ t \notin DoneWith
      BY <3>1 DEF Live, DoneWith, Serving
    <3> QED
      BY <3>2, LiveHasHandle DEF PoolInv
  <2>4. Pool!Finish(t)
    BY <1>2, <1>3, <2>2, <2>3 DEF Pool!Finish
  <2> QED
    BY <1>1, <2>4 DEF PoolStep, Pool!Next
<1>5. CASE ~CloseSocket(t)
  <2>1. \E from, to \in Phases \ {"unused"} :
           /\ WorkerGoto(t, from, to)
           /\ from \in Serving <=> to \in Serving
    BY <1>5 DEF WorkerStep, WorkerLoop, RecvTimeout, RecvData, RecvEnds, HandleMessages,
         LockFinished, PushFinished, ExitThread, Phases, Serving
  <2>2. UNCHANGED <<Assigned, DoneWith>>
    BY <1>1, <1>2, <2>1, WorkerMoves
  <2> QED
    BY <1>2, <1>3, <2>2 DEF PoolStep, poolView
<1> QED
  BY <1>4, <1>5

LEMMA ClientsMap == ASSUME PoolInv, ~terminated, Clients PROVE PoolStep
<1>1. UNCHANGED <<mainVars, workerVars, terminated>>
  BY DEF Clients, Connect, Abandon
<1>2. UNCHANGED <<Unassigned, Assigned, DoneWith, Openness>>
  BY <1>1, WorkersKeep DEF Unassigned, Openness, mainVars
<1>3. Openness # "dead"
  BY DEF Openness, Leaving
<1>4. backlog \in Nat
  BY ServerConstants DEF ServerConstants, PoolInv, ThreadsInv, TypeOK
<1>5. CASE Connect
  BY <1>2, <1>3, <1>5 DEF Connect, Pool!Arrive, PoolStep, Pool!Next
<1>6. CASE Abandon
  <2>1. backlog' \in Nat /\ backlog' < backlog
    BY <1>4, <1>6 DEF Abandon
  <2> QED
    BY <1>2, <1>3, <2>1 DEF Pool!Leave, PoolStep, Pool!Next
<1> QED
  BY <1>5, <1>6 DEF Clients

LEMMA PoolUnchanged ==
  ASSUME UNCHANGED vars
  PROVE  PoolStep
<1>1. UNCHANGED <<backlog, mainVars, workerVars, terminated>>
  BY DEF vars, shared
<1> QED
  BY <1>1, WorkersKeep DEF PoolStep, poolView, Unassigned, Openness, mainVars

LEMMA PoolBegins == Init => Pool!Init
<1> SUFFICES ASSUME Init PROVE Pool!Init
  OBVIOUS
<1>1. \A t \in Tids : ~Live(t)
  BY DEF Init, Live
<1>2. Assigned = [t \in Tids |-> None] /\ DoneWith = {}
  BY <1>1 DEF Assigned, DoneWith
<1>3. backlog = 0 /\ Unassigned = None /\ Openness = "open"
  BY DEF Init, Unassigned, Openness, Leaving
<1> QED
  BY <1>2, <1>3 DEF Pool!Init

\* The accept loop, its workers and their handles implement a pool whose
\* connections are each served by one worker, with and without the reuse of
\* handles.
THEOREM ServerIsPool == Spec => ServesConnections
<1>1. IInv /\ [Next]_vars => PoolStep
  <2> SUFFICES ASSUME IInv, [Next]_vars PROVE PoolStep
    OBVIOUS
  <2>1. CASE UNCHANGED vars
    BY <2>1, PoolUnchanged
  <2>2. CASE ~terminated /\ (MainStep \/ Clients \/ \E t \in Tids : WorkerStep(t))
    BY <2>2, PoolFromServer, MainMaps, ClientsMap, WorkerMaps
  <2> QED
    BY <2>1, <2>2 DEF Next, Stopped
<1> QED
  BY <1>1, PoolBegins, InvariantHolds, PTL
  DEF Spec, ServesConnections, Pool!Spec, PoolStep, poolView, Pool!poolVars

-----------------------------------------------------------------------------
(* The pool under Ctrl+C.                                                  *)

LEMMA OwnFromServer ==
  ASSUME ThreadsInv, OwnInv, MainStep \/ \E t \in Tids : WorkerStep(t)
  PROVE  OwnInv'
<1> USE ServerConstants
    DEF ServerConstants, ThreadsInv, TypeOK, ThreadsAccounted, TemporaryInv,
        EntryInv, OwnInv, HandleInv, ServingOwnsHandle, MainLocked, Leaving, Serving,
        Live, shared, containers, mainVars, workerVars, MainGoto, WorkerGoto
<1>1. CASE MainLoop  BY <1>1 DEF MainLoop
<1>2. CASE CleanupLock  BY <1>2 DEF CleanupLock, MainLock
<1>3. CASE CleanupDone  BY <1>3 DEF CleanupDone
<1>4. CASE Select  BY <1>4 DEF Select
<1>5. CASE AcceptFails  BY <1>5 DEF AcceptFails
<1>6. CASE RegisterLock  BY <1>6 DEF RegisterLock, MainLock
<1>7. CASE SpawnFails  BY <1>7 DEF SpawnFails
<1>8. CASE InsertThread  BY <1>8 DEF InsertThread
<1>9. CASE FinalLock  BY <1>9 DEF FinalLock, MainLock
<1>10. CASE FinalJoin  BY <1>10 DEF FinalJoin
<1>11. CASE FinalDone  BY <1>11 DEF FinalDone
<1>12. ASSUME NEW t \in Tids, CleanupJoin(t) PROVE OwnInv'
  BY <1>12 DEF CleanupJoin
<1>13. ASSUME NEW t \in Tids, SpawnThread(t) PROVE OwnInv'
  BY <1>13 DEF SpawnThread
<1>14. ASSUME NEW s \in Sockets, Accept(s) PROVE OwnInv'
  BY <1>14 DEF Accept, Available
<1>15. ASSUME NEW s \in Sockets, FinalClose(s) PROVE OwnInv'
  BY <1>15 DEF FinalClose
<1>16. ASSUME NEW t \in Tids, CloseSocket(t) PROVE OwnInv'
  BY <1>16 DEF CloseSocket
<1>17. ASSUME NEW t \in Tids, WorkerStep(t), ~CloseSocket(t) PROVE OwnInv'
  BY <1>17 DEF WorkerStep, WorkerLoop, RecvTimeout, RecvData, RecvEnds, HandleMessages,
               LockFinished, PushFinished, ExitThread
<1> QED
  BY <1>1, <1>2, <1>3, <1>4, <1>5, <1>6, <1>7, <1>8, <1>9, <1>10, <1>11,
     <1>12, <1>13, <1>14, <1>15, <1>16, <1>17 DEF MainStep

\* Steps that leave the threads and the handles alone, or close the listener.
LEMMA OwnUnchanged ==
  ASSUME OwnInv, UNCHANGED <<mainVars, workerVars>>,
         listener' = "invalid" \/ UNCHANGED <<listener, handle>>
  PROVE  OwnInv'
BY DEF OwnInv, HandleInv, ServingOwnsHandle, mainVars, workerVars

LEMMA OwnStep == ProcessInv /\ OwnInv /\ [ProcessNext]_allVars => OwnInv'
<1> SUFFICES ASSUME ProcessInv, OwnInv, [ProcessNext]_allVars PROVE OwnInv'
  OBVIOUS
<1> USE DEF vars, shared
<1>1. CASE MainStep \/ \E t \in Tids : WorkerStep(t)
  BY <1>1, OwnFromServer DEF ProcessInv
<1>2. CASE Clients
  BY <1>2, OwnUnchanged DEF Clients, Connect, Abandon
<1>3. CASE PressCtrlC \/ HandlerClosesListener \/ HandlerExits
  BY <1>3, OwnUnchanged DEF PressCtrlC, HandlerClosesListener, HandlerExits
<1>4. CASE HandlerWSACleanup
  <2>1. listener = "invalid" /\ UNCHANGED <<listener, mainVars, workerVars>>
    BY <1>4 DEF HandlerWSACleanup, ProcessInv, ClosedInv
  <2> QED
    BY <2>1, OwnUnchanged
<1>5. CASE MainDeletes
  BY <1>5, OwnUnchanged DEF MainDeletes
<1>6. ASSUME NEW d \in Deleters, DeleteStep(d) PROVE OwnInv'
  BY <1>6, OwnUnchanged DEF DeleteStep, DestructorStops, DestroyMembers, DestroyBase
<1>7. CASE UNCHANGED allVars
  BY <1>7, OwnUnchanged DEF allVars
<1> QED
  BY <1>1, <1>2, <1>3, <1>4, <1>5, <1>6, <1>7 DEF ProcessNext, ServerStep, HandlerStep

\* What ConsoleHandler and the destructors do to the pool: clients that wait are
\* gone, and a worker that is still stored makes the process end.
LEMMA EndMaps ==
  ASSUME ProcessInv, OwnInv, ~terminated,
         PressCtrlC \/ HandlerStep \/ MainDeletes \/ \E d \in Deleters : DeleteStep(d)
  PROVE  PoolStep
<1>1. PoolInv /\ backlog \in Nat /\ Openness # "dead"
  BY ServerConstants DEF ServerConstants, ProcessInv, PoolInv, ThreadsInv, TypeOK,
     Openness, Leaving
<1>2. ASSUME UNCHANGED <<mainVars, workerVars, terminated>>
      PROVE  UNCHANGED <<Unassigned, Assigned, DoneWith, Openness>>
  BY <1>2, WorkersKeep DEF Unassigned, Openness, mainVars
<1>3. ASSUME UNCHANGED <<mainVars, workerVars, terminated>>, backlog' = 0
      PROVE  PoolStep
  <2>1. CASE backlog = 0
    BY <1>2, <1>3, <2>1 DEF PoolStep, poolView
  <2>2. CASE backlog # 0
    <3>1. backlog' \in Nat /\ backlog' < backlog
      BY <1>1, <1>3, <2>2
    <3>2. Pool!Leave
      BY <1>2, <1>3, <3>1 DEF Pool!Leave
    <3> QED
      BY <1>1, <3>2 DEF PoolStep, Pool!Next
  <2> QED
    BY <2>1, <2>2
<1>4. CASE HandlerClosesListener \/ \E d \in Deleters : DestroyBase(d)
  BY <1>3, <1>4 DEF HandlerClosesListener, DestroyBase
<1>5. CASE \/ PressCtrlC \/ HandlerWSACleanup \/ HandlerExits \/ MainDeletes
           \/ \E d \in Deleters : DestructorStops(d)
  <2>1. UNCHANGED <<backlog, mainVars, workerVars, terminated>>
    BY <1>5 DEF PressCtrlC, HandlerWSACleanup, HandlerExits, MainDeletes,
                DestructorStops, vars, shared
  <2> QED
    BY <1>2, <2>1 DEF PoolStep, poolView
<1>6. ASSUME NEW d \in Deleters, DestroyMembers(d) PROVE PoolStep
  <2>1. /\ UNCHANGED <<backlog, mainVars, workerVars>>
        /\ terminated' = \E s \in Sockets : client_threads[s] # None
    BY <1>6 DEF DestroyMembers, shared
  <2>2. CASE \A s \in Sockets : client_threads[s] = None
    <3>1. terminated \in BOOLEAN
      BY DEF ProcessInv, ThreadsInv, TypeOK
    <3>2. UNCHANGED terminated
      BY <2>1, <2>2, <3>1
    <3> QED
      BY <1>2, <2>1, <3>2 DEF PoolStep, poolView
  <2>3. CASE \E s \in Sockets : client_threads[s] # None
    <3>1. terminated'
      BY <2>1, <2>3
    <3>2. \E t \in Tids : Live(t)
      BY <2>3 DEF ProcessInv, ThreadsInv, ThreadsAccounted, TypeOK
    <3>3. Pool!Abort
      BY <1>1, <2>1, <3>1, <3>2, AbortMaps
    <3> QED
      BY <1>1, <3>3 DEF PoolStep, Pool!Next
  <2> QED
    BY <2>2, <2>3
<1> QED
  BY <1>4, <1>5, <1>6 DEF HandlerStep, DeleteStep

LEMMA ProcessMaps == ProcessInv /\ OwnInv /\ [ProcessNext]_allVars => PoolStep
<1> SUFFICES ASSUME ProcessInv, OwnInv, [ProcessNext]_allVars PROVE PoolStep
  OBVIOUS
<1>1. CASE UNCHANGED vars
  BY <1>1, PoolUnchanged
<1>2. CASE ~terminated /\ ServerStep
  BY <1>2, MainMaps, ClientsMap, WorkerMaps DEF ServerStep, ProcessInv, PoolInv
<1> QED
  BY <1>1, <1>2, EndMaps DEF ProcessNext, Alive, allVars

LEMMA OwnInitially == ProcessInit => OwnInv
BY InvInit, PoolFromServer DEF ProcessInit, PoolInv

\* So does the whole process, whenever Ctrl+C takes the sockets away and whoever
\* deletes the server.
THEOREM ProcessIsPool == ProcessSpec => ServesConnections
<1>1. ProcessInit => Pool!Init
  BY PoolBegins DEF ProcessInit
<1> QED
  BY <1>1, OwnInitially, OwnStep, ProcessMaps, ProcessInitially, ProcessSteps, PTL
  DEF ProcessSpec, ServesConnections, Pool!Spec, PoolStep, poolView, Pool!poolVars

-----------------------------------------------------------------------------
(* What every such pool keeps.                                             *)

\* Everything but the connections' owners.
PoolTyped ==
    /\ Assigned \in [Tids -> Sockets \cup {None}]
    /\ DoneWith \in SUBSET Tids
    /\ Unassigned \in Sockets \cup {None}

LEMMA PoolKeepsApart ==
  ASSUME PoolTyped, Pool!Exclusive, PoolStep
  PROVE  Pool!Exclusive'
<1> USE ServerConstants DEF ServerConstants, Pool!Exclusive, Pool!Used, PoolTyped
<1>1. CASE UNCHANGED <<Unassigned, Assigned, DoneWith>>
  BY <1>1
<1>2. ASSUME NEW s \in Sockets, Pool!Take(s) PROVE Pool!Exclusive'
  BY <1>2 DEF Pool!Take
<1>3. ASSUME NEW t \in Tids, Pool!Start(t) PROVE Pool!Exclusive'
  BY <1>3 DEF Pool!Start
<1>4. ASSUME NEW t \in Tids, Pool!Finish(t) PROVE Pool!Exclusive'
  BY <1>4 DEF Pool!Finish
<1>5. ASSUME NEW t \in Tids, Pool!Reap(t) PROVE Pool!Exclusive'
  BY <1>5 DEF Pool!Reap
<1>6. CASE Pool!Arrive \/ Pool!Leave \/ Pool!Close \/ Pool!End \/ Pool!Abort
  BY <1>1, <1>6 DEF Pool!Arrive, Pool!Leave, Pool!Close, Pool!End, Pool!Abort
<1> QED
  BY <1>1, <1>2, <1>3, <1>4, <1>5, <1>6 DEF PoolStep, poolView, Pool!Next

LEMMA PoolTypes == ASSUME ThreadsInv PROVE PoolTyped
<1>1. \A t \in Tids : Assigned[t] \in Sockets \cup {None}
  BY DEF Assigned, ThreadsInv, TypeOK
<1> QED
  BY <1>1 DEF PoolTyped, Assigned, DoneWith, Unassigned, ThreadsInv, TypeOK

\* In the process no two workers that still use their connection ever have the
\* same handle, nor has one the handle that was just accepted: also while the
\* sockets are closed under them, and whatever handles are reissued.
THEOREM WorkersKeepApart == ProcessSpec => []Pool!Exclusive
<1>1. Pool!Init => Pool!Exclusive
  BY ServerConstants DEF ServerConstants, Pool!Init, Pool!Exclusive, Pool!Used
<1>2. ProcessInv => PoolTyped
  BY PoolTypes DEF ProcessInv
<1>3. ProcessInit => Pool!Init
  BY PoolBegins DEF ProcessInit
<1> QED
  BY <1>1, <1>2, <1>3, PoolKeepsApart, OwnInitially, OwnStep, ProcessMaps,
     ProcessInitially, ProcessSteps, PTL
  DEF ProcessSpec

=============================================================================
