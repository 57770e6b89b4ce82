------------------------------- MODULE Accounts -------------------------------
(***************************************************************************)
(* The life of the accounts across runs of the server: the part of         *)
(* Server::setup (server/src/source/server.cpp) that finds or makes        *)
(* users.db, the sessions of module Session once run() is reached, and the *)
(* end of the process at any moment, by Ctrl+C or otherwise, followed by   *)
(* another start.                                                          *)
(*                                                                         *)
(* When setup fails before line 58 there is no listening socket, hence no  *)
(* session: such starts are left out.                                      *)
(***************************************************************************)
EXTENDS Session

CONSTANTS
    MaxStarts,     \* bound: starts of the process
    FirstFiles,    \* what users.db may be before the first of them
    CrashInSetup   \* may the process end while setup makes users.db?

ASSUME AccountsConstants ==
    /\ MaxStarts \in Nat /\ CrashInSetup \in BOOLEAN
    /\ FirstFiles \subseteq {"absent", "empty", "table"}

VARIABLES
    server,   \* where setup() is, "up" once run() accepts clients
    starts    \* number of starts

accountsVars == <<vars, server, starts>>

SetupStates == {"exists", "create", "open new", "table", "open old"}

AccountsInit ==
    /\ SessionsFresh
    /\ confirmed = {}
    /\ db_file \in FirstFiles /\ users = {} /\ last_id = 0
    /\ db = "null"
    /\ server = "down" /\ starts = 0

SetupGoto(from, to) ==
    /\ server = from /\ server' = to
    /\ UNCHANGED <<sessionVars, confirmed, starts>>

Start ==
    /\ server = "down" /\ starts < MaxStarts
    /\ server' = "exists" /\ starts' = starts + 1
    /\ UNCHANGED vars

\* std::filesystem::exists(db->get_db_name())
CheckFile ==
    /\ SetupGoto("exists", IF db_file = "absent" THEN "create" ELSE "open old")
    /\ UNCHANGED dbVars

MakeFile  == SetupGoto("create", "open new") /\ CreateDb
OpenNew   == SetupGoto("open new", "table") /\ OpenDb
MakeTable == SetupGoto("table", "up") /\ CreateTable
OpenOld   == SetupGoto("open old", "up") /\ OpenDb

Setup == CheckFile \/ MakeFile \/ OpenNew \/ MakeTable \/ OpenOld

Serve == server = "up" /\ Next /\ UNCHANGED <<server, starts>>

\* The process ends.  Its connections and everything in memory are gone, what
\* SQLite has committed stays.
Crash ==
    /\ server # "down"
    /\ server \in {"create", "open new", "table"} => CrashInSetup
    /\ server' = "down"
    /\ db' = "null"
    /\ state' = Fresh("IDLE") /\ pc' = Fresh("recv") /\ job' = Fresh(EmptyLine)
    /\ found' = Fresh(-1) /\ peer' = Fresh(TRUE)
    /\ handled' = Fresh(<<>>) /\ replies' = Fresh(<<>>)
    /\ UNCHANGED <<confirmed, db_file, users, last_id, starts>>

AccountsNext == Start \/ Setup \/ Serve \/ Crash

AccountsSpec == AccountsInit /\ [][AccountsNext]_accountsVars

-----------------------------------------------------------------------------
(* Properties. *)

\* Whoever reaches a server that accepts clients reaches its accounts: setup
\* never leaves the server up without the table.  Lines 58-65 fail this: a
\* process that ends after line 60 and before line 62 leaves a file without a
\* table, which the next start takes for the database.
UpMeansTable == server = "up" => TableReachable

\* The disk does what it is asked for, and setup is not cut off, nor was before.
Steady == ~DiskFails /\ ~CrashInSetup /\ "empty" \notin FirstFiles

\* The request a worker is at, as its client sees it.  The INSERT has all the
\* texts of the line in it, the SELECT only the email.
Call(c) ==
    LET asked(op, sure, answer) ==
            [op |-> op, email |-> Email(job[c]), sure |-> Steady /\ sure,
             answer |-> answer]
        inserting(answer) == asked("register", LiteralLine(job[c]), answer)
        finding(answer)   == asked("login", Literal(Email(job[c])), answer)
    IN  CASE pc[c] = "insert"  -> inserting("none")
          [] pc[c] = "confirm" -> inserting("yes")
          [] pc[c] = "find"    -> finding("none")
          [] pc[c] = "answer"  -> finding(IF found[c] # -1 THEN "yes" ELSE "no")
          [] OTHER             -> [op |-> "idle"]

Calls == [c \in Sessions |-> Call(c)]

\* The workers, the shared connection and the restarts together are accounts
\* that are stored and looked up atomically; what a failed statement or an
\* apostrophe can do wrong ends with the request at which it happens
\* (threaded_server.cpp 203-252, database.cpp, server.cpp 58-65).
Atomic == INSTANCE AccountService
    WITH Addresses <- {Email(line) : line \in Lines},
         stored <- Emails, call <- Calls

AccountsAtomic == Atomic!Spec

=============================================================================
