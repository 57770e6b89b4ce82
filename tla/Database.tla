------------------------------- MODULE Database -------------------------------
(***************************************************************************)
(* class Database of server/src/source/database.cpp: the file users.db,    *)
(* its table USERS and the connection the server's threads share.          *)
(*                                                                         *)
(* SQLite itself is not part of the model.  What the code relies on is     *)
(* that a statement runs as a whole, is durable when sqlite3_exec returns  *)
(* SQLITE_OK, and may instead return an error and change nothing.  Every   *)
(* error ends in a message on the console and nowhere else: the callers    *)
(* cannot see it.                                                          *)
(***************************************************************************)
EXTENDS Integers, FiniteSets, FiniteSetsExt

CONSTANTS
    Texts,      \* texts that can stand in a column
    Quoted,     \* those with an apostrophe in them
    MaxId,      \* bound: no statement inserts a row beyond this id
    DiskFails   \* may opening the file or running a statement fail?

ASSUME DatabaseConstants ==
    /\ Quoted \subseteq Texts
    /\ MaxId \in Nat
    /\ DiskFails \in BOOLEAN

VARIABLES
    db_file,    \* users.db: absent, without tables, or with table USERS
    users,      \* the rows of USERS, their ID and EMAIL columns
    last_id,    \* the row of sqlite_sequence that AUTOINCREMENT keeps
    db          \* the member db: null, open, or closed but not reset

dbVars == <<db_file, users, last_id, db>>

FileStates == {"absent", "empty", "table"}
DbStates   == {"null", "open", "closed"}
User       == [id : Nat, email : Texts]

UserIds == {u.id : u \in users}
Emails  == {u.email : u \in users}

DbTypeOK ==
    /\ db_file \in FileStates
    /\ users \in SUBSET User
    /\ last_id \in Nat
    /\ db \in DbStates

-----------------------------------------------------------------------------

\* A statement on USERS can succeed.  With the connection null or closed,
\* sqlite3_exec answers SQLITE_MISUSE at best.
TableReachable == db = "open" /\ db_file = "table"

\* A literal '...' built by concatenation is valid SQL.
Literal(text) == text \notin Quoted

\* sqlite3_open makes the file if there is none.
FileOpened == db_file' = IF db_file = "absent" THEN "empty" ELSE db_file

\* create_db: opens and closes the file on a connection of its own.
CreateDb ==
    /\ \/ FileOpened
       \/ DiskFails /\ UNCHANGED db_file
    /\ UNCHANGED <<users, last_id, db>>

\* open_db: after an error the connection is closed, and db still points to it.
OpenDb ==
    /\ \/ FileOpened /\ db' = "open"
       \/ DiskFails /\ db' = "closed" /\ UNCHANGED db_file
    /\ UNCHANGED <<users, last_id>>

CreateTable ==
    \/ /\ db = "open" /\ db_file = "empty"
       /\ db_file' = "table"
       /\ UNCHANGED <<users, last_id, db>>
    \/ /\ db # "open" \/ db_file # "empty" \/ DiskFails
       /\ UNCHANGED dbVars

\* The statement of delete_table also forgets the sequence of its ids.
DeleteTable ==
    \/ /\ TableReachable
       /\ db_file' = "empty" /\ users' = {} /\ last_id' = 0
       /\ UNCHANGED db
    \/ (~TableReachable \/ DiskFails) /\ UNCHANGED dbVars

\* Mutation of InsertUser: the table was declared without AUTOINCREMENT, so
\* that a new row gets the largest ID in use plus one.
InsertAfterLargest(email, literal) ==
    \/ /\ TableReachable /\ literal /\ last_id < MaxId
       /\ LET id == 1 + Max(UserIds \cup {0})
          IN  /\ last_id' = id
              /\ users' = users \cup {[id |-> id, email |-> email]}
       /\ UNCHANGED <<db_file, db>>
    \/ /\ ~TableReachable \/ ~literal \/ DiskFails
       /\ UNCHANGED dbVars

\* insert_user, where literal says whether all five columns are literals.
InsertUser(email, literal) ==
    \/ /\ TableReachable /\ literal /\ last_id < MaxId
       /\ last_id' = last_id + 1
       /\ users' = users \cup {[id |-> last_id + 1, email |-> email]}
       /\ UNCHANGED <<db_file, db>>
    \/ /\ ~TableReachable \/ ~literal \/ DiskFails
       /\ UNCHANGED dbVars

\* The statement succeeds whether or not there is such a row.
DeleteUser(id) ==
    \/ /\ TableReachable
       /\ users' = {u \in users : u.id # id}
       /\ UNCHANGED <<db_file, last_id, db>>
    \/ /\ ~TableReachable \/ DiskFails
       /\ UNCHANGED dbVars

\* The system does not remove a file that is open.
DeleteDb ==
    \/ /\ db # "open" /\ db_file # "absent"
       /\ db_file' = "absent" /\ users' = {} /\ last_id' = 0
       /\ UNCHANGED db
    \/ /\ db = "open" \/ db_file = "absent" \/ DiskFails
       /\ UNCHANGED dbVars

Rows(email) == {u.id : u \in {v \in users : v.email = email}}

\* Mutation of FindUser: the callback stops the statement at the first row.
FindFirst(email) ==
    IF TableReachable /\ Literal(email) /\ Rows(email) # {}
    THEN Min(Rows(email)) ELSE -1

\* find_user when the statement runs.  The rows come in the order of their
\* ids and callback keeps the last one; after an error the answer is -1 too.
FindUser(email) ==
    IF TableReachable /\ Literal(email) /\ Rows(email) # {}
    THEN Max(Rows(email)) ELSE -1

\* What find_user may return.
FindResults(email) == {FindUser(email)} \cup (IF DiskFails THEN {-1} ELSE {})

=============================================================================
