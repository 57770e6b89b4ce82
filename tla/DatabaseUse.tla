----------------------------- MODULE DatabaseUse -----------------------------
(***************************************************************************)
(* A caller of class Database that makes any sequence of calls: those the  *)
(* server makes (setup, registration, login) and those it does not make    *)
(* (delete_user, delete_table, delete_db).                                 *)
(***************************************************************************)
EXTENDS Database

VARIABLES
    leaked,   \* open_db has overwritten an open connection, which stays open
    retired   \* history: ids of the rows deleted from this table

useVars == <<dbVars, leaked, retired>>

\* Database's constructor; any file may lie there from an earlier run.
UseInit ==
    /\ db_file \in FileStates
    /\ users = {} /\ last_id = 0
    /\ db = "null" /\ leaked = FALSE
    /\ retired = {}

Opening ==
    /\ \/ OpenDb /\ leaked' = (leaked \/ db = "open")
       \/ (CreateDb \/ CreateTable) /\ UNCHANGED leaked
    /\ UNCHANGED retired

Registering ==
    /\ \E e \in Texts : InsertUser(e, Literal(e))
    /\ UNCHANGED <<leaked, retired>>

Deleting ==
    /\ \E id \in UserIds : DeleteUser(id)
    /\ retired' = retired \cup (UserIds \ {u.id : u \in users'})
    /\ UNCHANGED leaked

\* With a leaked connection the file stays open and is not removed.
Dropping ==
    /\ DeleteTable \/ (~leaked /\ DeleteDb)
    /\ retired' = IF db_file' = db_file THEN retired ELSE {}
    /\ UNCHANGED leaked

\* ~Database: sqlite3_close.  The next connection is another object's.
Closing ==
    /\ db = "open"
    /\ db' = "null"
    /\ UNCHANGED <<db_file, users, last_id, leaked, retired>>

UseNext == Opening \/ Registering \/ Deleting \/ Dropping \/ Closing

UseSpec == UseInit /\ [][UseNext]_useVars

-----------------------------------------------------------------------------
(* Properties. *)

\* The id of a deleted user never designates another user: whoever kept an
\* answer of find_user cannot delete or read someone else with it.
IdsNeverReused == UserIds \cap retired = {}

\* A row just inserted is the one find_user finds for its email, whatever
\* rows with that email there are already.
LatestRegistrationFound ==
    [][\A u \in users' \ users : FindUser(u.email)' = u.id]_useVars

=============================================================================
