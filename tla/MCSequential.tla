----------------------------- MODULE MCSequential -----------------------------
(***************************************************************************)
(* Small instances of the parts that no two threads are in at a time, or   *)
(* that serve one connection: the bytes of a connection (DataLineStream),  *)
(* class Database (DatabaseUse) and class HashTable.  They share nothing;  *)
(* in a behavior one of them is used and the others stay as they begin.    *)
(***************************************************************************)
EXTENDS DataLineStream, DatabaseUse, HashTable

VARIABLE part   \* the part that is used

partsVars == <<part, framingVars, useVars, vars>>

NoChars == <<>>

\* Every data line over a letter, a space and a comma of up to nine characters,
\* so that five one-character fields fit, and every stream of up to five with
\* newlines and carriage returns anywhere.
DataAndStreams ==
    {Append(line, Newline) : line \in BoundedSeq({"a", Space, Comma}, 9)}
        \cup BoundedSeq({"a", Space, Comma, Newline, Return}, 5)

\* "a" and "c" share a chain, and so do "b" and "ac"; the last key is the letter
\* u with an umlaut in UTF-8, whose chars are negative.
SomeKeys == {<<97>>, <<98>>, <<99>>, <<97, 99>>, <<-61, -68>>}

PartsInit ==
    /\ FramingInit /\ UseInit /\ Init
    /\ part \in {"lines", "database", "hash table"}
    /\ part # "lines" => input = <<>>
    /\ part # "database" => db_file = "absent"

PartsNext ==
    /\ \/ part = "lines"      /\ FramingNext /\ UNCHANGED <<useVars, vars>>
       \/ part = "database"   /\ UseNext     /\ UNCHANGED <<framingVars, vars>>
       \/ part = "hash table" /\ Next        /\ UNCHANGED <<framingVars, useVars>>
    /\ UNCHANGED part

PartsSpec == PartsInit /\ [][PartsNext]_partsVars

=============================================================================
