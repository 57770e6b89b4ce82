------------------------------- MODULE DataLine -------------------------------
(***************************************************************************)
(* The lines a client sends after "register" and "login", and what the     *)
(* handlers of server/src/source/threaded_server.cpp make of them.         *)
(*                                                                         *)
(* A line is the non-empty sequence of its comma-separated fields; a field *)
(* is its text up to the white space that ends it, and whether there is    *)
(* such white space.  A command is a line of one field.  Module            *)
(* DataLineStream compares these definitions with std::getline on the      *)
(* characters.                                                             *)
(***************************************************************************)
EXTENDS Naturals, Sequences

CONSTANT NoText        \* the empty text

Field(text, pad) == [text |-> text, pad |-> pad]

EmptyField == Field(NoText, FALSE)
EmptyLine  == <<EmptyField>>

\* f.erase(f.find_last_not_of(" \n\r\t") + 1)
Trim(f) == f.text

\* Mutation of Splits: any line with k fields will do.
SplitsLoosely(line, k) == Len(line) >= k

\* k - 1 calls of getline(iss, f, ',') and one of getline(iss, f) all succeed:
\* a call fails when it finds the stream at its end, and the last field of a
\* line that is empty leaves nothing to extract.
Splits(line, k) ==
    Len(line) > k \/ (Len(line) = k /\ line[k] # EmptyField)

\* The field read last takes the rest of the line, commas included.
LastBlank(line, k) == Len(line) = k /\ Trim(line[k]) = NoText

Email(line) == Trim(line[1])

RegistrationOutcome(line) ==
    CASE line = EmptyLine   -> "no data"
      [] line # EmptyLine /\ ~Splits(line, 5) -> "invalid format"
      [] Splits(line, 5) /\ \E i \in 1 .. 4 : Trim(line[i]) = NoText
                            -> "missing fields"
      [] Splits(line, 5) /\ \A i \in 1 .. 4 : Trim(line[i]) # NoText
                            -> "accepted"

LoginOutcome(line) ==
    CASE line = EmptyLine   -> "no data"
      [] line # EmptyLine /\ ~Splits(line, 2) -> "invalid format"
      [] Splits(line, 2) /\ (Trim(line[1]) = NoText \/ LastBlank(line, 2))
                            -> "missing fields"
      [] Splits(line, 2) /\ Trim(line[1]) # NoText /\ ~LastBlank(line, 2)
                            -> "accepted"

=============================================================================
