---------------------------- MODULE DataLineStream ----------------------------
(***************************************************************************)
(* std::istringstream and std::getline on the characters of a message, as  *)
(* handle_registration_data_threaded and handle_login_data_threaded of     *)
(* threaded_server.cpp call them, character by character because that is   *)
(* where the conversion can go wrong.  The messages are those that module  *)
(* LineFraming cuts from the bytes of a connection.                        *)
(***************************************************************************)
EXTENDS DataLine, LineFraming

Comma == ","
Space == " "

\* " \n\r\t", of which a message may still hold these; the tab is as a space.
Blanks == {Space, Return}

ASSUME StreamConstants == NoText = <<>>

-----------------------------------------------------------------------------
(* The stream: what is left of it, whether the stream is good, and the     *)
(* fields read so far.                                                     *)

Stream(chars) == [rest |-> chars, eof |-> FALSE, fail |-> FALSE, read |-> <<>>]

Commas(chars) == {i \in DOMAIN chars : chars[i] = Comma}

\* getline(iss, f): everything up to the end.
GetRest(st) ==
    IF st.eof \/ st.fail THEN [st EXCEPT !.fail = TRUE]
    ELSE [rest |-> <<>>, eof |-> TRUE, fail |-> st.rest = <<>>,
          read |-> Append(st.read, st.rest)]

\* getline(iss, f, ','): up to the next comma, which is extracted as well.
GetField(st) ==
    IF st.eof \/ st.fail \/ Commas(st.rest) = {} THEN GetRest(st)
    ELSE LET i == Min(Commas(st.rest))
         IN  [st EXCEPT !.rest = SubSeq(st.rest, i + 1, Len(st.rest)),
                        !.read = Append(@, SubSeq(st.rest, 1, i - 1))]

TrimChars(chars) ==
    LET kept == {i \in DOMAIN chars : chars[i] \notin Blanks}
    IN  IF kept = {} THEN <<>> ELSE SubSeq(chars, 1, Max(kept))

ReadLogin(chars) == GetRest(GetField(Stream(chars)))

ReadRegistration(chars) ==
    GetRest(GetField(GetField(GetField(GetField(Stream(chars))))))

\* The branch a handler takes, from the fields it has read.
Branch(chars, st, required) ==
    IF chars = <<>> THEN "no data"
    ELSE IF st.fail THEN "invalid format"
    ELSE IF \E i \in 1 .. required : TrimChars(st.read[i]) = <<>>
         THEN "missing fields"
         ELSE "accepted"

-----------------------------------------------------------------------------
(* The same characters as a line of module DataLine. *)

\* Its fields, read off the places of its commas.
FieldEnd(chars, k) ==
    CASE k = 0 -> 0
      [] k \in 1 .. Cardinality(Commas(chars)) -> Nth(Commas(chars), k)
      [] k = Cardinality(Commas(chars)) + 1 -> Len(chars) + 1

FieldAt(chars, k) == SubSeq(chars, FieldEnd(chars, k - 1) + 1, FieldEnd(chars, k) - 1)

LineOf(chars) ==
    [k \in 1 .. Cardinality(Commas(chars)) + 1 |->
        Field(TrimChars(FieldAt(chars, k)), TrimChars(FieldAt(chars, k)) # FieldAt(chars, k))]

-----------------------------------------------------------------------------
(* Properties.  The handlers are called with one message at a time. *)

\* Reading a registration line with getline ends in the branch, and with the
\* email, that the line's fields determine (lines 178-220).
RegistrationAgrees ==
    messages # <<>> =>
        LET message == Last(messages)
            line == LineOf(message)
            st == ReadRegistration(message)
        IN  /\ RegistrationOutcome(line) = Branch(message, st, 4)
            /\ RegistrationOutcome(line) = "accepted" => Email(line) = TrimChars(st.read[1])

\* The same for a login line, whose password takes the rest (lines 224-259).
LoginAgrees ==
    messages # <<>> =>
        LET message == Last(messages)
            line == LineOf(message)
            st == ReadLogin(message)
        IN  /\ LoginOutcome(line) = Branch(message, st, 2)
            /\ LoginOutcome(line) = "accepted" => Email(line) = TrimChars(st.read[1])

=============================================================================
