------------------------------- MODULE Session -------------------------------
(***************************************************************************)
(* What a worker of server/src/source/threaded_server.cpp does with the    *)
(* lines it receives: handle_message_threaded, the handlers it calls, and  *)
(* the database that all workers share.  Each connection is a session.     *)
(*                                                                         *)
(* A handler's work on its own connection is one step.  Its call of the    *)
(* database and the reply that follows are steps of their own, because     *)
(* other workers run, and the process can end, between them.               *)
(***************************************************************************)
EXTENDS DataLine, Database, Histories, SequencesExt

CONSTANTS
    Sessions,   \* connections
    Lines,      \* lines a client may send
    MaxLines    \* bound: lines a session handles

ASSUME SessionConstants == MaxLines \in Nat /\ NoText \in Texts

VARIABLES
    state,      \* local_state.state of each worker
    pc,         \* where each worker is
    job,        \* the data line it works on
    found,      \* user_id, the answer of find_user
    peer,       \* whether the client is still there
    handled,    \* history: lines the worker has taken from its buffer
    replies,    \* history: what the client was sent
    confirmed   \* history: emails whose registration was confirmed

sessionVars == <<state, pc, job, found, peer, handled, replies>>
vars == <<sessionVars, confirmed, dbVars>>

ClientStates == {"IDLE", "WAITING_REGISTER_DATA", "WAITING_LOGIN_DATA"}

Fresh(value) == [c \in Sessions |-> value]

SessionsFresh ==
    /\ state = Fresh("IDLE") /\ pc = Fresh("recv") /\ job = Fresh(EmptyLine)
    /\ found = Fresh(-1) /\ peer = Fresh(TRUE)
    /\ handled = Fresh(<<>>) /\ replies = Fresh(<<>>)

\* The state Server::setup leaves when the file was there and opened.
Init ==
    /\ SessionsFresh
    /\ confirmed = {}
    /\ db_file = "table" /\ users = {} /\ last_id = 0 /\ db = "open"

-----------------------------------------------------------------------------
(* The replies.  A line and the empty state of a session determine all of  *)
(* them but the answer to a login.                                         *)

Command(name) == <<Field(name, FALSE)>>

CommandReplies(line) ==
    CASE line = Command("exit")      -> <<"Goodbye!">>
      [] line = Command("register")  -> <<"Send email,password,name,surname,note">>
      [] line = Command("login")     -> <<"Send email,password">>
      [] line = Command("logout")    -> <<"Logged out">>
      [] line = Command("get image") -> <<"image", "Image sent">>
      [] OTHER                       -> <<"Unknown command">>

AfterCommand(line) ==
    CASE line = Command("register") -> "WAITING_REGISTER_DATA"
      [] line = Command("login")    -> "WAITING_LOGIN_DATA"
      [] OTHER                      -> "IDLE"

\* send() to a client that is gone fails, and nobody looks at its result; the
\* loop that sends an image ends there.
Send(c, texts) ==
    replies' = [replies EXCEPT ![c] = IF peer[c] THEN @ \o texts ELSE @]

Goto(c, to) == pc' = [pc EXCEPT ![c] = to]

\* recv delivers the next line of the session.
Take(c, line) ==
    /\ pc[c] = "recv" /\ Len(handled[c]) < MaxLines
    /\ handled' = [handled EXCEPT ![c] = Append(@, line)]
    /\ UNCHANGED <<found, peer>>

-----------------------------------------------------------------------------
(* handle_message_threaded. *)

HandleCommand(c, line) ==
    /\ Take(c, line)
    /\ state[c] = "IDLE"
    /\ Send(c, CommandReplies(line))
    /\ state' = [state EXCEPT ![c] = AfterCommand(line)]
    /\ Goto(c, IF line = Command("exit") THEN "closed" ELSE "recv")
    /\ UNCHANGED <<job, confirmed, dbVars>>

\* Mutation of RejectData: only a line that is accepted ends the wait.
RejectAndWait(c, line, waiting, verb, outcome) ==
    /\ Take(c, line)
    /\ state[c] = waiting /\ outcome # "accepted"
    /\ Send(c, <<verb \o " failed - " \o outcome>>)
    /\ UNCHANGED <<state, pc, job, confirmed, dbVars>>

\* A data line no statement is run for.
RejectData(c, line, waiting, verb, outcome) ==
    /\ Take(c, line)
    /\ state[c] = waiting /\ outcome # "accepted"
    /\ Send(c, <<verb \o " failed - " \o outcome>>)
    /\ state' = [state EXCEPT ![c] = "IDLE"]
    /\ UNCHANGED <<pc, job, confirmed, dbVars>>

\* A data line a statement is run for.
AcceptData(c, line, waiting, outcome, next) ==
    /\ Take(c, line)
    /\ state[c] = waiting /\ outcome = "accepted"
    /\ job' = [job EXCEPT ![c] = line]
    /\ Goto(c, next)
    /\ UNCHANGED <<state, replies, confirmed, dbVars>>

HandleRegistrationData(c, line) ==
    LET outcome == RegistrationOutcome(line) IN
    \/ RejectData(c, line, "WAITING_REGISTER_DATA", "Registration", outcome)
    \/ AcceptData(c, line, "WAITING_REGISTER_DATA", outcome, "insert")

HandleLoginData(c, line) ==
    LET outcome == LoginOutcome(line) IN
    \/ RejectData(c, line, "WAITING_LOGIN_DATA", "Login", outcome)
    \/ AcceptData(c, line, "WAITING_LOGIN_DATA", outcome, "find")

\* All columns are put into the statement as they came, the note as well.
LiteralLine(line) == \A i \in DOMAIN line : Literal(Trim(line[i]))

\* Mutation of StoreUser: the client is told before the row is inserted.
StoreAfterReply(c) ==
    /\ pc[c] = "insert"
    /\ Send(c, <<"Registration successful">>)
    /\ confirmed' = IF peer[c] THEN confirmed \cup {Email(job[c])} ELSE confirmed
    /\ Goto(c, "confirm")
    /\ UNCHANGED <<state, job, found, peer, handled, dbVars>>

\* insert_user returns nothing: the worker goes on in any case.
StoreUser(c) ==
    /\ pc[c] = "insert"
    /\ InsertUser(Email(job[c]), LiteralLine(job[c]))
    /\ Goto(c, "confirm")
    /\ UNCHANGED <<state, job, found, peer, handled, replies, confirmed>>

\* The data line is done, and its session waits for a command again.
Conclude(c, text) ==
    /\ Send(c, <<text>>)
    /\ state' = [state EXCEPT ![c] = "IDLE"]
    /\ Goto(c, "recv")
    /\ UNCHANGED <<job, found, peer, handled, dbVars>>

ConfirmRegistration(c) ==
    /\ pc[c] = "confirm"
    /\ confirmed' = IF peer[c] THEN confirmed \cup {Email(job[c])} ELSE confirmed
    /\ Conclude(c, "Registration successful")

\* Mutation of LookUpUser: the email is looked up as it came.
LookUpUntrimmed(c) ==
    /\ pc[c] = "find"
    /\ found' = [found EXCEPT ![c] =
           IF job[c][1].pad THEN -1 ELSE FindUser(Email(job[c]))]
    /\ Goto(c, "answer")
    /\ UNCHANGED <<state, job, peer, handled, replies, confirmed, dbVars>>

LookUpUser(c) ==
    /\ pc[c] = "find"
    /\ \E id \in FindResults(Email(job[c])) : found' = [found EXCEPT ![c] = id]
    /\ Goto(c, "answer")
    /\ UNCHANGED <<state, job, peer, handled, replies, confirmed, dbVars>>

AnswerLogin(c) ==
    /\ pc[c] = "answer"
    /\ Conclude(c, IF found[c] # -1 THEN "Login successful"
                                    ELSE "Login failed - user not found")
    /\ UNCHANGED confirmed

-----------------------------------------------------------------------------

\* The client is gone.  Lines it sent before that are handled all the same.
HangUp(c) ==
    /\ pc[c] # "closed" /\ peer[c]
    /\ peer' = [peer EXCEPT ![c] = FALSE]
    /\ UNCHANGED <<state, pc, job, found, handled, replies, confirmed, dbVars>>

\* recv returns 0 or an error.
EndSession(c) ==
    /\ pc[c] = "recv" /\ ~peer[c]
    /\ Goto(c, "closed")
    /\ UNCHANGED <<state, job, found, peer, handled, replies, confirmed, dbVars>>

SessionStep(c) ==
    \/ \E line \in Lines : \/ HandleCommand(c, line)
                           \/ HandleRegistrationData(c, line)
                           \/ HandleLoginData(c, line)
    \/ StoreUser(c) \/ ConfirmRegistration(c)
    \/ LookUpUser(c) \/ AnswerLogin(c)
    \/ HangUp(c) \/ EndSession(c)

Next == \E c \in Sessions : SessionStep(c)

Spec == Init /\ [][Next]_vars

-----------------------------------------------------------------------------
(* Properties. *)

\* What a session expects after each of its lines, from those lines alone: the
\* one after "register" or "login" is data, unless that one was data too.
Expects(lines) == Expectations([i \in DOMAIN lines |-> AfterCommand(lines[i])])

LoginAnswers == {"Login successful", "Login failed - user not found"}

\* The replies to a line: each the set of those that may be given.
Replies(expected, line) ==
    CASE expected = "IDLE" ->
            [i \in DOMAIN CommandReplies(line) |-> {CommandReplies(line)[i]}]
      [] expected = "WAITING_REGISTER_DATA" ->
            <<IF RegistrationOutcome(line) = "accepted" THEN {"Registration successful"}
              ELSE {"Registration" \o " failed - " \o RegistrationOutcome(line)}>>
      [] expected = "WAITING_LOGIN_DATA" ->
            <<IF LoginOutcome(line) = "accepted" THEN LoginAnswers
              ELSE {"Login" \o " failed - " \o LoginOutcome(line)}>>

Due(lines) ==
    LET expects == Expects(lines)
    IN  Joined([i \in DOMAIN lines |-> Replies(expects[i - 1], lines[i])])

\* The lines of a session whose handling is over.
Done(c) == IF pc[c] \in {"recv", "closed"} THEN handled[c] ELSE Front(handled[c])

\* Every line is taken for what it is, command or data, and answered once and
\* in order, as long as client and worker are there (lines 128-173).
ReplyMatchesHistory ==
    \A c \in Sessions :
        /\ Fits(replies[c], Due(Done(c)))
        /\ peer[c] /\ pc[c] = "recv" => FitsWholly(replies[c], Due(Done(c)))

\* A registration the client was told about is in the table.
ConfirmedStored == confirmed \subseteq Emails

\* A login is not refused for want of a user whose registration was confirmed
\* before the lookup, by whichever worker.
LoginSeesConfirmed ==
    [][\A c \in Sessions :
          (pc[c] = "find" /\ pc'[c] = "answer" /\ found'[c] = -1)
              => Email(job[c]) \notin confirmed]_vars

=============================================================================
